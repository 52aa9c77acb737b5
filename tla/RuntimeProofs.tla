---------------------------- MODULE RuntimeProofs ----------------------------
(***************************************************************************)
(* Proofs about the C library: that qsort sorts every array and ends; that *)
(* the functions on memory and strings do what they should in every memory *)
(* and with every string; and proofs about Startup, for a table of any     *)
(* capacity and a program that registers any number of functions, wherever *)
(* it does; and about Stdio, for any number of FILE objects and of streams *)
(* of the host.                                                            *)
(***************************************************************************)
EXTENDS ArithmeticProofs, Startup, Stdio, Qsort, Strings, SequenceTheorems, FiniteSetTheorems,
  FunctionTheorems

(***************************************************************************)
(* Sorting.                                                                *)
(***************************************************************************)

Arr(b, D) == b \in [D -> Int]

(* f moves the elements of S among themselves, and no others. *)
Moves(f, D, S) ==
  /\ f \in [D -> D]
  /\ \A i, j \in D : f[i] = f[j] => i = j
  /\ \A j \in D : \E i \in D : f[i] = j
  /\ \A i \in D \ S : f[i] = i

(* The array c has the elements of b, in S in another order. *)
Shuffled(b, c, D, S) ==
  Arr(c, D) /\ \E f : Moves(f, D, S) /\ \A i \in D : c[i] = b[f[i]]

LEMMA MovesInside ==
  ASSUME NEW f, NEW D, NEW S \in SUBSET D, Moves(f, D, S), NEW i \in S
  PROVE  f[i] \in S
  <1>1. f[i] \in D
    BY DEF Moves
  <1>2. ASSUME f[i] \notin S
        PROVE  FALSE
    <2>1. f[f[i]] = f[i]
      BY <1>1, <1>2 DEF Moves
    <2>2. f[i] = i
      BY <1>1, <2>1 DEF Moves
    <2>3. QED
      BY <1>2, <2>2
  <1>3. QED
    BY <1>2

LEMMA ShuffledNot ==
  ASSUME NEW b, NEW D, NEW S, Arr(b, D)
  PROVE  Shuffled(b, b, D, S)
  <1> DEFINE f == [i \in D |-> i]
  <1>1. Moves(f, D, S)
    BY DEF Moves
  <1>2. \A i \in D : b[i] = b[f[i]]
    OBVIOUS
  <1>3. QED
    BY <1>1, <1>2 DEF Shuffled

LEMMA ShuffledTwice ==
  ASSUME NEW b, NEW c, NEW d, NEW D, NEW S, NEW T, S \subseteq T, T \subseteq D,
         Shuffled(b, c, D, S), Shuffled(c, d, D, T)
  PROVE  Shuffled(b, d, D, T)
  <1>1. PICK f : Moves(f, D, S) /\ \A i \in D : c[i] = b[f[i]]
    BY DEF Shuffled
  <1>2. PICK g : Moves(g, D, T) /\ \A i \in D : d[i] = c[g[i]]
    BY DEF Shuffled
  <1> DEFINE h == [i \in D |-> f[g[i]]]
  <1>3. f \in [D -> D] /\ g \in [D -> D] /\ h \in [D -> D]
    BY <1>1, <1>2 DEF Moves
  <1>4. \A i \in D : h[i] = f[g[i]] /\ g[i] \in D
    BY <1>3
  <1> HIDE DEF h
  <1>5. ASSUME NEW i \in D, NEW j \in D, h[i] = h[j]
        PROVE  i = j
    <2>1. g[i] = g[j]
      BY <1>1, <1>4, <1>5 DEF Moves
    <2>2. QED
      BY <1>2, <2>1 DEF Moves
  <1>6. ASSUME NEW j \in D
        PROVE  \E i \in D : h[i] = j
    <2>1. PICK k \in D : f[k] = j
      BY <1>1 DEF Moves
    <2>2. PICK i \in D : g[i] = k
      BY <1>2 DEF Moves
    <2>3. QED
      BY <1>4, <2>1, <2>2
  <1>7. ASSUME NEW i \in D \ T
        PROVE  h[i] = i
    <2>1. g[i] = i /\ f[i] = i
      BY <1>1, <1>2, <1>7 DEF Moves
    <2>2. QED
      BY <1>4, <1>7, <2>1
  <1>8. Moves(h, D, T)
    BY <1>3, <1>5, <1>6, <1>7 DEF Moves
  <1>9. \A i \in D : d[i] = b[h[i]]
    BY <1>1, <1>2, <1>4
  <1>10. QED
    BY <1>8, <1>9 DEF Shuffled

(* What an exchange leaves where. *)
Exchanged(b, c, D, i, j) ==
  /\ Arr(c, D) /\ c[i] = b[j] /\ c[j] = b[i]
  /\ \A k \in D \ {i, j} : c[k] = b[k]

LEMMA SwapExact ==
  ASSUME NEW b, NEW D, NEW i \in D, NEW j \in D, Arr(b, D)
  PROVE  Exchanged(b, Swap(b, i, j), D, i, j)
  BY DEF Exchanged, Swap, Arr

LEMMA SwapShuffles ==
  ASSUME NEW b, NEW D, NEW S \in SUBSET D, NEW i \in S, NEW j \in S, Arr(b, D)
  PROVE  Shuffled(b, Swap(b, i, j), D, S)
  <1> DEFINE f == [k \in D |-> CASE k = i -> j [] k = j -> i [] OTHER -> k]
  <1>1. \A k \in D : /\ k = i => f[k] = j
                     /\ k = j => f[k] = i
                     /\ k # i /\ k # j => f[k] = k
    OBVIOUS
  <1>2. f \in [D -> D]
    BY <1>1
  <1> HIDE DEF f
  <1>3. Moves(f, D, S)
    <2>1. ASSUME NEW k \in D, NEW l \in D, f[k] = f[l]
          PROVE  k = l
      BY <1>1, <2>1
    <2>2. \A l \in D : f[f[l]] = l
      BY <1>1
    <2>3. \A l \in D : \E k \in D : f[k] = l
      BY <1>2, <2>2
    <2>4. QED
      BY <1>1, <1>2, <2>1, <2>3 DEF Moves
  <1>4. Exchanged(b, Swap(b, i, j), D, i, j)
    BY SwapExact
  <1>5. \A k \in D : Swap(b, i, j)[k] = b[f[k]]
    BY <1>1, <1>4 DEF Exchanged
  <1>6. QED
    BY <1>3, <1>4, <1>5 DEF Shuffled, Exchanged

(* The same with r elements. *)
RangeExchanged(b, c, D, i, j, r) ==
  /\ Arr(c, D)
  /\ \A k \in 0 .. r - 1 : c[i + k] = b[j + k] /\ c[j + k] = b[i + k]
  /\ \A k \in D : k \notin i .. i + r - 1 /\ k \notin j .. j + r - 1 => c[k] = b[k]

Within2(S, i, j, r) == \A k \in 0 .. r - 1 : i + k \in S /\ j + k \in S

LEMMA SwapRangeExact ==
  ASSUME NEW b, NEW D \in SUBSET Int, NEW S \in SUBSET D, NEW i \in Int, NEW j \in Int, NEW r \in Nat,
         Arr(b, D), Within2(S, i, j, r), i + r <= j
  PROVE  RangeExchanged(b, SwapRange(b, i, j, r), D, i, j, r) /\ Shuffled(b, SwapRange(b, i, j, r), D, S)
  <1> DEFINE up == [x \in Nat \X [D -> Int] |->
                      IF x[1] \in 1 .. r THEN Swap(x[2], i + x[1] - 1, j + x[1] - 1) ELSE x[2]]
  <1>1. ASSUME NEW k \in 1 .. r
        PROVE  i + k - 1 \in S /\ j + k - 1 \in S
    <2>1. k - 1 \in 0 .. r - 1 /\ i + k - 1 = i + (k - 1) /\ j + k - 1 = j + (k - 1)
      OBVIOUS
    <2>2. QED
      BY <2>1 DEF Within2
  <1>2. IsStep(up, [D -> Int])
    <2>1. ASSUME NEW k \in Nat, NEW c \in [D -> Int]
          PROVE  (IF k \in 1 .. r THEN Swap(c, i + k - 1, j + k - 1) ELSE c) \in [D -> Int]
      <3>1. CASE k \in 1 .. r
        <4>1. Exchanged(c, Swap(c, i + k - 1, j + k - 1), D, i + k - 1, j + k - 1)
          BY <1>1, <3>1, SwapExact DEF Arr
        <4>2. QED
          BY <3>1, <4>1 DEF Exchanged, Arr
      <3>2. QED
        BY <3>1
    <2>2. QED
      BY <2>1 DEF IsStep
  <1>3. b \in [D -> Int]
    BY DEF Arr
  <1> HIDE DEF up
  <1>4. PICK f : IsRecursive(f, r, b, up, [D -> Int])
    BY <1>2, <1>3, Recursion, Zenon
  <1>5. ASSUME NEW k \in 1 .. r
        PROVE  f[k] = Swap(f[k - 1], i + k - 1, j + k - 1) /\ f[k - 1] \in [D -> Int]
    <2>1. k - 1 \in 0 .. r /\ k \in Nat
      OBVIOUS
    <2>2. f[k - 1] \in [D -> Int] /\ f[k] = up[<<k, f[k - 1]>>]
      BY <1>4, <2>1 DEF IsRecursive
    <2>3. <<k, f[k - 1]>> \in Nat \X [D -> Int]
      BY <2>1, <2>2
    <2>4. QED
      BY <2>2, <2>3 DEF up
  <1>6. f = [k \in 0 .. r |-> IF k = 0 THEN b ELSE Swap(f[k - 1], i + k - 1, j + k - 1)]
    <2>1. f[0] = b /\ f \in [0 .. r -> [D -> Int]]
      BY <1>4 DEF IsRecursive
    <2>2. \A k \in 0 .. r : k = 0 \/ k \in 1 .. r
      OBVIOUS
    <2>3. \A k \in 0 .. r : f[k] = IF k = 0 THEN b ELSE Swap(f[k - 1], i + k - 1, j + k - 1)
      BY <1>5, <2>1, <2>2
    <2>4. QED
      BY <2>1, <2>3
  <1> DEFINE Is(g) == g = [k \in 0 .. r |-> IF k = 0 THEN b ELSE Swap(g[k - 1], i + k - 1, j + k - 1)]
             swapped == CHOOSE g : Is(g)
             T == {k \in Nat : k <= r => RangeExchanged(b, swapped[k], D, i, j, k)
                                         /\ Shuffled(b, swapped[k], D, S)}
  <1>7. Is(swapped)
    BY <1>6, Zenon
  <1>8. swapped[0] = b /\ \A k \in 1 .. r : swapped[k] = Swap(swapped[k - 1], i + k - 1, j + k - 1)
    <2>1. 0 \in 0 .. r /\ \A k \in 1 .. r : k \in 0 .. r /\ k # 0
      OBVIOUS
    <2> HIDE DEF swapped
    <2>2. QED
      BY <1>7, <2>1
  <1>9. SwapRange(b, i, j, r) = IF r > 0 THEN swapped[r] ELSE b
    BY Zenon DEF SwapRange
  <1> HIDE DEF swapped, Is
  <1>10. 0 \in T
    <2>1. RangeExchanged(b, b, D, i, j, 0)
      BY DEF RangeExchanged
    <2>2. QED
      BY <1>8, <2>1, ShuffledNot
  <1>11. ASSUME NEW k \in Nat, k \in T
         PROVE  k + 1 \in T
    <2>1. SUFFICES ASSUME k + 1 <= r
                   PROVE  RangeExchanged(b, swapped[k + 1], D, i, j, k + 1)
                          /\ Shuffled(b, swapped[k + 1], D, S)
      OBVIOUS
    <2> DEFINE c == swapped[k]
               d == swapped[k + 1]
    <2>2. RangeExchanged(b, c, D, i, j, k) /\ Shuffled(b, c, D, S)
      BY <1>11, <2>1
    <2>3. k + 1 \in 1 .. r /\ i + (k + 1) - 1 = i + k /\ j + (k + 1) - 1 = j + k /\ (k + 1) - 1 = k
      BY <2>1
    <2>4. d = Swap(c, i + k, j + k) /\ i + k \in S /\ j + k \in S
      BY <1>1, <1>8, <2>3
    <2>5. Arr(c, D)
      BY <2>2 DEF RangeExchanged
    <2> HIDE DEF c, d
    <2>6. Exchanged(c, d, D, i + k, j + k) /\ Shuffled(c, d, D, S)
      BY <2>4, <2>5, SwapExact, SwapShuffles
    <2>7. Shuffled(b, d, D, S)
      BY <2>2, <2>6, ShuffledTwice
    <2>8. RangeExchanged(b, d, D, i, j, k + 1)
      <3>1. ASSUME NEW l \in 0 .. k
            PROVE  d[i + l] = b[j + l] /\ d[j + l] = b[i + l]
        <4>1. l \in 0 .. r - 1
          BY <2>1
        <4>2. i + l \in D /\ j + l \in D
          BY <4>1 DEF Within2
        <4>3. CASE l = k
          <5>1. c[i + k] = b[i + k] /\ c[j + k] = b[j + k]
            BY <2>1, <2>2, <4>2, <4>3 DEF RangeExchanged
          <5>2. QED
            BY <2>6, <4>3, <5>1 DEF Exchanged
        <4>4. CASE l # k
          <5>1. l \in 0 .. k - 1
            BY <4>4
          <5>2. i + l \notin {i + k, j + k} /\ j + l \notin {i + k, j + k}
            BY <2>1, <4>4
          <5>3. QED
            BY <2>2, <2>6, <4>2, <5>1, <5>2 DEF Exchanged, RangeExchanged
        <4>5. QED
          BY <4>3, <4>4
      <3>2. ASSUME NEW l \in D, l \notin i .. i + k, l \notin j .. j + k
            PROVE  d[l] = b[l]
        <4>1. l \notin {i + k, j + k} /\ l \notin i .. i + k - 1 /\ l \notin j .. j + k - 1
          BY <3>2
        <4>2. QED
          BY <2>2, <2>6, <4>1 DEF Exchanged, RangeExchanged
      <3>3. (k + 1) - 1 = k /\ i + (k + 1) - 1 = i + k /\ j + (k + 1) - 1 = j + k
        OBVIOUS
      <3>4. QED
        BY <2>6, <3>1, <3>2, <3>3 DEF Exchanged, RangeExchanged
    <2>9. QED
      BY <2>7, <2>8 DEF d
  <1>12. r \in T
    <2> HIDE DEF T
    <2>1. QED
      BY <1>10, <1>11, Induction
  <1>13. QED
    <2>1. r = 0 => swapped[r] = b
      BY <1>8
    <2>2. SwapRange(b, i, j, r) = swapped[r]
      BY <1>9, <2>1
    <2>3. QED
      BY <1>12, <2>2

LEMMA MedianIsOne ==
  ASSUME NEW b, NEW S, NEW i \in S, NEW j \in S, NEW k \in S
  PROVE  med3(b, i, j, k) \in S
  BY DEF med3

(* The pivot is in the part. *)
LEMMA PivotInside ==
  ASSUME NEW b, NEW a \in Nat, NEW n \in Nat \ {0}
  PROVE  PivotIndex(b, a, n) \in a .. a + n - 1
  <1> DEFINE mid == a + n \div 2
             end == a + n - 1
             d == n \div 8
             S == a .. a + n - 1
  <1>1. n \div 2 \in Nat /\ n \div 8 \in Nat
    OBVIOUS
  <1>2. a \in S /\ mid \in S /\ end \in S
    BY <1>1
  <1>3. a + d \in S /\ a + 2 * d \in S /\ mid - d \in S /\ mid + d \in S /\ end - 2 * d \in S /\ end - d \in S
    BY <1>1
  <1>4. PivotIndex(b, a, n) =
          CASE n > Long -> med3(b, med3(b, a, a + d, a + 2 * d), med3(b, mid - d, mid, mid + d),
                                   med3(b, end - 2 * d, end - d, end))
            [] n > Short /\ n <= Long -> med3(b, a, mid, end)
            [] OTHER -> mid
    BY Zenon DEF PivotIndex
  <1> HIDE DEF mid, end, d, S
  <1>5. med3(b, a, a + d, a + 2 * d) \in S /\ med3(b, mid - d, mid, mid + d) \in S
        /\ med3(b, end - 2 * d, end - d, end) \in S
    BY <1>2, <1>3, MedianIsOne, Zenon
  <1>6. /\ med3(b, med3(b, a, a + d, a + 2 * d), med3(b, mid - d, mid, mid + d),
                 med3(b, end - 2 * d, end - d, end)) \in S
        /\ med3(b, a, mid, end) \in S
    BY <1>2, <1>5, MedianIsOne, Zenon
  <1>7. PivotIndex(b, a, n) \in S
    BY <1>2, <1>4, <1>6, LengthsAssumption
  <1>8. QED
    BY <1>7 DEF S

(***************************************************************************)
(* The parts that are to be sorted.                                        *)
(***************************************************************************)

PartType == [a : Nat, n : Nat \ {0}]

Span(p) == p.a .. p.a + p.n - 1

\* They are apart from each other.
Parts(parts, D) ==
  /\ parts \in Seq(PartType)
  /\ \A k \in 1 .. Len(parts) : Span(parts[k]) \subseteq D
  /\ \A k, l \in 1 .. Len(parts) : k # l => Span(parts[k]) \cap Span(parts[l]) = {}

Together(parts, i, j) == \E k \in 1 .. Len(parts) : i \in Span(parts[k]) /\ j \in Span(parts[k])

(* Two elements are in order already, unless both are in S, or in a part.  *)
Settled(b, D, parts, S) ==
  \A i, j \in D : i < j => b[i] <= b[j] \/ (i \in S /\ j \in S) \/ Together(parts, i, j)

Front(parts) == SubSeq(parts, 1, Len(parts) - 1)
Last(parts) == parts[Len(parts)]

LEMMA FrontExact ==
  ASSUME NEW parts, NEW D, Parts(parts, D), parts # <<>>
  PROVE  /\ Len(parts) \in Nat \ {0} /\ Len(Front(parts)) = Len(parts) - 1
         /\ \A k \in 1 .. Len(parts) - 1 : Front(parts)[k] = parts[k]
         /\ Last(parts) \in PartType
         /\ Front(parts) \in Seq(PartType)
  <1>1. parts \in Seq(PartType)
    BY DEF Parts
  <1>2. Len(parts) \in Nat \ {0} /\ parts[Len(parts)] \in PartType
    BY <1>1
  <1> DEFINE n == Len(parts) - 1
  <1>3. n \in Nat /\ \A k \in 1 .. n : parts[k] \in PartType
    BY <1>1, <1>2
  <1> HIDE DEF n
  <1>4. /\ SubSeq(parts, 1, n) \in Seq(PartType)
        /\ Len(SubSeq(parts, 1, n)) = IF 1 <= n THEN n - 1 + 1 ELSE 0
        /\ \A k \in 1 .. n - 1 + 1 : SubSeq(parts, 1, n)[k] = parts[1 + k - 1]
    BY <1>3, SubSeqProperties
  <1>5. n - 1 + 1 = n /\ (IF 1 <= n THEN n - 1 + 1 ELSE 0) = n /\ \A k \in 1 .. n : 1 + k - 1 = k
    BY <1>3
  <1>6. Len(SubSeq(parts, 1, n)) = n /\ \A k \in 1 .. n : SubSeq(parts, 1, n)[k] = parts[k]
    BY <1>4, <1>5
  <1>7. QED
    BY <1>2, <1>4, <1>6 DEF Front, Last, n

(* The last part is apart from the others. *)
LEMMA FrontParts ==
  ASSUME NEW parts, NEW D, Parts(parts, D), parts # <<>>
  PROVE  /\ Parts(Front(parts), D)
         /\ Span(Last(parts)) \subseteq D
         /\ \A k \in 1 .. Len(Front(parts)) : Span(Front(parts)[k]) \cap Span(Last(parts)) = {}
  <1> DEFINE n == Len(parts)
  <1>1. /\ n \in Nat \ {0} /\ Len(Front(parts)) = n - 1
        /\ \A k \in 1 .. n - 1 : Front(parts)[k] = parts[k]
        /\ Front(parts) \in Seq(PartType)
    BY FrontExact
  <1>2. n \in 1 .. n /\ \A k \in 1 .. n - 1 : k \in 1 .. n /\ k # n
    BY <1>1
  <1> HIDE DEF n
  <1>3. /\ \A k \in 1 .. n : Span(parts[k]) \subseteq D
        /\ \A k, l \in 1 .. n : k # l => Span(parts[k]) \cap Span(parts[l]) = {}
    BY DEF Parts, n
  <1>4. Span(Last(parts)) \subseteq D
    BY <1>2, <1>3 DEF Last, n
  <1>5. ASSUME NEW k \in 1 .. n - 1
        PROVE  /\ Span(Front(parts)[k]) \subseteq D
               /\ Span(Front(parts)[k]) \cap Span(Last(parts)) = {}
    BY <1>1, <1>2, <1>3, <1>5, Zenon DEF Last, n
  <1>6. ASSUME NEW k \in 1 .. n - 1, NEW l \in 1 .. n - 1, k # l
        PROVE  Span(Front(parts)[k]) \cap Span(Front(parts)[l]) = {}
    BY <1>1, <1>2, <1>3, <1>6, Zenon
  <1>7. QED
    BY <1>1, <1>4, <1>5, <1>6 DEF Parts

LEMMA AppendParts ==
  ASSUME NEW parts, NEW D, NEW p \in PartType, Parts(parts, D), Span(p) \subseteq D,
         \A k \in 1 .. Len(parts) : Span(parts[k]) \cap Span(p) = {}
  PROVE  Parts(Append(parts, p), D)
  <1> DEFINE n == Len(parts)
             q == Append(parts, p)
  <1>1. /\ n \in Nat /\ Len(q) = n + 1 /\ q[n + 1] = p /\ q \in Seq(PartType)
        /\ \A k \in 1 .. n : q[k] = parts[k]
    BY DEF Parts
  <1>2. \A k \in 1 .. n + 1 : k = n + 1 \/ k \in 1 .. n
    BY <1>1
  <1> HIDE DEF q
  <1>3. /\ \A k \in 1 .. n : Span(parts[k]) \subseteq D
        /\ \A k, l \in 1 .. n : k # l => Span(parts[k]) \cap Span(parts[l]) = {}
    BY DEF Parts
  <1> HIDE DEF n
  <1>4. \A k \in 1 .. n : Span(parts[k]) \cap Span(p) = {}
    BY DEF n
  <1>5. ASSUME NEW k \in 1 .. n + 1
        PROVE  Span(q[k]) \subseteq D
    BY <1>1, <1>2, <1>3
  <1>6. ASSUME NEW k \in 1 .. n + 1, NEW l \in 1 .. n + 1, k # l
        PROVE  Span(q[k]) \cap Span(q[l]) = {}
    <2>1. CASE k \in 1 .. n /\ l \in 1 .. n
      BY <1>1, <1>3, <1>6, <2>1
    <2>2. CASE k = n + 1 /\ l \in 1 .. n
      BY <1>1, <1>4, <2>2
    <2>3. CASE k \in 1 .. n /\ l = n + 1
      BY <1>1, <1>4, <2>3
    <2>4. QED
      BY <1>2, <1>6, <2>1, <2>2, <2>3
  <1>7. QED
    BY <1>1, <1>5, <1>6 DEF Parts, q

LEMMA AppendTogether ==
  ASSUME NEW parts \in Seq(PartType), NEW p \in PartType, NEW i, NEW j
  PROVE  Together(Append(parts, p), i, j) <=> Together(parts, i, j) \/ (i \in Span(p) /\ j \in Span(p))
  <1> DEFINE n == Len(parts)
             q == Append(parts, p)
  <1>1. /\ n \in Nat /\ Len(q) = n + 1 /\ q[n + 1] = p
        /\ \A k \in 1 .. n : q[k] = parts[k]
    OBVIOUS
  <1>2. n + 1 \in 1 .. n + 1 /\ \A k \in 1 .. n + 1 : k = n + 1 \/ k \in 1 .. n
    BY <1>1
  <1>3. \A k \in 1 .. n : k \in 1 .. n + 1
    BY <1>1
  <1> HIDE DEF q, n
  <1>4. QED
    BY <1>1, <1>2, <1>3, Zenon DEF Together, q, n

LEMMA FrontTogether ==
  ASSUME NEW parts, NEW D, Parts(parts, D), parts # <<>>, NEW i, NEW j
  PROVE  Together(parts, i, j) <=>
           Together(Front(parts), i, j) \/ (i \in Span(Last(parts)) /\ j \in Span(Last(parts)))
  <1> DEFINE n == Len(parts)
  <1>1. /\ n \in Nat \ {0} /\ Len(Front(parts)) = n - 1
        /\ \A k \in 1 .. n - 1 : Front(parts)[k] = parts[k]
    BY FrontExact
  <1>2. n \in 1 .. n /\ \A k \in 1 .. n : k = n \/ k \in 1 .. n - 1
    BY <1>1
  <1>3. \A k \in 1 .. n - 1 : k \in 1 .. n
    BY <1>1
  <1> HIDE DEF n
  <1>4. QED
    BY <1>1, <1>2, <1>3, Zenon DEF Together, Last, n

(* Elements outside S stay, and those in it stay in it. *)
LEMMA SettledShuffled ==
  ASSUME NEW b, NEW c, NEW D \in SUBSET Int, NEW parts, NEW x \in Int, NEW y \in Int, x .. y \subseteq D,
         Arr(b, D), Shuffled(b, c, D, x .. y), Settled(b, D, parts, x .. y),
         \A k \in 1 .. Len(parts) : Span(parts[k]) \cap (x .. y) = {}
  PROVE  Settled(c, D, parts, x .. y)
  <1> DEFINE S == x .. y
  <1>1. PICK f : Moves(f, D, S) /\ \A i \in D : c[i] = b[f[i]]
    BY DEF Shuffled
  <1>2. \A i \in S : f[i] \in S
    BY <1>1, MovesInside
  <1>3. \A i \in D \ S : f[i] = i
    BY <1>1 DEF Moves
  <1>4. ASSUME NEW i \in Int, NEW j \in S, NEW k \in S, i \notin S
        PROVE  (i < j <=> i < k) /\ (j < i <=> k < i)
    <2>1. i < x \/ i > y
      BY <1>4
    <2>2. j \in Int /\ k \in Int /\ x <= j /\ j <= y /\ x <= k /\ k <= y
      OBVIOUS
    <2>3. QED
      BY <2>1, <2>2
  <1>5. ASSUME NEW i \in D, NEW j \in D, i < j
        PROVE  c[i] <= c[j] \/ (i \in S /\ j \in S) \/ Together(parts, i, j)
    <2>1. CASE i \notin S /\ j \notin S
      <3>1. c[i] = b[i] /\ c[j] = b[j]
        BY <1>1, <1>3, <2>1
      <3>2. QED
        BY <1>5, <2>1, <3>1 DEF Settled
    <2>2. CASE i \in S /\ j \notin S
      <3>1. c[i] = b[f[i]] /\ c[j] = b[j] /\ f[i] \in S /\ f[i] \in D
        BY <1>1, <1>2, <1>3, <2>2
      <3>2. f[i] < j
        BY <1>4, <1>5, <2>2, <3>1
      <3>3. ~Together(parts, f[i], j)
        BY <3>1 DEF Together
      <3>4. QED
        BY <2>2, <3>1, <3>2, <3>3 DEF Settled
    <2>3. CASE i \notin S /\ j \in S
      <3>1. c[i] = b[i] /\ c[j] = b[f[j]] /\ f[j] \in S /\ f[j] \in D
        BY <1>1, <1>2, <1>3, <2>3
      <3>2. i < f[j]
        BY <1>4, <1>5, <2>3, <3>1
      <3>3. ~Together(parts, i, f[j])
        BY <3>1 DEF Together
      <3>4. QED
        BY <2>3, <3>1, <3>2, <3>3 DEF Settled
    <2>4. QED
      BY <2>1, <2>2, <2>3
  <1>6. QED
    BY <1>5 DEF Settled

(* The last part becomes the current one. *)
LEMMA SettledFront ==
  ASSUME NEW b, NEW D, NEW parts, Parts(parts, D), parts # <<>>, Settled(b, D, parts, {})
  PROVE  Settled(b, D, Front(parts), Span(Last(parts)))
  BY FrontTogether DEF Settled

(***************************************************************************)
(* The partition of a part, with the pivot at l.                           *)
(***************************************************************************)

Bounds(D, l, h, qa, qb, qc, qd) ==
  /\ l \in Nat /\ h \in Nat /\ l .. h \subseteq D /\ D \subseteq Int
  /\ qa \in Int /\ qb \in Int /\ qc \in Int /\ qd \in Int
  /\ l + 1 <= qa /\ qa <= qb /\ qb <= qc + 1 /\ qc <= qd /\ qd <= h

Partitioned(b, D, l, h, qa, qb, qc, qd) ==
  /\ Arr(b, D) /\ Bounds(D, l, h, qa, qb, qc, qd)
  /\ \A i \in l .. qa - 1 : b[i] = b[l]
  /\ \A i \in qa .. qb - 1 : b[i] < b[l]
  /\ \A i \in qc + 1 .. qd : b[i] > b[l]
  /\ \A i \in qd + 1 .. h : b[i] = b[l]

LEMMA PassUpEqual ==
  ASSUME NEW b, NEW D, NEW l, NEW h, NEW qa, NEW qb, NEW qc, NEW qd,
         Partitioned(b, D, l, h, qa, qb, qc, qd), qb <= qc, b[qb] = b[l]
  PROVE  Partitioned(Swap(b, qa, qb), D, l, h, qa + 1, qb + 1, qc, qd)
  <1> DEFINE c == Swap(b, qa, qb)
  <1>1. Bounds(D, l, h, qa, qb, qc, qd) /\ Bounds(D, l, h, qa + 1, qb + 1, qc, qd) /\ Arr(b, D)
    BY DEF Partitioned, Bounds
  <1>2. \A i \in l .. h : i \in D
    BY <1>1 DEF Bounds
  <1>3. qa \in l .. h /\ qb \in l .. h /\ l \in l .. h /\ l # qa /\ l # qb
    BY <1>1 DEF Bounds
  <1>4. Exchanged(b, c, D, qa, qb)
    BY <1>1, <1>2, <1>3, SwapExact
  <1> HIDE DEF c
  <1>5. c[l] = b[l]
    BY <1>2, <1>3, <1>4 DEF Exchanged
  <1>6. \A i \in l .. (qa + 1) - 1 : c[i] = c[l]
    <2>1. c[qa] = c[l]
      BY <1>4, <1>5 DEF Exchanged
    <2>2. ASSUME NEW i \in l .. qa - 1
          PROVE  c[i] = c[l]
      <3>1. i \in D \ {qa, qb} /\ b[i] = b[l]
        BY <1>1, <1>2 DEF Bounds, Partitioned
      <3>2. QED
        BY <1>4, <1>5, <3>1 DEF Exchanged
    <2>3. \A i \in l .. (qa + 1) - 1 : i = qa \/ i \in l .. qa - 1
      BY <1>1 DEF Bounds
    <2>4. QED
      BY <2>1, <2>2, <2>3
  <1>7. \A i \in qa + 1 .. (qb + 1) - 1 : c[i] < c[l]
    <2>1. ASSUME NEW i \in qa + 1 .. qb
          PROVE  c[i] < c[l]
      <3>1. CASE i = qb
        <4>1. qa \in qa .. qb - 1 /\ c[i] = b[qa]
          BY <1>1, <1>4, <3>1 DEF Bounds, Exchanged
        <4>2. QED
          BY <1>5, <4>1 DEF Partitioned
      <3>2. CASE i # qb
        <4>1. i \in qa .. qb - 1 /\ i \in D \ {qa, qb}
          BY <1>1, <1>2, <3>2 DEF Bounds
        <4>2. QED
          BY <1>4, <1>5, <4>1 DEF Partitioned, Exchanged
      <3>3. QED
        BY <3>1, <3>2
    <2>2. (qb + 1) - 1 = qb
      BY <1>1 DEF Bounds
    <2>3. QED
      BY <2>1, <2>2
  <1>8. \A i \in qc + 1 .. h : i \in D \ {qa, qb}
    BY <1>1, <1>2 DEF Bounds
  <1>9. \A i \in qc + 1 .. h : c[i] = b[i]
    BY <1>4, <1>8 DEF Exchanged
  <1>10. (\A i \in qc + 1 .. qd : i \in qc + 1 .. h) /\ (\A i \in qd + 1 .. h : i \in qc + 1 .. h)
    BY <1>1 DEF Bounds
  <1>11. (\A i \in qc + 1 .. qd : c[i] > c[l]) /\ (\A i \in qd + 1 .. h : c[i] = c[l])
    BY <1>5, <1>9, <1>10 DEF Partitioned
  <1>12. QED
    BY <1>1, <1>4, <1>6, <1>7, <1>11 DEF Partitioned, Exchanged, c

LEMMA PassUpLess ==
  ASSUME NEW b, NEW D, NEW l, NEW h, NEW qa, NEW qb, NEW qc, NEW qd,
         Partitioned(b, D, l, h, qa, qb, qc, qd), qb <= qc, b[qb] < b[l]
  PROVE  Partitioned(b, D, l, h, qa, qb + 1, qc, qd)
  <1>1. Bounds(D, l, h, qa, qb, qc, qd) /\ Bounds(D, l, h, qa, qb + 1, qc, qd)
    BY DEF Partitioned, Bounds
  <1>2. \A i \in qa .. (qb + 1) - 1 : i = qb \/ i \in qa .. qb - 1
    BY <1>1 DEF Bounds
  <1>3. QED
    BY <1>1, <1>2 DEF Partitioned

LEMMA PassDownEqual ==
  ASSUME NEW b, NEW D, NEW l, NEW h, NEW qa, NEW qb, NEW qc, NEW qd,
         Partitioned(b, D, l, h, qa, qb, qc, qd), qb <= qc, b[qc] = b[l]
  PROVE  Partitioned(Swap(b, qc, qd), D, l, h, qa, qb, qc - 1, qd - 1)
  <1> DEFINE c == Swap(b, qc, qd)
  <1>1. Bounds(D, l, h, qa, qb, qc, qd) /\ Bounds(D, l, h, qa, qb, qc - 1, qd - 1) /\ Arr(b, D)
    BY DEF Partitioned, Bounds
  <1>2. \A i \in l .. h : i \in D
    BY <1>1 DEF Bounds
  <1>3. qc \in l .. h /\ qd \in l .. h /\ l \in l .. h /\ l # qc /\ l # qd
    BY <1>1 DEF Bounds
  <1>4. Exchanged(b, c, D, qc, qd)
    BY <1>1, <1>2, <1>3, SwapExact
  <1> HIDE DEF c
  <1>5. c[l] = b[l]
    BY <1>2, <1>3, <1>4 DEF Exchanged
  <1>6. \A i \in (qd - 1) + 1 .. h : c[i] = c[l]
    <2>1. c[qd] = c[l]
      BY <1>4, <1>5 DEF Exchanged
    <2>2. ASSUME NEW i \in qd + 1 .. h
          PROVE  c[i] = c[l]
      <3>1. i \in D \ {qc, qd} /\ b[i] = b[l]
        BY <1>1, <1>2 DEF Bounds, Partitioned
      <3>2. QED
        BY <1>4, <1>5, <3>1 DEF Exchanged
    <2>3. \A i \in (qd - 1) + 1 .. h : i = qd \/ i \in qd + 1 .. h
      BY <1>1 DEF Bounds
    <2>4. QED
      BY <2>1, <2>2, <2>3
  <1>7. \A i \in (qc - 1) + 1 .. qd - 1 : c[i] > c[l]
    <2>1. ASSUME NEW i \in qc .. qd - 1
          PROVE  c[i] > c[l]
      <3>1. CASE i = qc
        <4>1. qd \in qc + 1 .. qd /\ c[i] = b[qd]
          BY <1>1, <1>4, <3>1 DEF Bounds, Exchanged
        <4>2. QED
          BY <1>5, <4>1 DEF Partitioned
      <3>2. CASE i # qc
        <4>1. i \in qc + 1 .. qd /\ i \in D \ {qc, qd}
          BY <1>1, <1>2, <3>2 DEF Bounds
        <4>2. QED
          BY <1>4, <1>5, <4>1 DEF Partitioned, Exchanged
      <3>3. QED
        BY <3>1, <3>2
    <2>2. (qc - 1) + 1 = qc
      BY <1>1 DEF Bounds
    <2>3. QED
      BY <2>1, <2>2
  <1>8. \A i \in l .. qb - 1 : i \in D \ {qc, qd}
    BY <1>1, <1>2 DEF Bounds
  <1>9. \A i \in l .. qb - 1 : c[i] = b[i]
    BY <1>4, <1>8 DEF Exchanged
  <1>10. (\A i \in l .. qa - 1 : i \in l .. qb - 1) /\ (\A i \in qa .. qb - 1 : i \in l .. qb - 1)
    BY <1>1 DEF Bounds
  <1>11. (\A i \in l .. qa - 1 : c[i] = c[l]) /\ (\A i \in qa .. qb - 1 : c[i] < c[l])
    BY <1>5, <1>9, <1>10 DEF Partitioned
  <1>12. QED
    BY <1>1, <1>4, <1>6, <1>7, <1>11 DEF Partitioned, Exchanged, c

LEMMA PassDownGreater ==
  ASSUME NEW b, NEW D, NEW l, NEW h, NEW qa, NEW qb, NEW qc, NEW qd,
         Partitioned(b, D, l, h, qa, qb, qc, qd), qb <= qc, b[qc] > b[l]
  PROVE  Partitioned(b, D, l, h, qa, qb, qc - 1, qd)
  <1>1. Bounds(D, l, h, qa, qb, qc, qd) /\ Bounds(D, l, h, qa, qb, qc - 1, qd)
    BY DEF Partitioned, Bounds
  <1>2. \A i \in (qc - 1) + 1 .. qd : i = qc \/ i \in qc + 1 .. qd
    BY <1>1 DEF Bounds
  <1>3. QED
    BY <1>1, <1>2 DEF Partitioned

LEMMA ExchangeParts ==
  ASSUME NEW b, NEW D, NEW l, NEW h, NEW qa, NEW qb, NEW qc, NEW qd,
         Partitioned(b, D, l, h, qa, qb, qc, qd), qb <= qc, b[qb] > b[l], b[qc] < b[l]
  PROVE  Partitioned(Swap(b, qb, qc), D, l, h, qa, qb + 1, qc - 1, qd) /\ qb < qc
  <1> DEFINE c == Swap(b, qb, qc)
  <1>1. Bounds(D, l, h, qa, qb, qc, qd) /\ Arr(b, D)
    BY DEF Partitioned
  <1>2. \A i \in l .. h : i \in D
    BY <1>1 DEF Bounds
  <1>3. qb \in l .. h /\ qc \in l .. h /\ l \in l .. h /\ l # qb /\ l # qc
    BY <1>1 DEF Bounds
  <1>4. b[l] \in Int /\ b[qb] \in Int
    BY <1>1, <1>2, <1>3 DEF Arr
  <1>5. qb < qc
    BY <1>1, <1>4 DEF Bounds
  <1>6. Bounds(D, l, h, qa, qb + 1, qc - 1, qd)
    BY <1>1, <1>5 DEF Bounds
  <1>7. Exchanged(b, c, D, qb, qc)
    BY <1>1, <1>2, <1>3, SwapExact
  <1> HIDE DEF c
  <1>8. c[l] = b[l]
    BY <1>2, <1>3, <1>7 DEF Exchanged
  <1>9. /\ \A i \in l .. qb - 1 : i \in D \ {qb, qc}
        /\ \A i \in qc + 1 .. h : i \in D \ {qb, qc}
    BY <1>1, <1>2 DEF Bounds
  <1>10. (\A i \in l .. qb - 1 : c[i] = b[i]) /\ (\A i \in qc + 1 .. h : c[i] = b[i])
    BY <1>7, <1>9 DEF Exchanged
  <1>11. /\ \A i \in l .. qa - 1 : i \in l .. qb - 1
         /\ \A i \in qa .. (qb + 1) - 1 : i = qb \/ (i \in l .. qb - 1 /\ i \in qa .. qb - 1)
         /\ \A i \in (qc - 1) + 1 .. qd : i = qc \/ (i \in qc + 1 .. h /\ i \in qc + 1 .. qd)
         /\ \A i \in qd + 1 .. h : i \in qc + 1 .. h
    BY <1>1 DEF Bounds
  <1>12. c[qb] < c[l] /\ c[qc] > c[l]
    BY <1>7, <1>8 DEF Exchanged
  <1>13. \A i \in l .. qa - 1 : c[i] = c[l]
    BY <1>8, <1>10, <1>11 DEF Partitioned
  <1>14. \A i \in qa .. (qb + 1) - 1 : c[i] < c[l]
    BY <1>8, <1>10, <1>11, <1>12 DEF Partitioned
  <1>15. \A i \in (qc - 1) + 1 .. qd : c[i] > c[l]
    BY <1>8, <1>10, <1>11, <1>12 DEF Partitioned
  <1>16. \A i \in qd + 1 .. h : c[i] = c[l]
    BY <1>8, <1>10, <1>11 DEF Partitioned
  <1>17. Partitioned(c, D, l, h, qa, qb + 1, qc - 1, qd)
    BY <1>6, <1>7, <1>13, <1>14, <1>15, <1>16 DEF Partitioned, Exchanged
  <1>18. QED
    BY <1>5, <1>17 DEF c

(* The elements from x on up to m, and those from there up to y, change    *)
(* places when as many as there are of fewer are exchanged at both ends.   *)
Gather2(b, x, m, y) == SwapRange(b, x, y + 1 - Min2(m - x, y + 1 - m), Min2(m - x, y + 1 - m))

Ends(b, D, x, m, y, P, Q) ==
  /\ Arr(b, D) /\ D \in SUBSET Int /\ x .. y \subseteq D
  /\ x \in Int /\ m \in Int /\ y \in Int /\ x <= m /\ m <= y + 1
  /\ \A i \in x .. m - 1 : b[i] \in P
  /\ \A i \in m .. y : b[i] \in Q

EndsChanged(b, c, D, x, m, y, P, Q) ==
  /\ Shuffled(b, c, D, x .. y)
  /\ \A i \in D \ (x .. y) : c[i] = b[i]
  /\ \A i \in x .. x + y - m : c[i] \in Q
  /\ \A i \in x + y + 1 - m .. y : c[i] \in P

LEMMA EndsChange ==
  ASSUME NEW b, NEW D, NEW x, NEW m, NEW y, NEW P, NEW Q, Ends(b, D, x, m, y, P, Q)
  PROVE  EndsChanged(b, Gather2(b, x, m, y), D, x, m, y, P, Q)
  <1> DEFINE n == Min2(m - x, y + 1 - m)
             j == y + 1 - n
             c == SwapRange(b, x, j, n)
  <1>1. /\ Arr(b, D) /\ D \in SUBSET Int /\ x .. y \subseteq D
        /\ x \in Int /\ m \in Int /\ y \in Int /\ x <= m /\ m <= y + 1
        /\ \A i \in x .. m - 1 : b[i] \in P
        /\ \A i \in m .. y : b[i] \in Q
    BY DEF Ends
  <1> USE <1>1
  <1>2. n \in Nat /\ n <= m - x /\ n <= y + 1 - m /\ (n = m - x \/ n = y + 1 - m)
    BY DEF Min2
  <1>3. j \in Int /\ x + n <= j /\ j + n = y + 1
    BY <1>2
  <1>4. Gather2(b, x, m, y) = c
    BY Zenon DEF Gather2
  <1> HIDE DEF n
  <1>5. \A k \in 0 .. n - 1 : x + k \in x .. y /\ j + k \in x .. y
    BY <1>2
  <1> HIDE DEF j
  <1>6. RangeExchanged(b, c, D, x, j, n) /\ Shuffled(b, c, D, x .. y)
    BY <1>2, <1>3, <1>5, SwapRangeExact DEF Within2
  <1> HIDE DEF c
  <1>7. /\ \A k \in 0 .. n - 1 : c[x + k] = b[j + k] /\ c[j + k] = b[x + k]
        /\ \A k \in D : k \notin x .. x + n - 1 /\ k \notin j .. j + n - 1 => c[k] = b[k]
    BY <1>6 DEF RangeExchanged
  <1>8. ASSUME NEW i \in D \ (x .. y)
        PROVE  c[i] = b[i]
    <2>1. i \notin x .. x + n - 1 /\ i \notin j .. j + n - 1
      BY <1>2, <1>3
    <2>2. QED
      BY <1>7, <2>1
  <1>9. ASSUME NEW i \in x .. x + y - m
        PROVE  c[i] \in Q
    <2>1. CASE i \in x .. x + n - 1
      <3> DEFINE k == i - x
      <3>1. k \in 0 .. n - 1 /\ x + k = i /\ j + k \in m .. y
        BY <1>2, <1>3, <2>1
      <3> HIDE DEF k
      <3>2. c[i] = b[j + k]
        BY <1>7, <3>1
      <3>3. QED
        BY <3>1, <3>2
    <2>2. CASE i \notin x .. x + n - 1
      <3>1. n = m - x /\ i \in m .. y /\ i \notin j .. j + n - 1
        BY <1>2, <1>3, <2>2
      <3>2. i \in D
        BY <3>1
      <3>3. c[i] = b[i]
        BY <1>7, <2>2, <3>1, <3>2
      <3>4. QED
        BY <3>1, <3>3
    <2>3. QED
      BY <2>1, <2>2
  <1>10. ASSUME NEW i \in x + y + 1 - m .. y
         PROVE  c[i] \in P
    <2>1. CASE i \in j .. j + n - 1
      <3> DEFINE k == i - j
      <3>1. k \in 0 .. n - 1 /\ j + k = i /\ x + k \in x .. m - 1
        BY <1>2, <1>3, <2>1
      <3> HIDE DEF k
      <3>2. c[i] = b[x + k]
        BY <1>7, <3>1
      <3>3. QED
        BY <3>1, <3>2
    <2>2. CASE i \notin j .. j + n - 1
      <3>1. n = y + 1 - m /\ i \in x .. m - 1 /\ i \notin x .. x + n - 1
        BY <1>2, <1>3, <2>2
      <3>2. i \in D
        BY <3>1
      <3>3. c[i] = b[i]
        BY <1>7, <2>2, <3>1, <3>2
      <3>4. QED
        BY <3>1, <3>3
    <2>3. QED
      BY <2>1, <2>2
  <1>11. QED
    BY <1>4, <1>6, <1>8, <1>9, <1>10 DEF EndsChanged

(* What less, equal and greater elements become of the partition.          *)
Ordered3(b, c, l, h, less, greater) ==
  /\ \A i \in l .. l + less - 1 : c[i] < b[l]
  /\ \A i \in l + less .. h - greater : c[i] = b[l]
  /\ \A i \in h + 1 - greater .. h : c[i] > b[l]

LEMMA GatherExact ==
  ASSUME NEW b, NEW D, NEW l, NEW h, NEW qa, NEW qb, NEW qc, NEW qd,
         Partitioned(b, D, l, h, qa, qb, qc, qd), qb = qc + 1
  PROVE  /\ Shuffled(b, Gather2(Gather2(b, l, qa, qb - 1), qb, qd + 1, h), D, l .. h)
         /\ Ordered3(b, Gather2(Gather2(b, l, qa, qb - 1), qb, qd + 1, h), l, h, qb - qa, qd - qc)
  <1> DEFINE c == Gather2(b, l, qa, qb - 1)
             d == Gather2(c, qb, qd + 1, h)
             v == b[l]
             Less == {w \in Int : w < v}
             Greater == {w \in Int : w > v}
  <1>1. Bounds(D, l, h, qa, qb, qc, qd) /\ Arr(b, D)
    BY DEF Partitioned
  <1>2. \A i \in l .. h : b[i] \in Int
    BY <1>1 DEF Bounds, Arr
  <1>3. /\ l .. qb - 1 \subseteq l .. h /\ qb .. h \subseteq l .. h /\ l .. h \subseteq D /\ D \in SUBSET Int
        /\ l \in Int /\ qa \in Int /\ qb - 1 \in Int /\ l <= qa /\ qa <= (qb - 1) + 1
        /\ qb \in Int /\ qd + 1 \in Int /\ h \in Int /\ qb <= qd + 1 /\ qd + 1 <= h + 1
        /\ (qd + 1) - 1 = qd
    BY <1>1 DEF Bounds
  <1>4. (\A i \in l .. qa - 1 : b[i] \in {v}) /\ (\A i \in qa .. qb - 1 : b[i] \in Less)
    <2>1. \A i \in qa .. qb - 1 : i \in l .. h
      BY <1>1 DEF Bounds
    <2>2. QED
      BY <1>2, <2>1 DEF Partitioned
  <1>5. /\ Shuffled(b, c, D, l .. qb - 1)
        /\ \A i \in D \ (l .. qb - 1) : c[i] = b[i]
        /\ \A i \in l .. l + (qb - 1) - qa : c[i] \in Less
        /\ \A i \in l + (qb - 1) + 1 - qa .. qb - 1 : c[i] \in {v}
    <2>1. Ends(b, D, l, qa, qb - 1, {v}, Less)
      BY <1>1, <1>3, <1>4 DEF Ends
    <2> HIDE DEF Less, v
    <2>2. EndsChanged(b, c, D, l, qa, qb - 1, {v}, Less)
      BY <2>1, EndsChange
    <2>3. QED
      BY <2>2 DEF EndsChanged
  <1> HIDE DEF c
  <1>6. \A i \in qb .. h : c[i] = b[i] /\ i \in l .. h
    <2>1. \A i \in qb .. h : i \in D \ (l .. qb - 1) /\ i \in l .. h
      BY <1>3
    <2>2. QED
      BY <1>5, <2>1
  <1>7. (\A i \in qb .. (qd + 1) - 1 : c[i] \in Greater) /\ (\A i \in qd + 1 .. h : c[i] \in {v})
    <2>1. /\ \A i \in qb .. (qd + 1) - 1 : i \in qc + 1 .. qd /\ i \in qb .. h
          /\ \A i \in qd + 1 .. h : i \in qb .. h
      BY <1>1 DEF Bounds
    <2>2. QED
      BY <1>2, <1>6, <2>1 DEF Partitioned
  <1>8. Arr(c, D)
    BY <1>5 DEF Shuffled
  <1>9. /\ Shuffled(c, d, D, qb .. h)
        /\ \A i \in D \ (qb .. h) : d[i] = c[i]
        /\ \A i \in qb .. qb + h - (qd + 1) : d[i] \in {v}
        /\ \A i \in qb + h + 1 - (qd + 1) .. h : d[i] \in Greater
    <2> HIDE DEF Greater, v
    <2>1. Ends(c, D, qb, qd + 1, h, Greater, {v})
      BY <1>3, <1>7, <1>8 DEF Ends
    <2>2. EndsChanged(c, d, D, qb, qd + 1, h, Greater, {v})
      BY <2>1, EndsChange
    <2>3. QED
      BY <2>2 DEF EndsChanged
  <1> HIDE DEF d
  <1>10. Shuffled(b, d, D, l .. h)
    <2>1. Shuffled(b, c, D, l .. h)
      <3>1. Shuffled(b, b, D, l .. h)
        BY <1>1, ShuffledNot
      <3>2. PICK f : Moves(f, D, l .. qb - 1) /\ \A i \in D : c[i] = b[f[i]]
        BY <1>5 DEF Shuffled
      <3>3. Moves(f, D, l .. h)
        BY <1>3, <3>2 DEF Moves
      <3>4. QED
        BY <1>8, <3>2, <3>3 DEF Shuffled
    <2>2. PICK f : Moves(f, D, qb .. h) /\ \A i \in D : d[i] = c[f[i]]
      BY <1>9 DEF Shuffled
    <2>3. Moves(f, D, l .. h)
      BY <1>3, <2>2 DEF Moves
    <2>4. Shuffled(c, d, D, l .. h)
      BY <1>9, <2>2, <2>3 DEF Shuffled
    <2>5. l .. h \subseteq D
      BY <1>3
    <2>6. QED
      BY <2>1, <2>4, <2>5, ShuffledTwice
  <1>11. \A i \in l .. qb - 1 : i \in D \ (qb .. h)
    BY <1>3
  <1>12. \A i \in l .. qb - 1 : d[i] = c[i]
    BY <1>9, <1>11
  <1>13. ASSUME NEW i \in l .. l + (qb - qa) - 1
         PROVE  d[i] < v
    <2>1. i \in l .. qb - 1 /\ i \in l .. l + (qb - 1) - qa
      BY <1>1 DEF Bounds
    <2>2. QED
      BY <1>5, <1>12, <2>1
  <1>14. ASSUME NEW i \in l + (qb - qa) .. h - (qd - qc)
         PROVE  d[i] = v
    <2>1. \/ i \in l .. qb - 1 /\ i \in l + (qb - 1) + 1 - qa .. qb - 1
          \/ i \in qb .. qb + h - (qd + 1)
      BY <1>1 DEF Bounds
    <2>2. QED
      BY <1>5, <1>9, <1>12, <2>1
  <1>15. ASSUME NEW i \in h + 1 - (qd - qc) .. h
         PROVE  d[i] > v
    <2>1. i \in qb + h + 1 - (qd + 1) .. h
      BY <1>1 DEF Bounds
    <2>2. QED
      BY <1>9, <2>1
  <1>16. QED
    BY <1>10, <1>13, <1>14, <1>15 DEF Ordered3, d, c

(* The element at p sinks in an array that is in order but for it. *)
Sinking(b, l, p, m) == \A i, j \in l .. m : i < j /\ j # p => b[i] <= b[j]

InOrder(b, l, m) == \A i, j \in l .. m : i < j => b[i] <= b[j]

LEMMA SinkKeeps ==
  ASSUME NEW b, NEW D, NEW l \in Int, NEW p \in Int, NEW m \in Int, Arr(b, D), l .. m \subseteq D,
         l < p, p <= m, b[p - 1] > b[p], Sinking(b, l, p, m)
  PROVE  Sinking(Swap(b, p, p - 1), l, p - 1, m)
  <1> DEFINE c == Swap(b, p, p - 1)
  <1>1. p \in D /\ p - 1 \in D
    OBVIOUS
  <1>2. Exchanged(b, c, D, p, p - 1)
    BY <1>1, SwapExact
  <1> HIDE DEF c
  <1>3. \A i \in l .. m : i \notin {p, p - 1} => c[i] = b[i]
    BY <1>2 DEF Exchanged
  <1>4. c[p] = b[p - 1] /\ c[p - 1] = b[p]
    BY <1>2 DEF Exchanged
  <1>5. \A i \in l .. m : b[i] \in Int
    BY DEF Arr
  <1>6. ASSUME NEW i \in l .. m, NEW j \in l .. m, i < j, j # p - 1
        PROVE  c[i] <= c[j]
    <2>1. p \in l .. m /\ p - 1 \in l .. m
      OBVIOUS
    <2>2. CASE j = p
      <3>1. CASE i = p - 1
        BY <1>4, <1>5, <2>1, <2>2, <3>1
      <3>2. CASE i # p - 1
        <4>1. i < p - 1 /\ c[i] = b[i] /\ b[i] <= b[p - 1]
          BY <1>3, <1>6, <2>1, <2>2, <3>2 DEF Sinking
        <4>2. QED
          BY <1>4, <2>2, <4>1
      <3>3. QED
        BY <3>1, <3>2
    <2>3. CASE j # p
      <3>1. c[j] = b[j]
        BY <1>3, <1>6, <2>3
      <3>2. \A k \in l .. m : k < j => b[k] <= b[j]
        BY <2>3 DEF Sinking
      <3>3. CASE i = p
        <4>1. p - 1 < j /\ c[i] = b[p - 1]
          BY <1>4, <1>6, <3>3
        <4>2. QED
          BY <2>1, <3>1, <3>2, <4>1
      <3>4. CASE i = p - 1
        <4>1. p < j /\ c[i] = b[p]
          BY <1>4, <1>6, <2>3, <3>4
        <4>2. QED
          BY <2>1, <3>1, <3>2, <4>1
      <3>5. CASE i \notin {p, p - 1}
        BY <1>3, <1>6, <3>1, <3>2, <3>5
      <3>6. QED
        BY <3>3, <3>4, <3>5
    <2>4. QED
      BY <2>2, <2>3
  <1>7. QED
    BY <1>6 DEF Sinking, c

LEMMA SinkDone ==
  ASSUME NEW b, NEW D, NEW l \in Int, NEW p \in Int, NEW m \in Int, Arr(b, D), l .. m \subseteq D,
         l <= p, p <= m, p > l => b[p - 1] <= b[p], Sinking(b, l, p, m)
  PROVE  InOrder(b, l, m)
  <1>1. \A i \in l .. m : b[i] \in Int
    BY DEF Arr
  <1>2. ASSUME NEW i \in l .. m, i < p
        PROVE  b[i] <= b[p]
    <2>1. p - 1 \in l .. m /\ p \in l .. m /\ b[p - 1] <= b[p]
      BY <1>2
    <2>2. b[i] <= b[p - 1]
      <3>1. CASE i = p - 1
        BY <1>1, <3>1
      <3>2. CASE i # p - 1
        <4>1. i < p - 1 /\ p - 1 # p
          BY <1>2, <3>2
        <4>2. QED
          BY <2>1, <4>1 DEF Sinking
      <3>3. QED
        BY <3>1, <3>2
    <2>3. QED
      BY <1>1, <2>1, <2>2
  <1>3. QED
    BY <1>2 DEF InOrder, Sinking

(***************************************************************************)
(* The invariant.                                                          *)
(***************************************************************************)

Dom == DOMAIN given

IsArray == \E n \in Nat : Dom = 0 .. n - 1 /\ Arr(given, Dom)

(* b has the elements of the given array, and is in order but for parts,   *)
(* of which the last is the current one; or the array is empty.            *)
Sorts(b, parts) ==
  /\ Shuffled(given, b, Dom, Dom)
  /\ parts # <<>>
  /\ \/ Parts(parts, Dom) /\ Settled(b, Dom, Front(parts), Span(Last(parts)))
     \/ parts = <<Part(0, 0)>> /\ Dom = {}

Inserts(b, l, h, m) == m \in Int /\ l + 1 <= m /\ (m <= h + 1 \/ (m = l + 1 /\ h = l - 1))

PartitionInv ==
  /\ Partitioned(array, Dom, lo, hi, pa, pb, pc, pd)
  /\ swap_cnt \in {0, 1}
  /\ at = "down" /\ pb <= pc => array[pb] > array[lo]

InsertInv == Inserts(array, lo, hi, pm) /\ InOrder(array, lo, pm - 1)

SinkInv ==
  /\ pm \in Int /\ pl \in Int
  /\ lo <= pl /\ pl <= pm /\ lo < pm /\ pm <= hi
  /\ Sinking(array, lo, pl, pm)

SortInv ==
  /\ at \in {"idle", "loop", "up", "down", "insert", "sink", "done"}
  /\ at # "idle" => IsArray
  /\ at \notin {"idle", "done"} => Sorts(array, todo)
  /\ at = "done" => Shuffled(given, array, Dom, Dom) /\ Settled(array, Dom, <<>>, {})
  /\ at \in {"up", "down"} => PartitionInv
  /\ at = "insert" => InsertInv
  /\ at = "sink" => SinkInv

\* What is known of the current part.
LEMMA CurrentPart ==
  ASSUME NEW b, IsArray, Sorts(b, todo)
  PROVE  /\ lo \in Nat /\ hi \in Int /\ Current.n \in Nat /\ hi = lo + Current.n - 1
         /\ lo .. hi \subseteq Dom /\ Dom \subseteq Int
         /\ Span(Current) = lo .. hi
         /\ Arr(given, Dom) /\ Arr(b, Dom)
  <1>1. Dom \subseteq Int /\ Arr(given, Dom) /\ Arr(b, Dom)
    BY DEF IsArray, Sorts, Shuffled
  <1>2. Span(Current) = lo .. hi
    BY Zenon DEF Span, lo, hi
  <1>3. CASE Parts(todo, Dom)
    <2>1. Current = Last(todo)
      BY Zenon DEF Current, Last
    <2>2. Current \in PartType /\ Span(Current) \subseteq Dom
      BY <1>3, <2>1, FrontExact, FrontParts DEF Sorts
    <2>3. QED
      BY <1>1, <1>2, <2>2 DEF PartType, lo, hi
  <1>4. CASE todo = <<Part(0, 0)>>
    <2>1. Current = [a |-> 0, n |-> 0]
      BY <1>4 DEF Current, Part
    <2>2. lo = 0 /\ hi = -1 /\ Current.n = 0
      BY <2>1 DEF lo, hi
    <2>3. QED
      BY <1>1, <1>2, <2>2
  <1>5. QED
    BY <1>3, <1>4 DEF Sorts

(* Elements of the current part may be moved. *)
LEMMA SortsShuffled ==
  ASSUME NEW b, NEW c, IsArray, Sorts(b, todo), Shuffled(b, c, Dom, lo .. hi)
  PROVE  Sorts(c, todo)
  <1>1. /\ lo \in Int /\ hi \in Int /\ lo .. hi \subseteq Dom /\ Dom \in SUBSET Int
        /\ Span(Current) = lo .. hi /\ Arr(b, Dom)
    BY CurrentPart
  <1>2. Shuffled(given, c, Dom, Dom)
    <2>1. PICK f : Moves(f, Dom, lo .. hi) /\ \A i \in Dom : c[i] = b[f[i]]
      BY DEF Shuffled
    <2>2. Moves(f, Dom, Dom)
      BY <2>1 DEF Moves
    <2>3. Shuffled(b, c, Dom, Dom)
      BY <2>1, <2>2 DEF Shuffled
    <2>4. QED
      BY <2>3, ShuffledTwice DEF Sorts
  <1>3. CASE Parts(todo, Dom)
    <2>1. Current = Last(todo)
      BY Zenon DEF Current, Last
    <2>2. \A k \in 1 .. Len(Front(todo)) : Span(Front(todo)[k]) \cap (lo .. hi) = {}
      BY <1>1, <1>3, <2>1, FrontParts DEF Sorts
    <2>3. CASE Settled(b, Dom, Front(todo), Span(Last(todo)))
      <3>1. Settled(b, Dom, Front(todo), lo .. hi)
        BY <1>1, <2>1, <2>3
      <3>2. Settled(c, Dom, Front(todo), lo .. hi)
        BY <1>1, <2>2, <3>1, SettledShuffled
      <3>3. QED
        BY <1>1, <1>2, <1>3, <2>1, <3>2 DEF Sorts
    <2>4. CASE todo = <<Part(0, 0)>> /\ Dom = {}
      BY <1>2, <2>4 DEF Sorts
    <2>5. QED
      BY <2>3, <2>4 DEF Sorts
  <1>4. CASE todo = <<Part(0, 0)>> /\ Dom = {}
    BY <1>2, <1>4 DEF Sorts
  <1>5. QED
    BY <1>3, <1>4 DEF Sorts

(* The same of a state that follows. *)
SamePart == given' = given /\ todo' = todo

LEMMA SameParts ==
  ASSUME SamePart
  PROVE  /\ lo' = lo /\ hi' = hi /\ Current' = Current /\ Dom' = Dom /\ (IsArray)' = IsArray
         /\ Sorts(array, todo)' = Sorts(array', todo)
  <1>1. Dom' = Dom
    BY DEF SamePart, Dom
  <1>2. QED
    BY <1>1 DEF SamePart, lo, hi, Current, IsArray, Sorts

LEMMA SortStarts ==
  ASSUME NEW n \in Nat, NEW b \in [0 .. n - 1 -> Int], Qsort(b, n)
  PROVE  SortInv'
  <1>1. given' = b /\ array' = b /\ todo' = <<Part(0, n)>> /\ at' = "loop"
    BY DEF Qsort
  <1>2. Dom' = 0 .. n - 1 /\ Arr(given', Dom') /\ (IsArray)'
    BY <1>1 DEF Dom, Arr, IsArray
  <1>3. Shuffled(given', array', Dom', Dom')
    BY <1>1, <1>2, ShuffledNot
  <1>4. CASE n = 0
    <2>1. Dom' = {} /\ todo' = <<Part(0, 0)>> /\ todo' # <<>>
      BY <1>1, <1>2, <1>4
    <2>2. Sorts(array, todo)'
      BY <1>3, <2>1 DEF Sorts
    <2>3. QED
      BY <1>1, <1>2, <2>2 DEF SortInv
  <1>5. CASE n # 0
    <2> DEFINE p == Part(0, n)
    <2>1. p \in PartType /\ Span(p) = 0 .. n - 1
      BY <1>5 DEF Part, PartType, Span
    <2> HIDE DEF p
    <2>2. <<p>> \in Seq(PartType) /\ Len(<<p>>) = 1 /\ <<p>>[1] = p /\ <<p>> # <<>> /\ \A k \in 1 .. 1 : k = 1
      BY <2>1
    <2>3. Parts(<<p>>, Dom')
      BY <1>2, <2>1, <2>2 DEF Parts
    <2>4. Last(<<p>>) = p
      BY <2>2 DEF Last
    <2>5. Settled(b, Dom', Front(<<p>>), Span(Last(<<p>>)))
      BY <1>2, <2>1, <2>4 DEF Settled
    <2>6. todo' = <<p>>
      BY <1>1 DEF p
    <2>7. Sorts(array, todo)'
      BY <1>1, <1>3, <2>2, <2>3, <2>5, <2>6 DEF Sorts
    <2>8. QED
      BY <1>1, <1>2, <2>7 DEF SortInv
  <1>6. QED
    BY <1>4, <1>5

(* qsort goes on with the last of the parts that remain, or is done. *)
LEMMA GoesOn ==
  ASSUME NEW c, NEW parts, Shuffled(given, c, Dom, Dom), Parts(parts, Dom), Settled(c, Dom, parts, {}),
         IsArray, given' = given, array' = c, GoOn(parts)
  PROVE  SortInv'
  <1>1. Dom' = Dom /\ (IsArray)' = IsArray
    BY DEF Dom, IsArray
  <1>2. CASE parts = <<>>
    <2>1. todo' = <<>> /\ at' = "done"
      BY <1>2 DEF GoOn
    <2>2. QED
      BY <1>1, <1>2, <2>1 DEF SortInv
  <1>3. CASE parts # <<>>
    <2>1. todo' = parts /\ at' = "loop"
      BY <1>3 DEF GoOn
    <2>2. Settled(c, Dom, Front(parts), Span(Last(parts)))
      BY <1>3, SettledFront
    <2>3. Sorts(array, todo)'
      BY <1>1, <1>3, <2>1, <2>2 DEF Sorts
    <2>4. QED
      BY <1>1, <2>1, <2>3 DEF SortInv
  <1>4. QED
    BY <1>2, <1>3

LEMMA FewElementsKeeps ==
  ASSUME SortInv, FewElements
  PROVE  SortInv'
  <1>1. /\ at = "loop" /\ at' = "insert" /\ pm' = lo + 1 /\ array' = array /\ SamePart
    BY DEF FewElements, SamePart
  <1>2. IsArray /\ Sorts(array, todo)
    BY <1>1 DEF SortInv
  <1>3. lo \in Nat /\ hi \in Int /\ hi = lo + Current.n - 1 /\ Current.n \in Nat
    BY <1>2, CurrentPart
  <1>4. Inserts(array, lo, hi, lo + 1) /\ InOrder(array, lo, (lo + 1) - 1)
    BY <1>3 DEF Inserts, InOrder
  <1>5. InsertInv'
    BY <1>1, <1>4, SameParts DEF InsertInv
  <1>6. QED
    BY <1>1, <1>2, <1>5, SameParts DEF SortInv

LEMMA ChoosePivotKeeps ==
  ASSUME SortInv, ChoosePivot
  PROVE  SortInv'
  <1> DEFINE b == Swap(array, lo, PivotIndex(array, lo, Current.n))
  <1>1. /\ at = "loop" /\ at' = "up" /\ array' = b /\ SamePart /\ Current.n >= Short
        /\ pa' = lo + 1 /\ pb' = lo + 1 /\ pc' = hi /\ pd' = hi /\ swap_cnt' = 0
    BY DEF ChoosePivot, SamePart
  <1>2. IsArray /\ Sorts(array, todo)
    BY <1>1 DEF SortInv
  <1>3. /\ lo \in Nat /\ hi \in Int /\ hi = lo + Current.n - 1 /\ Current.n \in Nat
        /\ lo .. hi \subseteq Dom /\ Dom \subseteq Int /\ Arr(array, Dom)
    BY <1>2, CurrentPart
  <1>4. Current.n \in Nat \ {0} /\ lo \in lo .. hi
    BY <1>1, <1>3, LengthsAssumption
  <1>5. PivotIndex(array, lo, Current.n) \in lo .. hi
    BY <1>3, <1>4, PivotInside
  <1>6. Shuffled(array, b, Dom, lo .. hi)
    <2> HIDE DEF b
    <2>1. \A i, j \in lo .. hi : Shuffled(array, Swap(array, i, j), Dom, lo .. hi)
      BY <1>3, SwapShuffles
    <2>2. QED
      BY <1>4, <1>5, <2>1 DEF b
  <1> HIDE DEF b
  <1>7. Sorts(b, todo)
    BY <1>2, <1>6, SortsShuffled
  <1>8. Partitioned(b, Dom, lo, hi, lo + 1, lo + 1, hi, hi)
    <2>1. Arr(b, Dom)
      BY <1>6 DEF Shuffled
    <2>2. Bounds(Dom, lo, hi, lo + 1, lo + 1, hi, hi)
      BY <1>3, <1>4 DEF Bounds
    <2>3. \A i \in lo .. (lo + 1) - 1 : i = lo
      BY <1>3
    <2>4. (lo + 1 .. (lo + 1) - 1) = {} /\ (hi + 1 .. hi) = {}
      BY <1>3
    <2>5. QED
      BY <2>1, <2>2, <2>3, <2>4 DEF Partitioned
  <1>9. PartitionInv'
    BY <1>1, <1>8, SameParts DEF PartitionInv
  <1>10. QED
    BY <1>1, <1>2, <1>7, <1>9, SameParts DEF SortInv

\* What the steps of the partition share.
LEMMA InPartition ==
  ASSUME SortInv, at \in {"up", "down"}
  PROVE  /\ IsArray /\ Sorts(array, todo) /\ PartitionInv
         /\ Bounds(Dom, lo, hi, pa, pb, pc, pd) /\ Arr(array, Dom)
         /\ \A i \in lo .. hi : i \in Dom /\ array[i] \in Int
  <1>1. IsArray /\ Sorts(array, todo) /\ PartitionInv
    BY DEF SortInv
  <1>2. Bounds(Dom, lo, hi, pa, pb, pc, pd) /\ Arr(array, Dom)
    BY <1>1 DEF PartitionInv, Partitioned
  <1>3. \A i \in lo .. hi : i \in Dom
    BY <1>2 DEF Bounds
  <1>4. QED
    BY <1>1, <1>2, <1>3 DEF Arr

LEMMA SwapSorts ==
  ASSUME IsArray, Sorts(array, todo), NEW i \in lo .. hi, NEW j \in lo .. hi
  PROVE  Sorts(Swap(array, i, j), todo)
  <1>1. lo .. hi \subseteq Dom /\ Arr(array, Dom)
    BY CurrentPart
  <1>2. Shuffled(array, Swap(array, i, j), Dom, lo .. hi)
    BY <1>1, SwapShuffles
  <1>3. QED
    BY <1>2, SortsShuffled

LEMMA PassUpKeeps ==
  ASSUME SortInv, PassUp
  PROVE  SortInv'
  <1>1. /\ at = "up" /\ at' = "up" /\ SamePart /\ pb' = pb + 1 /\ pc' = pc /\ pd' = pd
        /\ pb <= pc /\ array[pb] <= array[lo]
    BY DEF PassUp, SamePart
  <1>2. /\ IsArray /\ Sorts(array, todo) /\ PartitionInv
        /\ Bounds(Dom, lo, hi, pa, pb, pc, pd) /\ Arr(array, Dom)
        /\ \A i \in lo .. hi : i \in Dom /\ array[i] \in Int
    BY <1>1, InPartition
  <1>3. pa \in lo .. hi /\ pb \in lo .. hi /\ lo \in lo .. hi
    BY <1>1, <1>2 DEF Bounds
  <1>4. CASE array[pb] = array[lo]
    <2>1. array' = Swap(array, pa, pb) /\ pa' = pa + 1 /\ swap_cnt' = 1
      BY <1>4 DEF PassUp
    <2>2. Partitioned(Swap(array, pa, pb), Dom, lo, hi, pa + 1, pb + 1, pc, pd)
      BY <1>1, <1>2, <1>4, PassUpEqual DEF PartitionInv
    <2>3. Sorts(Swap(array, pa, pb), todo)
      BY <1>2, <1>3, SwapSorts
    <2>4. PartitionInv'
      BY <1>1, <2>1, <2>2, SameParts DEF PartitionInv
    <2>5. QED
      BY <1>1, <1>2, <2>1, <2>3, <2>4, SameParts DEF SortInv
  <1>5. CASE array[pb] # array[lo]
    <2>1. array' = array /\ pa' = pa /\ swap_cnt' = swap_cnt
      BY <1>5 DEF PassUp
    <2>2. array[pb] < array[lo]
      BY <1>1, <1>2, <1>3, <1>5
    <2>3. Partitioned(array, Dom, lo, hi, pa, pb + 1, pc, pd)
      BY <1>1, <1>2, <2>2, PassUpLess DEF PartitionInv
    <2>4. PartitionInv'
      BY <1>1, <1>2, <2>1, <2>3, SameParts DEF PartitionInv
    <2>5. QED
      BY <1>1, <1>2, <2>1, <2>4, SameParts DEF SortInv
  <1>6. QED
    BY <1>4, <1>5

LEMMA UpEndsKeeps ==
  ASSUME SortInv, UpEnds
  PROVE  SortInv'
  <1>1. /\ at = "up" /\ at' = "down" /\ SamePart /\ array' = array
        /\ pa' = pa /\ pb' = pb /\ pc' = pc /\ pd' = pd /\ swap_cnt' = swap_cnt
        /\ pb <= pc => array[pb] > array[lo]
    BY DEF UpEnds, SamePart, partition
  <1>2. IsArray /\ Sorts(array, todo) /\ PartitionInv
    BY <1>1, InPartition
  <1>3. PartitionInv'
    BY <1>1, <1>2, SameParts DEF PartitionInv
  <1>4. QED
    BY <1>1, <1>2, <1>3, SameParts DEF SortInv

LEMMA PassDownKeeps ==
  ASSUME SortInv, PassDown
  PROVE  SortInv'
  <1>1. /\ at = "down" /\ at' = "down" /\ SamePart /\ pc' = pc - 1 /\ pa' = pa /\ pb' = pb
        /\ pb <= pc /\ array[pc] >= array[lo]
    BY DEF PassDown, SamePart
  <1>2. /\ IsArray /\ Sorts(array, todo) /\ PartitionInv
        /\ Bounds(Dom, lo, hi, pa, pb, pc, pd) /\ Arr(array, Dom)
        /\ \A i \in lo .. hi : i \in Dom /\ array[i] \in Int
    BY <1>1, InPartition
  <1>3. pc \in lo .. hi /\ pd \in lo .. hi /\ lo \in lo .. hi /\ pb \in lo .. hi
    BY <1>1, <1>2 DEF Bounds
  <1>4. array[pb] > array[lo]
    BY <1>1, <1>2 DEF PartitionInv
  <1>5. CASE array[pc] = array[lo]
    <2>1. array' = Swap(array, pc, pd) /\ pd' = pd - 1 /\ swap_cnt' = 1
      BY <1>5 DEF PassDown
    <2>2. Partitioned(Swap(array, pc, pd), Dom, lo, hi, pa, pb, pc - 1, pd - 1)
      BY <1>1, <1>2, <1>5, PassDownEqual DEF PartitionInv
    <2>3. Sorts(Swap(array, pc, pd), todo)
      BY <1>2, <1>3, SwapSorts
    <2>4. Exchanged(array, Swap(array, pc, pd), Dom, pc, pd)
      BY <1>2, <1>3, SwapExact
    <2>5. pb' <= pc' => array'[pb'] > array'[lo']
      <3>1. pb # pc
        BY <1>2, <1>3, <1>4, <1>5
      <3>2. pb \in Dom \ {pc, pd} /\ lo \in Dom \ {pc, pd}
        BY <1>1, <1>2, <1>3, <3>1 DEF Bounds
      <3>3. array'[pb] = array[pb] /\ array'[lo] = array[lo]
        BY <2>1, <2>4, <3>2 DEF Exchanged
      <3>4. QED
        BY <1>1, <1>4, <3>3, SameParts
    <2>6. PartitionInv'
      BY <1>1, <2>1, <2>2, <2>5, SameParts DEF PartitionInv
    <2>7. QED
      BY <1>1, <1>2, <2>1, <2>3, <2>6, SameParts DEF SortInv
  <1>6. CASE array[pc] # array[lo]
    <2>1. array' = array /\ pd' = pd /\ swap_cnt' = swap_cnt
      BY <1>6 DEF PassDown
    <2>2. array[pc] > array[lo]
      BY <1>1, <1>2, <1>3, <1>6
    <2>3. Partitioned(array, Dom, lo, hi, pa, pb, pc - 1, pd)
      BY <1>1, <1>2, <2>2, PassDownGreater DEF PartitionInv
    <2>4. PartitionInv'
      BY <1>1, <1>2, <1>4, <2>1, <2>3, SameParts DEF PartitionInv
    <2>5. QED
      BY <1>1, <1>2, <2>1, <2>4, SameParts DEF SortInv
  <1>7. QED
    BY <1>5, <1>6

LEMMA ExchangeKeeps ==
  ASSUME SortInv, Exchange
  PROVE  SortInv' /\ pb < pc
  <1>1. /\ at = "down" /\ at' = "up" /\ SamePart /\ pb' = pb + 1 /\ pc' = pc - 1 /\ pa' = pa /\ pd' = pd
        /\ array' = Swap(array, pb, pc) /\ swap_cnt' = 1
        /\ pb <= pc /\ array[pc] < array[lo]
    BY DEF Exchange, SamePart
  <1>2. /\ IsArray /\ Sorts(array, todo) /\ PartitionInv
        /\ Bounds(Dom, lo, hi, pa, pb, pc, pd)
    BY <1>1, InPartition
  <1>3. pc \in lo .. hi /\ pb \in lo .. hi
    BY <1>1, <1>2 DEF Bounds
  <1>4. array[pb] > array[lo]
    BY <1>1, <1>2 DEF PartitionInv
  <1>5. Partitioned(Swap(array, pb, pc), Dom, lo, hi, pa, pb + 1, pc - 1, pd) /\ pb < pc
    BY <1>1, <1>2, <1>4, ExchangeParts DEF PartitionInv
  <1>6. Sorts(Swap(array, pb, pc), todo)
    BY <1>2, <1>3, SwapSorts
  <1>7. PartitionInv'
    BY <1>1, <1>5, SameParts DEF PartitionInv
  <1>8. QED
    BY <1>1, <1>2, <1>5, <1>6, <1>7, SameParts DEF SortInv

LEMMA NothingSwappedKeeps ==
  ASSUME SortInv, NothingSwapped
  PROVE  SortInv'
  <1>1. /\ at = "down" /\ at' = "insert" /\ pm' = lo + 1 /\ array' = array /\ SamePart
    BY DEF NothingSwapped, SamePart
  <1>2. IsArray /\ Sorts(array, todo)
    BY <1>1, InPartition
  <1>3. lo \in Nat /\ hi \in Int /\ hi = lo + Current.n - 1 /\ Current.n \in Nat
    BY <1>2, CurrentPart
  <1>4. Inserts(array, lo, hi, lo + 1) /\ InOrder(array, lo, (lo + 1) - 1)
    BY <1>3 DEF Inserts, InOrder
  <1>5. InsertInv'
    BY <1>1, <1>4, SameParts DEF InsertInv
  <1>6. QED
    BY <1>1, <1>2, <1>5, SameParts DEF SortInv

\* Parts of more than one element have to be sorted, too.
Later(parts, p) == IF p.n > 1 THEN Append(parts, p) ELSE parts

ApartFrom(parts, S) == \A k \in 1 .. Len(parts) : Span(parts[k]) \cap S = {}

LEMMA LaterExact ==
  ASSUME NEW parts, NEW D, NEW p, Parts(parts, D), p.a \in Nat, p.n \in Nat, p = Part(p.a, p.n),
         Span(p) \subseteq D, ApartFrom(parts, Span(p))
  PROVE  /\ Parts(Later(parts, p), D)
         /\ \A i, j : Together(Later(parts, p), i, j) <=>
                        Together(parts, i, j) \/ (p.n > 1 /\ i \in Span(p) /\ j \in Span(p))
         /\ \A S : ApartFrom(parts, S) /\ Span(p) \cap S = {} => ApartFrom(Later(parts, p), S)
  <1>1. parts \in Seq(PartType)
    BY DEF Parts
  <1>2. CASE p.n > 1
    <2>1. p \in PartType /\ Later(parts, p) = Append(parts, p)
      BY <1>2 DEF PartType, Part, Later
    <2>2. Parts(Append(parts, p), D)
      BY <2>1, AppendParts DEF ApartFrom
    <2>3. \A i, j : Together(Append(parts, p), i, j) <=> Together(parts, i, j)
            \/ (i \in Span(p) /\ j \in Span(p))
      BY <1>1, <2>1, AppendTogether
    <2>4. ASSUME NEW S, ApartFrom(parts, S), Span(p) \cap S = {}
          PROVE  ApartFrom(Append(parts, p), S)
      <3> DEFINE n == Len(parts)
                 q == Append(parts, p)
      <3>1. n \in Nat /\ Len(q) = n + 1 /\ q[n + 1] = p /\ \A k \in 1 .. n : q[k] = parts[k]
        BY <1>1, <2>1
      <3>2. \A k \in 1 .. n + 1 : k = n + 1 \/ k \in 1 .. n
        BY <3>1
      <3> HIDE DEF q
      <3>3. QED
        BY <2>4, <3>1, <3>2 DEF ApartFrom, q
    <2>5. QED
      BY <1>2, <2>1, <2>2, <2>3, <2>4
  <1>3. CASE ~(p.n > 1)
    BY <1>3 DEF Later
  <1>4. QED
    BY <1>2, <1>3

Lesser  == Part(lo, pb - pa)
Greater == Part(hi + 1 - (pd - pc), pd - pc)
Remaining == Later(Later(Rest, Greater), Lesser)

(* What Gather leaves. *)
LEMMA Gathers ==
  ASSUME SortInv, Gather
  PROVE  /\ array' = Gathered(array) /\ GoOn(Remaining) /\ given' = given
         /\ IsArray /\ Sorts(array, todo)
         /\ Bounds(Dom, lo, hi, pa, pb, pc, pd) /\ pb = pc + 1
         /\ Shuffled(array, Gathered(array), Dom, lo .. hi)
         /\ Ordered3(array, Gathered(array), lo, hi, pb - pa, pd - pc)
         /\ Arr(array, Dom)
         /\ \A i \in lo .. hi : i \in Dom /\ array[i] \in Int
  <1>1. /\ at = "down" /\ pb > pc /\ array' = Gathered(array) /\ given' = given
    BY DEF Gather
  <1>2. /\ IsArray /\ Sorts(array, todo) /\ PartitionInv
        /\ Bounds(Dom, lo, hi, pa, pb, pc, pd) /\ Arr(array, Dom)
        /\ \A i \in lo .. hi : i \in Dom /\ array[i] \in Int
    BY <1>1, InPartition
  <1>3. pb = pc + 1
    BY <1>1, <1>2 DEF Bounds
  <1>4. GoOn(Remaining)
    <2>1. GoOn(IF pb - pa > 1
               THEN Append(IF pd - pc > 1 THEN Append(Rest, Part(hi + 1 - (pd - pc), pd - pc)) ELSE Rest,
                           Part(lo, pb - pa))
               ELSE IF pd - pc > 1 THEN Append(Rest, Part(hi + 1 - (pd - pc), pd - pc)) ELSE Rest)
      BY DEF Gather
    <2>2. Greater.n = pd - pc /\ Lesser.n = pb - pa
      BY DEF Greater, Lesser, Part
    <2>3. Remaining = IF pb - pa > 1
                      THEN Append(IF pd - pc > 1 THEN Append(Rest, Greater) ELSE Rest, Lesser)
                      ELSE IF pd - pc > 1 THEN Append(Rest, Greater) ELSE Rest
      BY <2>2, Zenon DEF Remaining, Later
    <2>4. QED
      BY <2>1, <2>3, Zenon DEF Greater, Lesser
  <1>5. Gathered(array) = Gather2(Gather2(array, lo, pa, pb - 1), pb, pd + 1, hi)
    <2> DEFINE n == Min2(pa - lo, pb - pa)
               r == Min2(pd - pc, hi - pd)
    <2>1. Gathered(array) = SwapRange(SwapRange(array, lo, pb - n, n), pb, hi + 1 - r, r)
      BY Zenon DEF Gathered
    <2>2. (pb - 1) + 1 - pa = pb - pa /\ (pd + 1) - pb = pd - pc /\ hi + 1 - (pd + 1) = hi - pd
      BY <1>2, <1>3 DEF Bounds
    <2>3. n \in Int
      BY <1>2 DEF Bounds, Min2
    <2> HIDE DEF n, r
    <2>4. (pb - 1) + 1 - n = pb - n
      BY <1>2, <2>3 DEF Bounds
    <2>5. Gather2(array, lo, pa, pb - 1) = SwapRange(array, lo, (pb - 1) + 1 - n, n)
      BY <2>2, Zenon DEF Gather2, n
    <2>6. \A c : Gather2(c, pb, pd + 1, hi) = SwapRange(c, pb, hi + 1 - r, r)
      BY <2>2, Zenon DEF Gather2, r
    <2>7. QED
      BY <2>1, <2>4, <2>5, <2>6, Zenon
  <1>6. /\ Shuffled(array, Gathered(array), Dom, lo .. hi)
        /\ Ordered3(array, Gathered(array), lo, hi, pb - pa, pd - pc)
    BY <1>2, <1>3, <1>5, GatherExact DEF PartitionInv
  <1>7. QED
    BY <1>1, <1>2, <1>3, <1>4, <1>6

\* The parts that remain, of those elements that were to be sorted and are not the pivot.
LEMMA RemainingExact ==
  ASSUME SortInv, Gather
  PROVE  /\ Parts(todo, Dom) /\ Parts(Remaining, Dom)
         /\ Parts(Rest, Dom) /\ ApartFrom(Rest, lo .. hi)
         /\ \A i, j : Together(Remaining, i, j) <=>
              \/ Together(Rest, i, j)
              \/ pd - pc > 1 /\ i \in Span(Greater) /\ j \in Span(Greater)
              \/ pb - pa > 1 /\ i \in Span(Lesser) /\ j \in Span(Lesser)
         /\ Span(Lesser) = lo .. lo + (pb - pa) - 1
         /\ Span(Greater) = hi + 1 - (pd - pc) .. hi
         /\ Span(Lesser) \subseteq lo .. hi /\ Span(Greater) \subseteq lo .. hi
         /\ lo + (pb - pa) \in lo .. hi
         /\ lo + (pb - pa) \notin Span(Lesser) /\ lo + (pb - pa) \notin Span(Greater)
  <1>1. /\ IsArray /\ Sorts(array, todo)
        /\ Bounds(Dom, lo, hi, pa, pb, pc, pd) /\ pb = pc + 1
    BY Gathers
  <1>2. lo \in lo .. hi /\ lo .. hi \subseteq Dom
    BY <1>1 DEF Bounds
  <1>3. Parts(todo, Dom) /\ todo # <<>>
    BY <1>1, <1>2 DEF Sorts
  <1>4. Rest = Front(todo) /\ Current = Last(todo) /\ Span(Current) = lo .. hi
    BY Zenon DEF Rest, Front, Current, Last, Span, lo, hi
  <1>5. Parts(Rest, Dom) /\ ApartFrom(Rest, lo .. hi)
    BY <1>3, <1>4, FrontParts DEF ApartFrom
  <1>6. /\ Lesser.a \in Nat /\ Lesser.n \in Nat /\ Lesser = Part(Lesser.a, Lesser.n)
        /\ Greater.a \in Nat /\ Greater.n \in Nat /\ Greater = Part(Greater.a, Greater.n)
        /\ Lesser.n = pb - pa /\ Greater.n = pd - pc
    BY <1>1 DEF Lesser, Greater, Part, Bounds
  <1>7. Span(Lesser) = lo .. lo + (pb - pa) - 1 /\ Span(Greater) = hi + 1 - (pd - pc) .. hi
    <2>1. Span(Lesser) = lo .. lo + (pb - pa) - 1
      BY DEF Span, Lesser, Part
    <2>2. Span(Greater) = hi + 1 - (pd - pc) .. hi + 1 - (pd - pc) + (pd - pc) - 1
      BY DEF Span, Greater, Part
    <2>3. hi + 1 - (pd - pc) + (pd - pc) - 1 = hi
      BY <1>1 DEF Bounds
    <2>4. QED
      BY <2>1, <2>2, <2>3
  <1>8. /\ Span(Lesser) \subseteq lo .. hi /\ Span(Greater) \subseteq lo .. hi
        /\ lo + (pb - pa) \in lo .. hi
        /\ lo + (pb - pa) \notin Span(Lesser) /\ lo + (pb - pa) \notin Span(Greater)
        /\ Span(Greater) \cap Span(Lesser) = {}
    BY <1>1, <1>7 DEF Bounds
  <1>9. ApartFrom(Rest, Span(Greater)) /\ ApartFrom(Rest, Span(Lesser))
    BY <1>5, <1>8 DEF ApartFrom
  <1> DEFINE later == Later(Rest, Greater)
  <1>10. /\ Parts(later, Dom)
         /\ \A i, j : Together(later, i, j) <=>
              Together(Rest, i, j) \/ (Greater.n > 1 /\ i \in Span(Greater) /\ j \in Span(Greater))
         /\ ApartFrom(later, Span(Lesser))
    <2>1. Span(Greater) \subseteq Dom
      BY <1>2, <1>8
    <2>2. QED
      BY <1>5, <1>6, <1>8, <1>9, <2>1, LaterExact
  <1> HIDE DEF later
  <1>11. /\ Parts(Later(later, Lesser), Dom)
         /\ \A i, j : Together(Later(later, Lesser), i, j) <=>
              Together(later, i, j) \/ (Lesser.n > 1 /\ i \in Span(Lesser) /\ j \in Span(Lesser))
    <2>1. Span(Lesser) \subseteq Dom
      BY <1>2, <1>8
    <2>2. QED
      BY <1>6, <1>10, <2>1, LaterExact
  <1>12. Remaining = Later(later, Lesser)
    BY DEF Remaining, later
  <1>13. QED
    BY <1>3, <1>5, <1>6, <1>7, <1>8, <1>10, <1>11, <1>12

LEMMA GatherKeeps ==
  ASSUME SortInv, Gather
  PROVE  SortInv'
  <1> DEFINE c == Gathered(array)
             less == pb - pa
             greater == pd - pc
  <1>1. /\ array' = c /\ GoOn(Remaining) /\ given' = given
        /\ IsArray /\ Sorts(array, todo)
        /\ Bounds(Dom, lo, hi, pa, pb, pc, pd) /\ pb = pc + 1
        /\ Shuffled(array, c, Dom, lo .. hi)
        /\ Ordered3(array, c, lo, hi, less, greater)
        /\ \A i \in lo .. hi : i \in Dom /\ array[i] \in Int
    BY Gathers
  <1>2. /\ Parts(todo, Dom) /\ Parts(Remaining, Dom)
        /\ \A i, j : Together(Remaining, i, j) <=>
              \/ Together(Rest, i, j)
              \/ pd - pc > 1 /\ i \in Span(Greater) /\ j \in Span(Greater)
              \/ pb - pa > 1 /\ i \in Span(Lesser) /\ j \in Span(Lesser)
        /\ Span(Lesser) = lo .. lo + less - 1
        /\ Span(Greater) = hi + 1 - greater .. hi
    BY RemainingExact
  <1> HIDE DEF c
  <1>3. Sorts(c, todo)
    BY <1>1, SortsShuffled
  <1>4. Settled(c, Dom, Rest, lo .. hi) /\ Shuffled(given, c, Dom, Dom) /\ Arr(c, Dom)
    <2>1. Rest = Front(todo) /\ Current = Last(todo) /\ Span(Current) = lo .. hi
      BY Zenon DEF Rest, Front, Current, Last, Span, lo, hi
    <2>2. lo \in Dom
      BY <1>1 DEF Bounds
    <2>3. QED
      BY <1>3, <2>1, <2>2 DEF Sorts, Shuffled
  <1>5. less \in Nat /\ greater \in Nat /\ lo \in Int /\ hi \in Int /\ Dom \subseteq Int
    BY <1>1 DEF Bounds
  <1>6. ASSUME NEW i \in Dom, NEW j \in Dom, i < j
        PROVE  c[i] <= c[j] \/ Together(Remaining, i, j)
    <2>1. CASE i \in lo .. hi /\ j \in lo .. hi
      <3> DEFINE v == array[lo]
      <3>1. c[i] \in Int /\ c[j] \in Int /\ v \in Int
        BY <1>1, <1>4 DEF Arr, Bounds
      <3>2. /\ \A k \in lo .. lo + less - 1 : c[k] < v
            /\ \A k \in lo + less .. hi - greater : c[k] = v
            /\ \A k \in hi + 1 - greater .. hi : c[k] > v
        BY <1>1 DEF Ordered3
      <3> HIDE DEF v, less, greater
      <3>3. \A k \in lo .. hi : k \in lo .. lo + less - 1 \/ k \in lo + less .. hi - greater
                                \/ k \in hi + 1 - greater .. hi
        BY <1>5
      <3>4. CASE i \in lo .. lo + less - 1
        <4>1. CASE j \in lo .. lo + less - 1
          <5>1. less > 1
            BY <1>5, <1>6, <3>4, <4>1
          <5>2. QED
            BY <1>2, <3>4, <4>1, <5>1 DEF less
        <4>2. CASE j \notin lo .. lo + less - 1
          <5>1. c[i] < v
            BY <3>2, <3>4
          <5>2. c[j] >= v
            BY <2>1, <3>1, <3>2, <3>3, <4>2
          <5>3. QED
            BY <3>1, <5>1, <5>2
        <4>3. QED
          BY <4>1, <4>2
      <3>5. CASE i \in lo + less .. hi - greater
        <4>1. c[i] = v
          BY <3>2, <3>5
        <4>2. j \notin lo .. lo + less - 1
          BY <1>5, <1>6, <3>5
        <4>3. c[j] >= v
          BY <2>1, <3>1, <3>2, <3>3, <4>2
        <4>4. QED
          BY <3>1, <4>1, <4>3
      <3>6. CASE i \in hi + 1 - greater .. hi
        <4>1. j \in hi + 1 - greater .. hi
          BY <1>5, <1>6, <2>1, <3>6
        <4>2. greater > 1
          BY <1>5, <1>6, <3>6, <4>1
        <4>3. QED
          BY <1>2, <3>6, <4>1, <4>2 DEF greater
      <3>7. QED
        BY <2>1, <3>3, <3>4, <3>5, <3>6
    <2>2. CASE ~(i \in lo .. hi /\ j \in lo .. hi)
      BY <1>2, <1>4, <1>6, <2>2 DEF Settled
    <2>3. QED
      BY <2>1, <2>2
  <1>7. Settled(c, Dom, Remaining, {})
    BY <1>6 DEF Settled
  <1>8. QED
    BY <1>1, <1>2, <1>4, <1>7, GoesOn

LEMMA NextElementKeeps ==
  ASSUME SortInv, NextElement
  PROVE  SortInv'
  <1>1. /\ at = "insert" /\ at' = "sink" /\ pm <= hi /\ pl' = pm /\ pm' = pm /\ array' = array /\ SamePart
    BY DEF NextElement, SamePart
  <1>2. IsArray /\ Sorts(array, todo) /\ InsertInv
    BY <1>1 DEF SortInv
  <1>3. lo \in Nat /\ hi \in Int
    BY <1>2, CurrentPart
  <1>4. pm \in Int /\ lo <= pm /\ lo < pm
    BY <1>2, <1>3 DEF InsertInv, Inserts
  <1>5. Sinking(array, lo, pm, pm)
    <2>1. \A i, j \in lo .. pm : i < j /\ j # pm => i \in lo .. pm - 1 /\ j \in lo .. pm - 1
      BY <1>3, <1>4
    <2>2. QED
      BY <1>2, <2>1 DEF InsertInv, InOrder, Sinking
  <1>6. SinkInv'
    BY <1>1, <1>4, <1>5, SameParts DEF SinkInv
  <1>7. QED
    BY <1>1, <1>2, <1>6, SameParts DEF SortInv

LEMMA SinkStepKeeps ==
  ASSUME SortInv, Sink
  PROVE  SortInv'
  <1>1. /\ at = "sink" /\ at' = "sink" /\ pl > lo /\ array[pl - 1] > array[pl]
        /\ array' = Swap(array, pl, pl - 1) /\ pl' = pl - 1 /\ pm' = pm /\ SamePart
    BY DEF Sink, SamePart
  <1>2. IsArray /\ Sorts(array, todo) /\ SinkInv
    BY <1>1 DEF SortInv
  <1>3. lo \in Nat /\ hi \in Int /\ lo .. hi \subseteq Dom /\ Arr(array, Dom)
    BY <1>2, CurrentPart
  <1>4. /\ pl \in Int /\ pm \in Int /\ lo < pl /\ pl <= pm /\ pm <= hi /\ lo <= pl - 1 /\ pl - 1 <= pm
             /\ lo < pm
        /\ Sinking(array, lo, pl, pm)
    BY <1>1, <1>2, <1>3 DEF SinkInv
  <1>5. lo .. pm \subseteq Dom /\ pl \in lo .. hi /\ pl - 1 \in lo .. hi
    BY <1>3, <1>4
  <1>6. Sinking(Swap(array, pl, pl - 1), lo, pl - 1, pm)
    BY <1>1, <1>3, <1>4, <1>5, SinkKeeps
  <1>7. Sorts(Swap(array, pl, pl - 1), todo)
    BY <1>2, <1>5, SwapSorts
  <1>8. SinkInv'
    BY <1>1, <1>4, <1>6, SameParts DEF SinkInv
  <1>9. QED
    BY <1>1, <1>2, <1>7, <1>8, SameParts DEF SortInv

LEMMA SinkEndsKeeps ==
  ASSUME SortInv, SinkEnds
  PROVE  SortInv'
  <1>1. /\ at = "sink" /\ at' = "insert"
        /\ pl > lo => array[pl - 1] <= array[pl]
        /\ pm' = pm + 1 /\ array' = array /\ SamePart
    BY DEF SinkEnds, SamePart
  <1>2. IsArray /\ Sorts(array, todo) /\ SinkInv
    BY <1>1 DEF SortInv
  <1>3. lo \in Nat /\ hi \in Int /\ lo .. hi \subseteq Dom /\ Arr(array, Dom)
    BY <1>2, CurrentPart
  <1>4. /\ pl \in Int /\ pm \in Int /\ lo <= pl /\ pl <= pm /\ pm <= hi /\ lo < pm
        /\ Sinking(array, lo, pl, pm)
    BY <1>2 DEF SinkInv
  <1>5. lo .. pm \subseteq Dom
    BY <1>3, <1>4
  <1>6. InOrder(array, lo, pm)
    BY <1>1, <1>3, <1>4, <1>5, SinkDone
  <1>7. Inserts(array, lo, hi, pm + 1) /\ (pm + 1) - 1 = pm
    BY <1>3, <1>4 DEF Inserts
  <1>8. InsertInv'
    BY <1>1, <1>6, <1>7, SameParts DEF InsertInv
  <1>9. QED
    BY <1>1, <1>2, <1>8, SameParts DEF SortInv

LEMMA InsertEndsKeeps ==
  ASSUME SortInv, InsertEnds
  PROVE  SortInv'
  <1>1. at = "insert" /\ pm > hi /\ GoOn(Rest) /\ array' = array /\ given' = given
    BY DEF InsertEnds
  <1>2. IsArray /\ Sorts(array, todo) /\ InsertInv
    BY <1>1 DEF SortInv
  <1>3. /\ lo \in Nat /\ hi \in Int /\ lo .. hi \subseteq Dom /\ Arr(array, Dom) /\ Dom \subseteq Int
        /\ Span(Current) = lo .. hi
    BY <1>2, CurrentPart
  <1>4. InOrder(array, lo, hi)
    <2>1. \A i \in lo .. hi : i \in lo .. pm - 1
      BY <1>1, <1>2, <1>3 DEF InsertInv, Inserts
    <2>2. QED
      BY <1>2, <2>1 DEF InsertInv, InOrder
  <1>5. Rest = Front(todo) /\ Current = Last(todo)
    BY Zenon DEF Rest, Front, Current, Last
  <1>6. CASE Parts(todo, Dom) /\ Settled(array, Dom, Front(todo), Span(Last(todo)))
    <2>1. Parts(Rest, Dom)
      BY <1>2, <1>5, <1>6, FrontParts DEF Sorts
    <2>2. Settled(array, Dom, Rest, {})
      BY <1>3, <1>4, <1>5, <1>6 DEF Settled, InOrder
    <2>3. QED
      BY <1>1, <1>2, <2>1, <2>2, GoesOn DEF Sorts
  <1>7. CASE todo = <<Part(0, 0)>> /\ Dom = {}
    <2>1. Rest = <<>>
      BY <1>7 DEF Rest
    <2>2. Parts(<<>>, Dom)
      BY DEF Parts
    <2>3. Settled(array, Dom, <<>>, {})
      BY <1>7 DEF Settled
    <2>4. QED
      BY <1>1, <1>2, <2>1, <2>2, <2>3, GoesOn DEF Sorts
  <1>8. QED
    BY <1>2, <1>6, <1>7 DEF Sorts

LEMMA SortInvInit == QsortInit => SortInv
  BY DEF QsortInit, SortInv

LEMMA SortInvNext ==
  ASSUME SortInv, [QsortNext]_sortVars
  PROVE  SortInv'
  <1>1. ASSUME NEW n \in Nat, NEW b \in [0 .. n - 1 -> Int], Qsort(b, n)
        PROVE  SortInv'
    BY <1>1, SortStarts
  <1>2. CASE FewElements \/ ChoosePivot
    BY <1>2, FewElementsKeeps, ChoosePivotKeeps
  <1>3. CASE PassUp \/ UpEnds \/ PassDown \/ Exchange
    BY <1>3, PassUpKeeps, UpEndsKeeps, PassDownKeeps, ExchangeKeeps
  <1>4. CASE NothingSwapped \/ Gather
    BY <1>4, NothingSwappedKeeps, GatherKeeps
  <1>5. CASE NextElement \/ Sink \/ SinkEnds \/ InsertEnds
    BY <1>5, NextElementKeeps, SinkStepKeeps, SinkEndsKeeps, InsertEndsKeeps
  <1>6. CASE QsortReturns
    BY <1>6 DEF QsortReturns, SortInv
  <1>7. CASE UNCHANGED sortVars
    <2>1. SamePart /\ UNCHANGED <<array, at, pa, pb, pc, pd, swap_cnt, pm, pl>>
      BY <1>7 DEF sortVars, SamePart
    <2>2. /\ (IsArray)' = IsArray /\ Sorts(array, todo)' = Sorts(array, todo)
          /\ PartitionInv' = PartitionInv /\ InsertInv' = InsertInv /\ SinkInv' = SinkInv /\ Dom' = Dom
      BY <2>1, SameParts DEF PartitionInv, InsertInv, SinkInv
    <2>3. QED
      BY <2>1, <2>2 DEF SortInv, SamePart
  <1>8. QED
    BY <1>1, <1>2, <1>3, <1>4, <1>5, <1>6, <1>7 DEF QsortNext, Turn

CountOf(b, D, x) == Cardinality({j \in D : b[j] = x})

(* The same elements as often. *)
LEMMA SameElements ==
  ASSUME NEW b, NEW c, NEW D, IsFiniteSet(D), Shuffled(b, c, D, D), NEW x
  PROVE  CountOf(c, D, x) = CountOf(b, D, x)
  <1> DEFINE After == {j \in D : c[j] = x}
             Before == {j \in D : b[j] = x}
  <1>1. PICK f : Moves(f, D, D) /\ \A i \in D : c[i] = b[f[i]]
    BY DEF Shuffled
  <1> DEFINE g == [i \in After |-> f[i]]
  <1>2. g \in [After -> Before]
    <2>1. \A i \in After : f[i] \in D /\ b[f[i]] = x
      BY <1>1 DEF Moves
    <2>2. QED
      BY <2>1
  <1>3. ASSUME NEW i \in After, NEW j \in After, g[i] = g[j]
        PROVE  i = j
    <2>1. f[i] = f[j] /\ i \in D /\ j \in D
      BY <1>3
    <2>2. QED
      BY <1>1, <2>1 DEF Moves
  <1>4. ASSUME NEW j \in Before
        PROVE  \E i \in After : g[i] = j
    <2>1. PICK i \in D : f[i] = j
      BY <1>1 DEF Moves
    <2>2. i \in After
      BY <1>1, <2>1
    <2>3. QED
      BY <2>1, <2>2
  <1> HIDE DEF g
  <1>5. g \in Bijection(After, Before)
    <2> HIDE DEF After, Before
    <2>1. QED
      BY <1>2, <1>3, <1>4, Fun_IsBij
  <1>6. IsFiniteSet(After)
    BY FS_Subset
  <1>7. ExistsBijection(After, Before)
    BY <1>5 DEF ExistsBijection
  <1> HIDE DEF After, Before
  <1>8. Cardinality(Before) = Cardinality(After)
    BY <1>6, <1>7, FS_Bijection
  <1>9. QED
    BY <1>8 DEF After, Before, CountOf

LEMMA DoneSorted ==
  ASSUME SortInv, at = "done"
  PROVE  Sorted(given, array)
  <1>1. IsArray /\ Shuffled(given, array, Dom, Dom) /\ Settled(array, Dom, <<>>, {})
    BY DEF SortInv
  <1>2. DOMAIN array = Dom /\ IsFiniteSet(Dom)
    <2>1. PICK n \in Nat : Dom = 0 .. n - 1
      BY <1>1 DEF IsArray
    <2>2. IsFiniteSet(0 .. n - 1)
      BY FS_Interval
    <2>3. QED
      BY <1>1, <2>1, <2>2 DEF Shuffled, Arr
  <1>3. \A i, j \in Dom : i < j => array[i] <= array[j]
    <2>1. \A i, j : ~Together(<<>>, i, j)
      BY DEF Together
    <2>2. QED
      BY <1>1, <2>1 DEF Settled
  <1>4. ASSUME NEW x
        PROVE  CountOf(array, Dom, x) = CountOf(given, Dom, x)
    <2>1. IsFiniteSet(Dom) /\ Shuffled(given, array, Dom, Dom)
      BY <1>1, <1>2
    <2>2. QED
      BY <2>1, SameElements
  <1>5. \A i \in Dom : Cardinality({j \in Dom : array[j] = given[i]}) = Cardinality({j \in Dom : given[j] = given[i]})
    BY <1>4 DEF CountOf
  <1>6. QED
    BY <1>2, <1>3, <1>5 DEF Sorted, Dom

(***************************************************************************)
(* Less is left to do with every step.                                     *)
(***************************************************************************)

Elements(parts) == UNION {Span(parts[k]) : k \in DOMAIN parts}

LEMMA ElementsExact ==
  ASSUME NEW parts \in Seq(PartType), NEW i
  PROVE  i \in Elements(parts) <=> Together(parts, i, i)
  <1>1. DOMAIN parts = 1 .. Len(parts)
    OBVIOUS
  <1>2. QED
    BY <1>1 DEF Elements, Together

LEMMA ElementsFinite ==
  ASSUME NEW D, IsFiniteSet(D), NEW parts, Parts(parts, D)
  PROVE  Elements(parts) \subseteq D /\ IsFiniteSet(Elements(parts)) /\ Cardinality(Elements(parts)) \in Nat
  <1>1. parts \in Seq(PartType) /\ DOMAIN parts = 1 .. Len(parts)
    BY DEF Parts
  <1>2. Elements(parts) \subseteq D
    BY <1>1 DEF Elements, Parts
  <1>3. IsFiniteSet(Elements(parts))
    BY <1>2, FS_Subset
  <1>4. QED
    BY <1>2, <1>3, FS_CardinalityType

LEMMA ElementsFewer ==
  ASSUME NEW D, IsFiniteSet(D), NEW parts, NEW rest, Parts(parts, D), Parts(rest, D), NEW m,
         \A i : Together(rest, i, i) => Together(parts, i, i), Together(parts, m, m), ~Together(rest, m, m)
  PROVE  Cardinality(Elements(rest)) < Cardinality(Elements(parts))
  <1>1. parts \in Seq(PartType) /\ rest \in Seq(PartType)
    BY DEF Parts
  <1>2. /\ \A i : i \in Elements(parts) <=> Together(parts, i, i)
        /\ \A i : i \in Elements(rest) <=> Together(rest, i, i)
    BY <1>1, ElementsExact
  <1>3. Elements(rest) \in SUBSET Elements(parts) /\ Elements(rest) # Elements(parts)
    BY <1>2
  <1>4. /\ IsFiniteSet(Elements(parts)) /\ Cardinality(Elements(parts)) \in Nat
        /\ Cardinality(Elements(rest)) \in Nat
    BY ElementsFinite
  <1>5. /\ Cardinality(Elements(rest)) <= Cardinality(Elements(parts))
        /\ Cardinality(Elements(parts)) = Cardinality(Elements(rest)) => Elements(parts) = Elements(rest)
    BY <1>3, <1>4, FS_Subset
  <1>6. QED
    BY <1>3, <1>4, <1>5

LEMMA UnsortedElements == Unsorted = Elements(todo) /\ Unsorted' = Elements(todo')
  BY Zenon DEF Unsorted, Elements, Span

LEMMA DomFinite ==
  ASSUME IsArray
  PROVE  IsFiniteSet(Dom)
  <1>1. PICK n \in Nat : Dom = 0 .. n - 1
    BY DEF IsArray
  <1>2. IsFiniteSet(0 .. n - 1)
    BY FS_Interval
  <1>3. QED
    BY <1>1, <1>2

LEMMA UnsortedCount ==
  ASSUME IsArray, NEW b, Sorts(b, todo)
  PROVE  Cardinality(Unsorted) \in Nat
  <1>1. CASE Parts(todo, Dom)
    BY <1>1, DomFinite, ElementsFinite, UnsortedElements
  <1>2. CASE todo = <<Part(0, 0)>>
    <2>1. DOMAIN todo = {1} /\ todo[1] = Part(0, 0)
      BY <1>2
    <2>2. Span(Part(0, 0)) = {}
      BY DEF Span, Part
    <2>3. Elements(todo) = {}
      BY <2>1, <2>2 DEF Elements
    <2>4. QED
      BY <2>3, UnsortedElements, FS_EmptySet
  <1>3. QED
    BY <1>1, <1>2 DEF Sorts

Tuples == Nat \X Nat \X Nat \X Nat

LEMMA FewerTuples ==
  ASSUME NEW x1 \in Nat, NEW x2 \in Nat, NEW x3 \in Nat, NEW x4 \in Nat,
         NEW y1 \in Nat, NEW y2 \in Nat, NEW y3 \in Nat, NEW y4 \in Nat,
         \/ y1 < x1
         \/ y1 = x1 /\ y2 < x2
         \/ y1 = x1 /\ y2 = x2 /\ y3 < x3
         \/ y1 = x1 /\ y2 = x2 /\ y3 = x3 /\ y4 < x4
  PROVE  Fewer(<<y1, y2, y3, y4>>, <<x1, x2, x3, x4>>) /\ <<y1, y2, y3, y4>> \in Tuples
  <1> DEFINE y == <<y1, y2, y3, y4>>
             x == <<x1, x2, x3, x4>>
  <1>1. y[1] = y1 /\ y[2] = y2 /\ y[3] = y3 /\ y[4] = y4 /\ x[1] = x1 /\ x[2] = x2 /\ x[3] = x3 /\ x[4] = x4
    OBVIOUS
  <1>2. y \in Tuples
    BY DEF Tuples
  <1>3. \E k \in 1 .. 4 : y[k] < x[k] /\ \A j \in 1 .. k - 1 : y[j] = x[j]
    <2> HIDE DEF y, x
    <2>1. CASE y1 < x1
      <3>1. 1 \in 1 .. 4 /\ \A j \in 1 .. 1 - 1 : FALSE
        OBVIOUS
      <3>2. QED
        BY <1>1, <2>1, <3>1
    <2>2. CASE y1 = x1 /\ y2 < x2
      <3>1. 2 \in 1 .. 4 /\ \A j \in 1 .. 2 - 1 : j = 1
        OBVIOUS
      <3>2. QED
        BY <1>1, <2>2, <3>1
    <2>3. CASE y1 = x1 /\ y2 = x2 /\ y3 < x3
      <3>1. 3 \in 1 .. 4 /\ \A j \in 1 .. 3 - 1 : j = 1 \/ j = 2
        OBVIOUS
      <3>2. QED
        BY <1>1, <2>3, <3>1
    <2>4. CASE y1 = x1 /\ y2 = x2 /\ y3 = x3 /\ y4 < x4
      <3>1. 4 \in 1 .. 4 /\ \A j \in 1 .. 4 - 1 : j = 1 \/ j = 2 \/ j = 3
        OBVIOUS
      <3>2. QED
        BY <1>1, <2>4, <3>1
    <2>5. QED
      BY <2>1, <2>2, <2>3, <2>4
  <1>4. QED
    BY <1>2, <1>3 DEF Fewer

Below(x1, x2, x3, x4, y1, y2, y3, y4) ==
  /\ x1 \in Nat /\ x2 \in Nat /\ x3 \in Nat /\ x4 \in Nat
  /\ y1 \in Nat /\ y2 \in Nat /\ y3 \in Nat /\ y4 \in Nat
  /\ \/ y1 < x1
     \/ y1 = x1 /\ y2 < x2
     \/ y1 = x1 /\ y2 = x2 /\ y3 < x3
     \/ y1 = x1 /\ y2 = x2 /\ y3 = x3 /\ y4 < x4

Lessens == Fewer(Work', Work) /\ Work' \in Tuples

LEMMA WorkLessens ==
  ASSUME NEW x1, NEW x2, NEW x3, NEW x4, NEW y1, NEW y2, NEW y3, NEW y4,
         Work = <<x1, x2, x3, x4>>, Work' = <<y1, y2, y3, y4>>,
         Below(x1, x2, x3, x4, y1, y2, y3, y4)
  PROVE  Lessens
  <1>1. Fewer(<<y1, y2, y3, y4>>, <<x1, x2, x3, x4>>) /\ <<y1, y2, y3, y4>> \in Tuples
    BY FewerTuples DEF Below
  <1>2. QED
    BY <1>1, Zenon DEF Lessens

\* What is left in each loop.
WorkIs ==
  /\ at \notin {"idle", "done"} => Cardinality(Unsorted) \in Nat /\ lo \in Nat /\ hi \in Int
       /\ Current.n \in Nat
                                   /\ hi = lo + Current.n - 1
  /\ at = "loop" => Work = <<Cardinality(Unsorted), 3, 0, 0>>
  /\ at = "up" => Work = <<Cardinality(Unsorted), 2, pc - pb + 1, 1>> /\ pc - pb + 1 \in Nat
  /\ at = "down" => Work = <<Cardinality(Unsorted), 2, pc - pb + 1, 0>> /\ pc - pb + 1 \in Nat
  /\ at = "insert" => Work = <<Cardinality(Unsorted), 1, hi + 2 - pm, Current.n>> /\ hi + 2 - pm \in Nat
  /\ at = "sink" => Work = <<Cardinality(Unsorted), 1, hi + 2 - pm, pl - lo>>
                    /\ hi + 2 - pm \in Nat /\ pl - lo \in Nat /\ pm \in Int /\ pl \in Int
  /\ at = "done" => Work = <<0, 0, 0, 0>>

LEMMA WorkExact == SortInv => WorkIs
  <1> SUFFICES ASSUME SortInv
               PROVE  WorkIs
    OBVIOUS
  <1>1. ASSUME at \notin {"idle", "done"}
        PROVE  Cardinality(Unsorted) \in Nat /\ lo \in Nat /\ hi \in Int /\ Current.n \in Nat
               /\ hi = lo + Current.n - 1
    <2>1. IsArray /\ Sorts(array, todo)
      BY <1>1 DEF SortInv
    <2>2. QED
      BY <2>1, UnsortedCount, CurrentPart
  <1>2. at \in {"up", "down"} => pc - pb + 1 \in Nat
    BY InPartition DEF Bounds
  <1>3. at = "insert" => hi + 2 - pm \in Nat
    BY <1>1 DEF SortInv, InsertInv, Inserts
  <1>4. at = "sink" => hi + 2 - pm \in Nat /\ pl - lo \in Nat /\ pm \in Int /\ pl \in Int
    BY <1>1 DEF SortInv, SinkInv
  <1>5. QED
    BY <1>1, <1>2, <1>3, <1>4 DEF Work, WorkIs

LEMMA WorkExactNext == SortInv' => WorkIs'
  BY WorkExact, PTL

(* What has been done is less to do: one step each. *)
LEMMA PartsFewer ==
  ASSUME SortInv, Gather \/ (InsertEnds /\ Current.n # 0)
  PROVE  todo' # <<>> => Cardinality(Unsorted)' \in Nat /\ Cardinality(Unsorted)' < Cardinality(Unsorted)
  <1>1. CASE Gather
    <2>1. /\ Parts(todo, Dom) /\ Parts(Remaining, Dom)
          /\ Parts(Rest, Dom) /\ ApartFrom(Rest, lo .. hi)
          /\ \A i, j : Together(Remaining, i, j) <=>
               \/ Together(Rest, i, j)
               \/ pd - pc > 1 /\ i \in Span(Greater) /\ j \in Span(Greater)
               \/ pb - pa > 1 /\ i \in Span(Lesser) /\ j \in Span(Lesser)
          /\ Span(Lesser) \subseteq lo .. hi /\ Span(Greater) \subseteq lo .. hi
          /\ lo + (pb - pa) \in lo .. hi
          /\ lo + (pb - pa) \notin Span(Lesser) /\ lo + (pb - pa) \notin Span(Greater)
      BY <1>1, RemainingExact
    <2>2. GoOn(Remaining) /\ IsArray /\ Sorts(array, todo)
      BY <1>1, Gathers
    <2> DEFINE m == lo + (pb - pa)
    <2>3. Rest = Front(todo) /\ Current = Last(todo) /\ Span(Current) = lo .. hi
      BY Zenon DEF Rest, Front, Current, Last, Span, lo, hi
    <2>4. \A i, j : Together(todo, i, j) <=> Together(Rest, i, j) \/ (i \in lo .. hi /\ j \in lo .. hi)
      BY <2>1, <2>2, <2>3, FrontTogether DEF Sorts
    <2>5. ~Together(Rest, m, m)
      BY <2>1 DEF ApartFrom, Together
    <2>6. Together(todo, m, m) /\ ~Together(Remaining, m, m)
      BY <2>1, <2>4, <2>5
    <2>7. \A i : Together(Remaining, i, i) => Together(todo, i, i)
      BY <2>1, <2>4
    <2>8. IsFiniteSet(Dom)
      BY <2>2, DomFinite
    <2> HIDE DEF m
    <2>9. Cardinality(Elements(Remaining)) < Cardinality(Elements(todo))
      BY <2>1, <2>6, <2>7, <2>8, ElementsFewer
    <2>10. Cardinality(Elements(Remaining)) \in Nat
      BY <2>1, <2>8, ElementsFinite
    <2>11. Unsorted = Elements(todo) /\ Unsorted' = Elements(todo')
      BY UnsortedElements
    <2>12. todo' = Remaining
      BY <2>2 DEF GoOn
    <2>13. QED
      BY <2>9, <2>10, <2>11, <2>12
  <1>2. CASE InsertEnds /\ Current.n # 0
    <2>1. GoOn(Rest) /\ at = "insert"
      BY <1>2 DEF InsertEnds
    <2>2. IsArray /\ Sorts(array, todo)
      BY <2>1 DEF SortInv
    <2>3. lo \in Nat /\ hi \in Int /\ lo .. hi \subseteq Dom /\ lo \in lo .. hi
      BY <1>2, <2>2, CurrentPart
    <2>4. Parts(todo, Dom) /\ todo # <<>>
      BY <2>2, <2>3 DEF Sorts
    <2>5. Rest = Front(todo) /\ Current = Last(todo) /\ Span(Current) = lo .. hi
      BY Zenon DEF Rest, Front, Current, Last, Span, lo, hi
    <2>6. \A i, j : Together(todo, i, j) <=> Together(Rest, i, j) \/ (i \in lo .. hi /\ j \in lo .. hi)
      BY <2>4, <2>5, FrontTogether
    <2>7. Parts(Rest, Dom) /\ ~Together(Rest, lo, lo)
      BY <2>3, <2>4, <2>5, FrontParts DEF Together
    <2>8. IsFiniteSet(Dom)
      BY <2>2, DomFinite
    <2>9. Together(todo, lo, lo) /\ \A i : Together(Rest, i, i) => Together(todo, i, i)
      BY <2>3, <2>6
    <2>10. Cardinality(Elements(Rest)) < Cardinality(Elements(todo))
      BY <2>4, <2>7, <2>8, <2>9, ElementsFewer
    <2>11. Cardinality(Elements(Rest)) \in Nat
      BY <2>7, <2>8, ElementsFinite
    <2>12. Unsorted = Elements(todo) /\ Unsorted' = Elements(todo')
      BY UnsortedElements
    <2>13. todo' = Rest
      BY <2>1 DEF GoOn
    <2>14. QED
      BY <2>10, <2>11, <2>12, <2>13
  <1>3. QED
    BY <1>1, <1>2

LEMMA StepLessens ==
  ASSUME SortInv, SortInv', at \notin {"idle", "done"}, Turn
  PROVE  Lessens
  <1> DEFINE N == Cardinality(Unsorted)
  <1>1. /\ N \in Nat /\ lo \in Nat /\ hi \in Int /\ Current.n \in Nat
        /\ hi = lo + Current.n - 1
        /\ at = "loop" => Work = <<N, 3, 0, 0>>
        /\ at = "up" => Work = <<N, 2, pc - pb + 1, 1>> /\ pc - pb + 1 \in Nat
        /\ at = "down" => Work = <<N, 2, pc - pb + 1, 0>> /\ pc - pb + 1 \in Nat
        /\ at = "insert" => Work = <<N, 1, hi + 2 - pm, Current.n>> /\ hi + 2 - pm \in Nat
        /\ at = "sink" => Work = <<N, 1, hi + 2 - pm, pl - lo>>
                          /\ hi + 2 - pm \in Nat /\ pl - lo \in Nat /\ pm \in Int /\ pl \in Int
    BY WorkExact DEF WorkIs
  <1>2. /\ at' \notin {"idle", "done"} => N' \in Nat
        /\ at' = "loop" => Work' = <<N', 3, 0, 0>>
        /\ at' = "up" => Work' = <<N', 2, pc' - pb' + 1, 1>> /\ pc' - pb' + 1 \in Nat
        /\ at' = "down" => Work' = <<N', 2, pc' - pb' + 1, 0>> /\ pc' - pb' + 1 \in Nat
        /\ at' = "insert" => Work' = <<N', 1, hi' + 2 - pm', (Current').n>> /\ hi' + 2 - pm' \in Nat
        /\ at' = "sink" => Work' = <<N', 1, hi' + 2 - pm', pl' - lo'>>
                           /\ hi' + 2 - pm' \in Nat /\ pl' - lo' \in Nat
        /\ at' = "done" => Work' = <<0, 0, 0, 0>>
    BY WorkExactNext DEF WorkIs
  <1>3. SamePart => N' = N /\ lo' = lo /\ hi' = hi /\ Current' = Current
    BY SameParts DEF SamePart, Unsorted
  <1> HIDE DEF N
  <1>4. N \in Nat /\ Current.n \in Nat
    BY <1>1
  <1>5. at \in {"loop", "up", "down", "insert", "sink"}
    BY DEF SortInv
  <1>6. at \in {"up", "down"} => pb \in Int /\ pc \in Int
    BY InPartition DEF Bounds
  <1>7. CASE FewElements
    <2>1. at = "loop" /\ at' = "insert" /\ SamePart
      BY <1>7 DEF FewElements, SamePart
    <2>2. Work = <<N, 3, 0, 0>> /\ Work' = <<N, 1, hi + 2 - pm', Current.n>> /\ hi + 2 - pm' \in Nat
      BY <1>1, <1>2, <1>3, <2>1
    <2>3. QED
      BY <1>4, <2>2, WorkLessens DEF Below
  <1>8. CASE ChoosePivot
    <2>1. at = "loop" /\ at' = "up" /\ SamePart
      BY <1>8 DEF ChoosePivot, SamePart
    <2>2. Work = <<N, 3, 0, 0>> /\ Work' = <<N, 2, pc' - pb' + 1, 1>> /\ pc' - pb' + 1 \in Nat
      BY <1>1, <1>2, <1>3, <2>1
    <2>3. QED
      BY <1>4, <2>2, WorkLessens DEF Below
  <1>9. CASE PassUp
    <2>1. at = "up" /\ at' = "up" /\ SamePart /\ pb' = pb + 1 /\ pc' = pc
      BY <1>9 DEF PassUp, SamePart
    <2>2. /\ Work = <<N, 2, pc - pb + 1, 1>> /\ Work' = <<N, 2, pc' - pb' + 1, 1>>
          /\ pc - pb + 1 \in Nat /\ pc' - pb' + 1 \in Nat /\ pc' - pb' + 1 < pc - pb + 1
      BY <1>1, <1>2, <1>3, <1>6, <2>1
    <2>3. QED
      BY <1>4, <2>2, WorkLessens DEF Below
  <1>10. CASE UpEnds
    <2>1. at = "up" /\ at' = "down" /\ SamePart /\ pb' = pb /\ pc' = pc
      BY <1>10 DEF UpEnds, SamePart, partition
    <2>2. /\ Work = <<N, 2, pc - pb + 1, 1>> /\ Work' = <<N, 2, pc - pb + 1, 0>> /\ pc - pb + 1 \in Nat
      BY <1>1, <1>2, <1>3, <2>1
    <2>3. QED
      BY <1>4, <2>2, WorkLessens DEF Below
  <1>11. CASE PassDown
    <2>1. at = "down" /\ at' = "down" /\ SamePart /\ pb' = pb /\ pc' = pc - 1
      BY <1>11 DEF PassDown, SamePart
    <2>2. /\ Work = <<N, 2, pc - pb + 1, 0>> /\ Work' = <<N, 2, pc' - pb' + 1, 0>>
          /\ pc - pb + 1 \in Nat /\ pc' - pb' + 1 \in Nat /\ pc' - pb' + 1 < pc - pb + 1
      BY <1>1, <1>2, <1>3, <1>6, <2>1
    <2>3. QED
      BY <1>4, <2>2, WorkLessens DEF Below
  <1>12. CASE Exchange
    <2>1. at = "down" /\ at' = "up" /\ SamePart /\ pb' = pb + 1 /\ pc' = pc - 1
      BY <1>12 DEF Exchange, SamePart
    <2>2. /\ Work = <<N, 2, pc - pb + 1, 0>> /\ Work' = <<N, 2, pc' - pb' + 1, 1>>
          /\ pc - pb + 1 \in Nat /\ pc' - pb' + 1 \in Nat /\ pc' - pb' + 1 < pc - pb + 1
      BY <1>1, <1>2, <1>3, <1>6, <2>1
    <2>3. QED
      BY <1>4, <2>2, WorkLessens DEF Below
  <1>13. CASE NothingSwapped
    <2>1. at = "down" /\ at' = "insert" /\ SamePart
      BY <1>13 DEF NothingSwapped, SamePart
    <2>2. /\ Work = <<N, 2, pc - pb + 1, 0>> /\ pc - pb + 1 \in Nat
          /\ Work' = <<N, 1, hi + 2 - pm', Current.n>> /\ hi + 2 - pm' \in Nat
      BY <1>1, <1>2, <1>3, <2>1
    <2>3. QED
      BY <1>4, <2>2, WorkLessens DEF Below
  <1>14. CASE Gather
    <2>1. at = "down" /\ (at' = "loop" \/ at' = "done") /\ (at' = "loop" => todo' # <<>>)
      <3>1. at = "down" /\ \E parts : GoOn(parts)
        BY <1>14 DEF Gather
      <3>2. QED
        BY <3>1 DEF GoOn
    <2>2. Work = <<N, 2, pc - pb + 1, 0>> /\ pc - pb + 1 \in Nat
      BY <1>1, <2>1
    <2>3. CASE at' = "loop"
      <3>1. N' \in Nat /\ N' < N
        BY <1>14, <2>1, <2>3, PartsFewer DEF N
      <3>2. Work' = <<N', 3, 0, 0>>
        BY <1>2, <2>3
      <3>3. QED
        BY <1>4, <2>2, <3>1, <3>2, WorkLessens DEF Below
    <2>4. CASE at' = "done"
      <3>1. Work' = <<0, 0, 0, 0>>
        BY <1>2, <2>4
      <3>2. QED
        BY <1>4, <2>2, <3>1, WorkLessens DEF Below
    <2>5. QED
      BY <2>1, <2>3, <2>4
  <1>15. CASE NextElement
    <2>1. at = "insert" /\ at' = "sink" /\ SamePart /\ pl' = pm /\ pm' = pm /\ pm <= hi
      BY <1>15 DEF NextElement, SamePart
    <2>2. /\ Work = <<N, 1, hi + 2 - pm, Current.n>> /\ hi + 2 - pm \in Nat
          /\ Work' = <<N, 1, hi + 2 - pm, pm - lo>> /\ pm - lo \in Nat
      BY <1>1, <1>2, <1>3, <2>1
    <2>3. pm \in Int
      BY <2>1 DEF SortInv, InsertInv, Inserts
    <2>4. pm - lo < Current.n
      BY <1>1, <2>1, <2>3
    <2>5. QED
      BY <1>4, <2>2, <2>4, WorkLessens DEF Below
  <1>16. CASE Sink
    <2>1. at = "sink" /\ at' = "sink" /\ SamePart /\ pl' = pl - 1 /\ pm' = pm
      BY <1>16 DEF Sink, SamePart
    <2>2. /\ Work = <<N, 1, hi + 2 - pm, pl - lo>> /\ hi + 2 - pm \in Nat /\ pl - lo \in Nat
          /\ Work' = <<N, 1, hi + 2 - pm, pl' - lo>> /\ pl' - lo \in Nat /\ pl' - lo < pl - lo
      BY <1>1, <1>2, <1>3, <2>1
    <2>3. QED
      BY <1>4, <2>2, WorkLessens DEF Below
  <1>17. CASE SinkEnds
    <2>1. at = "sink" /\ at' = "insert" /\ SamePart /\ pm' = pm + 1
      BY <1>17 DEF SinkEnds, SamePart
    <2>2. /\ Work = <<N, 1, hi + 2 - pm, pl - lo>> /\ hi + 2 - pm \in Nat /\ pl - lo \in Nat
          /\ Work' = <<N, 1, hi + 2 - pm', Current.n>> /\ hi + 2 - pm' \in Nat /\ hi + 2 - pm' < hi + 2 - pm
      BY <1>1, <1>2, <1>3, <2>1
    <2>3. QED
      BY <1>4, <2>2, WorkLessens DEF Below
  <1>18. CASE InsertEnds
    <2>1. at = "insert" /\ (at' = "loop" \/ at' = "done") /\ (at' = "loop" => todo' # <<>>) /\ todo' = Rest
      BY <1>18 DEF InsertEnds, GoOn
    <2>2. Work = <<N, 1, hi + 2 - pm, Current.n>> /\ hi + 2 - pm \in Nat
      BY <1>1, <2>1
    <2>3. CASE at' = "loop"
      <3>1. Current.n # 0
        <4>1. Sorts(array, todo)
          BY <2>1 DEF SortInv
        <4>2. CASE Parts(todo, Dom)
          <5>1. Current = Last(todo)
            BY Zenon DEF Current, Last
          <5>2. Current \in PartType
            BY <4>1, <4>2, <5>1, FrontExact DEF Sorts
          <5>3. QED
            BY <5>2 DEF PartType
        <4>3. CASE todo = <<Part(0, 0)>>
          <5>1. Rest = <<>>
            BY <4>3 DEF Rest
          <5>2. QED
            BY <2>1, <2>3, <5>1
        <4>4. QED
          BY <4>1, <4>2, <4>3 DEF Sorts
      <3>2. N' \in Nat /\ N' < N
        BY <1>18, <2>1, <2>3, <3>1, PartsFewer DEF N
      <3>3. Work' = <<N', 3, 0, 0>>
        BY <1>2, <2>3
      <3>4. QED
        BY <1>4, <2>2, <3>2, <3>3, WorkLessens DEF Below
    <2>4. CASE at' = "done"
      <3>1. Work' = <<0, 0, 0, 0>>
        BY <1>2, <2>4
      <3>2. QED
        BY <1>4, <2>2, <3>1, WorkLessens DEF Below
    <2>5. QED
      BY <2>1, <2>3, <2>4
  <1>19. ~QsortReturns
    BY DEF QsortReturns
  <1>20. QED
    BY <1>7, <1>8, <1>9, <1>10, <1>11, <1>12, <1>13, <1>14, <1>15, <1>16, <1>17, <1>18, <1>19 DEF Turn

(* qsort sorts arrays of any length and of any keys, whatever the lengths  *)
(* are that count as short and as long, and every turn of its loops leaves *)
(* less to do, so that it ends (qsort.c:100-182).                          *)
THEOREM SortCorrect == QsortSpec => SortExact
  <1> DEFINE SortedDone == at = "done" => Sorted(given, array)
             LessLeft == at \notin {"idle", "done"} =>
                        Fewer(Work', Work) /\ Work' \in Nat \X Nat \X Nat \X Nat
  <1>1. SortInv => SortedDone
    BY DoneSorted
  <1>2. SortInv /\ [QsortNext]_sortVars => SortInv'
    BY SortInvNext
  <1>3. SortInv /\ SortInv' /\ [QsortNext]_sortVars => [LessLeft]_sortVars
    <2> SUFFICES ASSUME SortInv, SortInv', QsortNext, at \notin {"idle", "done"}
                 PROVE  Fewer(Work', Work) /\ Work' \in Nat \X Nat \X Nat \X Nat
      BY DEF sortVars
    <2>1. Turn
      BY DEF QsortNext, Qsort
    <2>2. QED
      BY <2>1, StepLessens DEF Lessens, Tuples
  <1>4. QED
    BY <1>1, <1>2, <1>3, SortInvInit, PTL DEF QsortSpec, SortExact

(***************************************************************************)
(* Memory and strings.                                                     *)
(***************************************************************************)

USE CharAssumption

Mem(m, size) == size \in Nat /\ m \in [0 .. size - 1 -> Char]

LEMMA SizeExact ==
  ASSUME NEW m, NEW size, Mem(m, size)
  PROVE  Size(m) = size /\ DOMAIN m = 0 .. size - 1
  <1>1. size \in Nat /\ DOMAIN m = 0 .. size - 1
    BY DEF Mem
  <1>2. Cardinality(0 .. size - 1) = IF 0 > size - 1 THEN 0 ELSE size - 1 - 0 + 1
    BY <1>1, FS_Interval
  <1>3. QED
    BY <1>1, <1>2 DEF Size

LEMMA MemoryExact ==
  ASSUME NEW m \in Memory
  PROVE  Mem(m, Size(m))
  <1>1. PICK size \in Nat : m \in [0 .. size - 1 -> Char]
    BY DEF Memory
  <1>2. Mem(m, size)
    BY <1>1 DEF Mem
  <1>3. QED
    BY <1>2, SizeExact

(* What the loops find is where they end, and there is no other place.     *)
IsScan(m, s, C, r) == r \in DOMAIN m /\ r >= s /\ m[r] \in C /\ \A q \in s .. r - 1 : m[q] \notin C

LEMMA ScanExact ==
  ASSUME NEW m, NEW size, Mem(m, size), NEW s \in Int, NEW C, NEW r, IsScan(m, s, C, r)
  PROVE  Scan(m, s, C) = r
  <1>1. \A q \in DOMAIN m : q \in Int
    BY DEF Mem
  <1>2. ASSUME NEW q, IsScan(m, s, C, q)
        PROVE  q = r
    <2>1. q \in Int /\ r \in Int /\ ~(q \in s .. r - 1) /\ ~(r \in s .. q - 1) /\ q >= s /\ r >= s
      BY <1>1, <1>2 DEF IsScan
    <2>2. QED
      BY <2>1
  <1>3. Scan(m, s, C) = CHOOSE q \in DOMAIN m : q >= s /\ m[q] \in C /\ \A k \in s .. q - 1 : m[k] \notin C
    BY DEF Scan
  <1>4. QED
    BY <1>2, <1>3 DEF IsScan

IsWithin(m, s, n, C, i) == i \in 0 .. n /\ (i = n \/ m[s + i] \in C)
  /\ \A k \in 0 .. i - 1 : m[s + k] \notin C

LEMMA WithinExact ==
  ASSUME NEW m, NEW s, NEW n \in Nat, NEW C, NEW i, IsWithin(m, s, n, C, i)
  PROVE  Within(m, s, n, C) = i
  <1>1. ASSUME NEW j, IsWithin(m, s, n, C, j)
        PROVE  j = i
    <2>1. j \in 0 .. n /\ i \in 0 .. n
      BY <1>1 DEF IsWithin
    <2>2. j < i => j # n /\ j \in 0 .. i - 1
      BY <2>1
    <2>3. i < j => i # n /\ i \in 0 .. j - 1
      BY <2>1
    <2>4. ~(j < i) /\ ~(i < j)
      BY <1>1, <2>2, <2>3 DEF IsWithin
    <2>5. QED
      BY <2>1, <2>4
  <1>2. Within(m, s, n, C) =
          CHOOSE j \in 0 .. n : (j = n \/ m[s + j] \in C) /\ \A k \in 0 .. j - 1 : m[s + k] \notin C
    BY DEF Within
  <1>3. QED
    BY <1>1, <1>2 DEF IsWithin

Unlike(m, s1, s2, C, i) == m[s1 + i] # m[s2 + i] \/ m[s1 + i] \in C

IsDiffers(m, s1, s2, n, C, i) ==
  /\ i \in 0 .. n
  /\ i = n \/ Unlike(m, s1, s2, C, i)
  /\ \A k \in 0 .. i - 1 : ~Unlike(m, s1, s2, C, k)

LEMMA DiffersExact ==
  ASSUME NEW m, NEW s1, NEW s2, NEW n \in Nat, NEW C, NEW i, IsDiffers(m, s1, s2, n, C, i)
  PROVE  Differs(m, s1, s2, n, C) = i
  <1>1. ASSUME NEW j, IsDiffers(m, s1, s2, n, C, j)
        PROVE  j = i
    <2>1. j \in 0 .. n /\ i \in 0 .. n
      BY <1>1 DEF IsDiffers
    <2>2. j < i => j # n /\ j \in 0 .. i - 1
      BY <2>1
    <2>3. i < j => i # n /\ i \in 0 .. j - 1
      BY <2>1
    <2>4. ~(j < i) /\ ~(i < j)
      BY <1>1, <2>2, <2>3 DEF IsDiffers
    <2>5. QED
      BY <2>1, <2>4
  <1>2. Differs(m, s1, s2, n, C) =
          CHOOSE j \in 0 .. n :
            /\ j = n \/ m[s1 + j] # m[s2 + j] \/ m[s1 + j] \in C
            /\ \A k \in 0 .. j - 1 : m[s1 + k] = m[s2 + k] /\ m[s1 + k] \notin C
    BY DEF Differs
  <1>3. \A j : IsDiffers(m, s1, s2, n, C, j) <=>
                 /\ j \in 0 .. n
                 /\ j = n \/ m[s1 + j] # m[s2 + j] \/ m[s1 + j] \in C
                 /\ \A k \in 0 .. j - 1 : m[s1 + k] = m[s2 + k] /\ m[s1 + k] \notin C
    BY Zenon DEF IsDiffers, Unlike
  <1>4. QED
    BY <1>1, <1>2, <1>3

\* The first number up to n of a set, or n.
IsFirst(S, n, i) == i \in 0 .. n /\ (i = n \/ i \in S) /\ \A k \in 0 .. i - 1 : k \notin S

LEMMA FirstExists ==
  ASSUME NEW S, NEW n \in Nat
  PROVE  \E i : IsFirst(S, n, i)
  <1> DEFINE R == {i \in 0 .. n : i = n \/ i \in S}
  <1>1. R \in SUBSET Nat /\ n \in R
    OBVIOUS
  <1>2. PICK i \in R : \A j \in R : i <= j
    BY <1>1, Least
  <1>3. \A k \in 0 .. i - 1 : k \in 0 .. n /\ ~(i <= k)
    BY <1>1, <1>2
  <1>4. QED
    BY <1>2, <1>3 DEF IsFirst

LEMMA DiffersExists ==
  ASSUME NEW m, NEW s1, NEW s2, NEW n \in Nat, NEW C
  PROVE  IsDiffers(m, s1, s2, n, C, Differs(m, s1, s2, n, C))
  <1> DEFINE S == {i \in 0 .. n : Unlike(m, s1, s2, C, i)}
  <1>1. PICK i : IsFirst(S, n, i)
    BY FirstExists
  <1>2. \A k \in 0 .. i - 1 : k \in 0 .. n
    BY <1>1 DEF IsFirst
  <1>3. IsDiffers(m, s1, s2, n, C, i)
    BY <1>1, <1>2 DEF IsFirst, IsDiffers
  <1>4. QED
    BY <1>3, DiffersExact

LEMMA WithinExists ==
  ASSUME NEW m, NEW s, NEW n \in Nat, NEW C
  PROVE  IsWithin(m, s, n, C, Within(m, s, n, C))
  <1> DEFINE S == {i \in 0 .. n : m[s + i] \in C}
  <1>1. PICK i : IsFirst(S, n, i)
    BY FirstExists
  <1>2. \A k \in 0 .. i - 1 : k \in 0 .. n
    BY <1>1 DEF IsFirst
  <1>3. IsWithin(m, s, n, C, i)
    BY <1>1, <1>2 DEF IsFirst, IsWithin
  <1>4. QED
    BY <1>3, WithinExact

(***************************************************************************)
(* Copies.                                                                 *)
(***************************************************************************)

\* n characters from s2 on are at s1, too.
Moved(m, s1, s2, n) == [r \in DOMAIN m |-> IF r \in s1 .. s1 + n - 1 THEN m[s2 + (r - s1)] ELSE m[r]]

Copyable(m, size, s1, s2, n) ==
  /\ Mem(m, size) /\ s1 \in Nat /\ s2 \in Nat /\ n \in Nat
  /\ s1 + n <= size /\ s2 + n <= size

LEMMA memcpyExact ==
  ASSUME NEW m, NEW size, NEW s1, NEW s2, NEW n, Copyable(m, size, s1, s2, n), s1 <= s2 \/ s2 + n <= s1
  PROVE  memcpy(m, s1, s2, n) = Moved(m, s1, s2, n)
  <1>1. /\ size \in Nat /\ m \in [0 .. size - 1 -> Char] /\ s1 \in Nat /\ s2 \in Nat /\ n \in Nat
        /\ s1 + n <= size /\ s2 + n <= size
    BY DEF Copyable, Mem
  <1> DEFINE f == [i \in 0 .. n |-> Moved(m, s1, s2, i)]
             Is(g) == g = [i \in 0 .. n |-> IF i = 0 THEN m
                                            ELSE [g[i - 1] EXCEPT ![s1 + i - 1] = g[i - 1][s2 + i - 1]]]
             up == CHOOSE g : Is(g)
  <1>2. Moved(m, s1, s2, 0) = m
    BY <1>1 DEF Moved
  <1>3. ASSUME NEW i \in 1 .. n
        PROVE  Moved(m, s1, s2, i) =
                 [Moved(m, s1, s2, i - 1) EXCEPT ![s1 + i - 1] = Moved(m, s1, s2, i - 1)[s2 + i - 1]]
    <2> DEFINE b == Moved(m, s1, s2, i - 1)
               c == Moved(m, s1, s2, i)
    <2>1. DOMAIN m = 0 .. size - 1
      BY <1>1
    <2>2. s1 + i - 1 \in 0 .. size - 1 /\ s2 + i - 1 \in 0 .. size - 1
      BY <1>1
    <2>3. s2 + i - 1 \notin s1 .. s1 + (i - 1) - 1
      BY <1>1
    <2>4. b[s2 + i - 1] = m[s2 + i - 1]
      BY <2>1, <2>2, <2>3 DEF Moved
    <2>5. ASSUME NEW r \in 0 .. size - 1
          PROVE  c[r] = IF r = s1 + i - 1 THEN m[s2 + i - 1] ELSE b[r]
      <3>1. CASE r = s1 + i - 1
        <4>1. r \in s1 .. s1 + i - 1 /\ s2 + (r - s1) = s2 + i - 1
          BY <1>1, <3>1
        <4>2. c[r] = m[s2 + (r - s1)]
          BY <2>1, <4>1 DEF Moved
        <4>3. QED
          BY <3>1, <4>1, <4>2
      <3>2. CASE r # s1 + i - 1
        <4>1. r \in s1 .. s1 + i - 1 <=> r \in s1 .. s1 + (i - 1) - 1
          BY <1>1, <3>2
        <4>2. QED
          BY <2>1, <3>2, <4>1 DEF Moved
      <3>3. QED
        BY <3>1, <3>2
    <2>6. DOMAIN b = 0 .. size - 1 /\ b = [r \in 0 .. size - 1 |-> b[r]] /\ c = [r \in 0 .. size - 1 |-> c[r]]
      BY <2>1 DEF Moved
    <2> HIDE DEF b, c
    <2>7. c = [b EXCEPT ![s1 + i - 1] = b[s2 + i - 1]]
      BY <2>2, <2>4, <2>5, <2>6
    <2>8. QED
      BY <2>7 DEF b, c
  <1>4. Is(f)
    <2>1. \A i \in 1 .. n : i - 1 \in 0 .. n
      BY <1>1
    <2>2. \A i \in 0 .. n : i # 0 => i \in 1 .. n
      OBVIOUS
    <2>3. \A i \in 0 .. n : f[i] = IF i = 0 THEN m
                                   ELSE [f[i - 1] EXCEPT ![s1 + i - 1] = f[i - 1][s2 + i - 1]]
      BY <1>2, <1>3, <2>1, <2>2
    <2>4. QED
      BY <2>3
  <1>5. Is(up)
    BY <1>4, Zenon
  <1>6. memcpy(m, s1, s2, n) = up[n]
    BY Zenon DEF memcpy
  <1> HIDE DEF up
  <1>7. up[0] = m /\ \A i \in 1 .. n : up[i] = [up[i - 1] EXCEPT ![s1 + i - 1] = up[i - 1][s2 + i - 1]]
    <2>1. 0 \in 0 .. n /\ \A i \in 1 .. n : i \in 0 .. n /\ i # 0
      BY <1>1
    <2>2. QED
      BY <1>5, <2>1
  <1> DEFINE T == {i \in Nat : i <= n => up[i] = Moved(m, s1, s2, i)}
  <1>8. 0 \in T
    BY <1>2, <1>7
  <1>9. ASSUME NEW i \in Nat, i \in T
        PROVE  i + 1 \in T
    <2>1. SUFFICES ASSUME i + 1 <= n
                   PROVE  up[i + 1] = Moved(m, s1, s2, i + 1)
      OBVIOUS
    <2>2. i + 1 \in 1 .. n /\ (i + 1) - 1 = i /\ up[i] = Moved(m, s1, s2, i)
      BY <1>1, <1>9, <2>1
    <2>3. up[i + 1] = [up[i] EXCEPT ![s1 + (i + 1) - 1] = up[i][s2 + (i + 1) - 1]]
      BY <1>7, <2>2
    <2>4. Moved(m, s1, s2, i + 1) =
            [Moved(m, s1, s2, i) EXCEPT ![s1 + (i + 1) - 1] = Moved(m, s1, s2, i)[s2 + (i + 1) - 1]]
      BY <1>3, <2>2
    <2>5. QED
      BY <2>2, <2>3, <2>4
  <1>10. n \in T
    <2> HIDE DEF T
    <2>1. QED
      BY <1>1, <1>8, <1>9, Induction
  <1>11. QED
    BY <1>1, <1>6, <1>10

\* The same after i of the characters have been copied from the end.
MovedDown(m, s1, s2, n, i) ==
  [r \in DOMAIN m |-> IF r \in s1 + n - i .. s1 + n - 1 THEN m[s2 + (r - s1)] ELSE m[r]]

LEMMA CopyDownExact ==
  ASSUME NEW m, NEW size, NEW s1, NEW s2, NEW n, Copyable(m, size, s1, s2, n), s1 > s2
  PROVE  CopyDown(m, s1, s2, n) = Moved(m, s1, s2, n)
  <1>1. /\ size \in Nat /\ m \in [0 .. size - 1 -> Char] /\ s1 \in Nat /\ s2 \in Nat /\ n \in Nat
        /\ s1 + n <= size /\ s2 + n <= size
    BY DEF Copyable, Mem
  <1> DEFINE f == [i \in 0 .. n |-> MovedDown(m, s1, s2, n, i)]
             Is(g) == g = [i \in 0 .. n |-> IF i = 0 THEN m
                                            ELSE [g[i - 1] EXCEPT ![s1 + n - i] = g[i - 1][s2 + n - i]]]
             down == CHOOSE g : Is(g)
  <1>2. MovedDown(m, s1, s2, n, 0) = m
    BY <1>1 DEF MovedDown
  <1>3. ASSUME NEW i \in 1 .. n
        PROVE  MovedDown(m, s1, s2, n, i) =
                 [MovedDown(m, s1, s2, n, i - 1) EXCEPT ![s1 + n - i] = MovedDown(m, s1, s2, n, i - 1)[s2 + n - i]]
    <2> DEFINE b == MovedDown(m, s1, s2, n, i - 1)
               c == MovedDown(m, s1, s2, n, i)
    <2>1. DOMAIN m = 0 .. size - 1
      BY <1>1
    <2>2. s1 + n - i \in 0 .. size - 1 /\ s2 + n - i \in 0 .. size - 1
      BY <1>1
    <2>3. s2 + n - i \notin s1 + n - (i - 1) .. s1 + n - 1
      BY <1>1
    <2>4. b[s2 + n - i] = m[s2 + n - i]
      BY <2>1, <2>2, <2>3 DEF MovedDown
    <2>5. ASSUME NEW r \in 0 .. size - 1
          PROVE  c[r] = IF r = s1 + n - i THEN m[s2 + n - i] ELSE b[r]
      <3>1. CASE r = s1 + n - i
        <4>1. r \in s1 + n - i .. s1 + n - 1 /\ s2 + (r - s1) = s2 + n - i
          BY <1>1, <3>1
        <4>2. c[r] = m[s2 + (r - s1)]
          BY <2>1, <4>1 DEF MovedDown
        <4>3. QED
          BY <3>1, <4>1, <4>2
      <3>2. CASE r # s1 + n - i
        <4>1. r \in s1 + n - i .. s1 + n - 1 <=> r \in s1 + n - (i - 1) .. s1 + n - 1
          BY <1>1, <3>2
        <4>2. QED
          BY <2>1, <3>2, <4>1 DEF MovedDown
      <3>3. QED
        BY <3>1, <3>2
    <2>6. DOMAIN b = 0 .. size - 1 /\ b = [r \in 0 .. size - 1 |-> b[r]] /\ c = [r \in 0 .. size - 1 |-> c[r]]
      BY <2>1 DEF MovedDown
    <2> HIDE DEF b, c
    <2>7. c = [b EXCEPT ![s1 + n - i] = b[s2 + n - i]]
      BY <2>2, <2>4, <2>5, <2>6
    <2>8. QED
      BY <2>7 DEF b, c
  <1>4. Is(f)
    <2>1. \A i \in 1 .. n : i - 1 \in 0 .. n
      BY <1>1
    <2>2. \A i \in 0 .. n : i # 0 => i \in 1 .. n
      OBVIOUS
    <2>3. \A i \in 0 .. n : f[i] = IF i = 0 THEN m
                                   ELSE [f[i - 1] EXCEPT ![s1 + n - i] = f[i - 1][s2 + n - i]]
      BY <1>2, <1>3, <2>1, <2>2
    <2>4. QED
      BY <2>3
  <1>5. Is(down)
    BY <1>4, Zenon
  <1>6. CopyDown(m, s1, s2, n) = down[n]
    BY Zenon DEF CopyDown
  <1> HIDE DEF down
  <1>7. down[0] = m /\ \A i \in 1 .. n : down[i] = [down[i - 1] EXCEPT ![s1 + n - i] = down[i - 1][s2 + n - i]]
    <2>1. 0 \in 0 .. n /\ \A i \in 1 .. n : i \in 0 .. n /\ i # 0
      BY <1>1
    <2>2. QED
      BY <1>5, <2>1
  <1> DEFINE T == {i \in Nat : i <= n => down[i] = MovedDown(m, s1, s2, n, i)}
  <1>8. 0 \in T
    BY <1>2, <1>7
  <1>9. ASSUME NEW i \in Nat, i \in T
        PROVE  i + 1 \in T
    <2>1. SUFFICES ASSUME i + 1 <= n
                   PROVE  down[i + 1] = MovedDown(m, s1, s2, n, i + 1)
      OBVIOUS
    <2>2. i + 1 \in 1 .. n /\ (i + 1) - 1 = i /\ down[i] = MovedDown(m, s1, s2, n, i)
      BY <1>1, <1>9, <2>1
    <2>3. down[i + 1] = [down[i] EXCEPT ![s1 + n - (i + 1)] = down[i][s2 + n - (i + 1)]]
      BY <1>7, <2>2
    <2>4. MovedDown(m, s1, s2, n, i + 1) =
            [MovedDown(m, s1, s2, n, i) EXCEPT ![s1 + n - (i + 1)] = MovedDown(m, s1, s2, n, i)[s2 + n - (i + 1)]]
      BY <1>3, <2>2
    <2>5. QED
      BY <2>2, <2>3, <2>4
  <1>10. n \in T
    <2> HIDE DEF T
    <2>1. QED
      BY <1>1, <1>8, <1>9, Induction
  <1>11. MovedDown(m, s1, s2, n, n) = Moved(m, s1, s2, n)
    BY <1>1 DEF MovedDown, Moved
  <1>12. QED
    BY <1>1, <1>6, <1>10, <1>11

LEMMA memmoveExact ==
  ASSUME NEW m, NEW size, NEW s1, NEW s2, NEW n, Copyable(m, size, s1, s2, n)
  PROVE  memmove(m, s1, s2, n) = Moved(m, s1, s2, n)
  <1>1. s1 \in Nat /\ s2 \in Nat
    BY DEF Copyable
  <1>2. CASE s1 <= s2
    BY <1>2, memcpyExact DEF memmove
  <1>3. CASE s1 > s2
    BY <1>1, <1>3, CopyDownExact DEF memmove
  <1>4. QED
    BY <1>1, <1>2, <1>3

\* The n characters at s are those of a text.
Spells(m, s, n, text) == Len(text) = n /\ \A i \in 1 .. n : text[i] = m[s + i - 1]

LEMMA MovedWritten ==
  ASSUME NEW m, NEW size, NEW s1, NEW s2, NEW n, Copyable(m, size, s1, s2, n),
         NEW text, Spells(m, s2, n, text)
  PROVE  Written(m, Moved(m, s1, s2, n), s1, text)
  <1>1. /\ size \in Nat /\ DOMAIN m = 0 .. size - 1 /\ s1 \in Nat /\ s2 \in Nat /\ n \in Nat
        /\ s1 + n <= size /\ s2 + n <= size
    BY DEF Copyable, Mem
  <1>2. Len(text) = n /\ \A i \in 1 .. n : text[i] = m[s2 + i - 1]
    BY DEF Spells
  <1>3. ASSUME NEW r \in 0 .. size - 1, r \in s1 .. s1 + n - 1
        PROVE  m[s2 + (r - s1)] = text[r - s1 + 1]
    <2>1. r - s1 + 1 \in 1 .. n /\ s2 + (r - s1 + 1) - 1 = s2 + (r - s1)
      BY <1>1, <1>3
    <2>2. QED
      BY <1>2, <2>1
  <1>4. QED
    BY <1>1, <1>2, <1>3 DEF Moved, Written

(***************************************************************************)
(* Strings, and the copies of them.                                        *)
(***************************************************************************)

Str(m, size, s, text) == Mem(m, size) /\ text \in CStrings /\ Holds(m, s, text)

\* Where a string of n characters lies.
Lies(m, size, s, text, n) ==
  /\ size \in Nat /\ DOMAIN m = 0 .. size - 1 /\ s \in Nat
  /\ n \in Nat /\ Len(text) = n /\ s + n + 1 <= size
  /\ \A i \in 1 .. n : text[i] \in 1 .. UCHAR_MAX /\ m[s + i - 1] = text[i]
  /\ \A j \in 0 .. n - 1 : m[s + j] = text[j + 1] /\ m[s + j] # 0
  /\ m[s + n] = 0

LEMMA StringLies ==
  ASSUME NEW m, NEW size, NEW s, NEW text, Str(m, size, s, text)
  PROVE  Lies(m, size, s, text, Len(text))
  <1>1. size \in Nat /\ DOMAIN m = 0 .. size - 1 /\ Size(m) = size
    BY SizeExact DEF Str, Mem
  <1>2. text \in Seq(1 .. UCHAR_MAX) /\ Len(text) \in Nat
          /\ \A i \in 1 .. Len(text) : text[i] \in 1 .. UCHAR_MAX
    BY DEF Str, CStrings
  <1>3. s \in Nat /\ s + (Len(text) + 1) <= size /\ m[s + Len(text)] = 0
          /\ \A i \in 1 .. Len(text) : m[s + i - 1] = text[i]
    BY <1>1 DEF Str, Holds, InMemory
  <1>4. ASSUME NEW j \in 0 .. Len(text) - 1
        PROVE  m[s + j] = text[j + 1] /\ m[s + j] # 0
    <2>1. j + 1 \in 1 .. Len(text) /\ s + (j + 1) - 1 = s + j
      BY <1>2, <1>3
    <2>2. text[j + 1] \in 1 .. UCHAR_MAX
      BY <1>2, <2>1
    <2>3. m[s + j] = text[j + 1]
      BY <1>3, <2>1
    <2>4. QED
      BY <2>2, <2>3
  <1>5. QED
    BY <1>1, <1>2, <1>3, <1>4 DEF Lies

LEMMA strlenExact ==
  ASSUME NEW m, NEW size, NEW s, NEW text, Str(m, size, s, text)
  PROVE  strlen(m, s) = Len(text)
  <1> DEFINE r == s + Len(text)
  <1>1. Lies(m, size, s, text, Len(text))
    BY StringLies
  <1>2. s \in Nat /\ Len(text) \in Nat /\ size \in Nat /\ DOMAIN m = 0 .. size - 1 /\ r + 1 <= size
          /\ r \in Nat /\ r - s = Len(text)
    BY <1>1 DEF Lies
  <1>3. ASSUME NEW q \in s .. r - 1
        PROVE  m[q] # 0
    <2>1. q - s \in 0 .. Len(text) - 1 /\ s + (q - s) = q
      BY <1>2
    <2>2. m[s + (q - s)] # 0
      BY <1>1, <2>1, Zenon DEF Lies
    <2>3. QED
      BY <2>1, <2>2
  <1>4. \A q \in s .. r - 1 : m[q] # 0
    BY <1>3
  <1>5. m[r] = 0 /\ r \in DOMAIN m /\ r >= s
    BY <1>1, <1>2 DEF Lies
  <1> HIDE DEF r
  <1>6. IsScan(m, s, {0}, r)
    BY <1>4, <1>5 DEF IsScan
  <1>7. Scan(m, s, {0}) = r
    BY <1>2, <1>6, ScanExact DEF Str
  <1>8. QED
    BY <1>2, <1>7 DEF strlen

LEMMA WrittenSince ==
  ASSUME NEW m, NEW q, NEW s, NEW text, NEW D, D = DOMAIN m,
         q = [r \in D |-> IF r \in s .. s + Len(text) - 1 THEN text[r - s + 1] ELSE m[r]]
  PROVE  Written(m, q, s, text)
  BY DEF Written

LEMMA strcpyExact ==
  ASSUME NEW m, NEW size, NEW s1 \in Nat, NEW s2, NEW text, Str(m, size, s2, text),
         s1 + Len(text) + 1 <= size, s1 <= s2 \/ s2 + Len(text) + 1 <= s1
  PROVE  /\ strcpy(m, s1, s2) = Moved(m, s1, s2, Len(text) + 1)
         /\ Written(m, strcpy(m, s1, s2), s1, Append(text, 0))
  <1>1. Lies(m, size, s2, text, Len(text))
    BY StringLies
  <1>2. s2 \in Nat /\ Len(text) \in Nat /\ size \in Nat /\ s2 + Len(text) + 1 <= size /\ Mem(m, size)
    BY <1>1 DEF Lies, Str
  <1>3. Copyable(m, size, s1, s2, Len(text) + 1)
    BY <1>2 DEF Copyable
  <1>4. s1 <= s2 \/ s2 + (Len(text) + 1) <= s1
    BY <1>2
  <1>5. memcpy(m, s1, s2, Len(text) + 1) = Moved(m, s1, s2, Len(text) + 1)
    BY <1>3, <1>4, memcpyExact
  <1>6. strcpy(m, s1, s2) = Moved(m, s1, s2, Len(text) + 1)
    BY <1>5, strlenExact DEF strcpy
  <1>7. Spells(m, s2, Len(text) + 1, Append(text, 0))
    <2>1. text \in Seq(1 .. UCHAR_MAX)
      BY DEF Str, CStrings
    <2>2. text \in Seq(Int)
      BY <2>1, CharAssumption
    <2>3. Len(Append(text, 0)) = Len(text) + 1
            /\ \A i \in 1 .. Len(text) + 1 : Append(text, 0)[i] = IF i = Len(text) + 1 THEN 0 ELSE text[i]
      BY <2>2, AppendProperties
    <2>4. ASSUME NEW i \in 1 .. Len(text) + 1
          PROVE  Append(text, 0)[i] = m[s2 + i - 1]
      <3>1. CASE i = Len(text) + 1
        <4>1. s2 + i - 1 = s2 + Len(text) /\ Append(text, 0)[i] = 0
          BY <1>2, <2>3, <3>1
        <4>2. QED
          BY <1>1, <4>1 DEF Lies
      <3>2. CASE i # Len(text) + 1
        <4>1. i \in 1 .. Len(text)
          BY <1>2, <3>2
        <4>2. QED
          BY <1>1, <2>3, <3>2, <4>1 DEF Lies
      <3>3. QED
        BY <3>1, <3>2
    <2>5. QED
      BY <2>3, <2>4 DEF Spells
  <1>8. QED
    BY <1>3, <1>6, <1>7, MovedWritten

Least2(n, k) == IF n < k THEN n ELSE k

LEMMA PrefixExact ==
  ASSUME NEW S, NEW text \in Seq(S), NEW n \in Nat
  PROVE  /\ Prefix(text, n) \in Seq(S)
         /\ Len(Prefix(text, n)) = Least2(n, Len(text))
         /\ \A i \in 1 .. Least2(n, Len(text)) : Prefix(text, n)[i] = text[i]
  <1> DEFINE k == Least2(n, Len(text))
  <1>1. Prefix(text, n) = SubSeq(text, 1, k)
    BY DEF Prefix, Least2
  <1>2. k \in Nat /\ k <= Len(text) /\ Len(text) \in Nat
    BY DEF Least2
  <1> HIDE DEF k
  <1>3. \A i \in 1 .. k : i \in 1 .. Len(text)
    BY <1>2
  <1>4. SubSeq(text, 1, k) = [i \in 1 .. k |-> text[i]]
    BY <1>2, SMT
  <1>5. [i \in 1 .. k |-> text[i]] \in Seq(S) /\ Len([i \in 1 .. k |-> text[i]]) = k
    <2>1. [i \in 1 .. k |-> text[i]] \in [1 .. k -> S]
      BY <1>3
    <2>2. QED
      BY <1>2, <2>1
  <1>6. QED
    BY <1>1, <1>4, <1>5 DEF k

LEMMA WithinString ==
  ASSUME NEW m, NEW size, NEW s, NEW text, Str(m, size, s, text), NEW n \in Nat
  PROVE  Within(m, s, n, {0}) = Least2(n, Len(text))
  <1>1. Lies(m, size, s, text, Len(text))
    BY StringLies
  <1>2. Len(text) \in Nat /\ m[s + Len(text)] = 0
    BY <1>1 DEF Lies
  <1>3. Least2(n, Len(text)) \in 0 .. n /\ (Least2(n, Len(text)) = n \/ Least2(n, Len(text)) = Len(text))
    BY <1>2 DEF Least2
  <1>4. \A k \in 0 .. Least2(n, Len(text)) - 1 : k \in 0 .. Len(text) - 1
    BY <1>2 DEF Least2
  <1>5. \A k \in 0 .. Least2(n, Len(text)) - 1 : m[s + k] \notin {0}
    BY <1>1, <1>4 DEF Lies
  <1>6. IsWithin(m, s, n, {0}, Least2(n, Len(text)))
    BY <1>2, <1>3, <1>5 DEF IsWithin
  <1>7. QED
    BY <1>6, WithinExact

LEMMA strncpyExact ==
  ASSUME NEW m, NEW size, NEW s1 \in Nat, NEW s2, NEW text, Str(m, size, s2, text), NEW n \in Nat,
         s1 + n <= size, s1 <= s2 \/ s2 + Len(text) + 1 <= s1
  PROVE  Written(m, strncpy(m, s1, s2, n), s1, Prefix(text \o Zeros(n), n))
  <1> DEFINE k == Least2(n, Len(text))
             u == Prefix(text \o Zeros(n), n)
             c == Moved(m, s1, s2, k)
             q == memset(c, s1 + k, 0, n - k)
  <1>1. Lies(m, size, s2, text, Len(text)) /\ Mem(m, size)
    BY StringLies DEF Str
  <1>2. s2 \in Nat /\ Len(text) \in Nat /\ size \in Nat /\ s2 + Len(text) + 1 <= size
          /\ DOMAIN m = 0 .. size - 1
    BY <1>1 DEF Lies
  <1>3. k \in Nat /\ k <= n /\ k <= Len(text) /\ (k = n \/ k = Len(text))
    BY <1>2 DEF Least2
  <1>4. strncpy(m, s1, s2, n) = memset(memcpy(m, s1, s2, k), s1 + k, 0, n - k)
    BY WithinString DEF strncpy
  <1>5. u \in Seq(Int) /\ Len(u) = n /\ \A i \in 1 .. n : u[i] = IF i <= k THEN text[i] ELSE 0
    <2>1. text \in Seq(1 .. UCHAR_MAX)
      BY DEF Str, CStrings
    <2>2. text \in Seq(Int)
      BY <2>1, CharAssumption
    <2>3. Zeros(n) \in Seq(Int) /\ Len(Zeros(n)) = n /\ \A i \in 1 .. n : Zeros(n)[i] = 0
      <3>1. Zeros(n) \in [1 .. n -> Int]
        BY DEF Zeros
      <3>2. QED
        BY <3>1 DEF Zeros
    <2> DEFINE w == text \o Zeros(n)
    <2>4. w \in Seq(Int) /\ Len(w) = Len(text) + n
      BY <2>2, <2>3, ConcatProperties
    <2>5. \A i \in 1 .. Len(text) + n : w[i] = IF i <= Len(text) THEN text[i] ELSE Zeros(n)[i - Len(text)]
      BY <2>2, <2>3, ConcatProperties
    <2> HIDE DEF w
    <2>6. Least2(n, Len(w)) = n
      BY <1>2, <2>4 DEF Least2
    <2>7. Len(u) = n /\ u \in Seq(Int) /\ \A i \in 1 .. n : u[i] = w[i]
      BY <2>4, <2>6, PrefixExact DEF w
    <2> HIDE DEF u
    <2>8. ASSUME NEW i \in 1 .. n
          PROVE  u[i] = IF i <= k THEN text[i] ELSE 0
      <3>1. i \in 1 .. Len(text) + n /\ (i <= Len(text) <=> i <= k)
              /\ (~(i <= Len(text)) => i - Len(text) \in 1 .. n)
        BY <1>2, <1>3
      <3> HIDE DEF k
      <3>2. QED
        BY <2>3, <2>5, <2>7, <3>1
    <2>9. QED
      BY <2>7, <2>8
  <1> HIDE DEF k, u
  <1>6. Copyable(m, size, s1, s2, k)
    BY <1>1, <1>2, <1>3 DEF Copyable
  <1>7. s1 <= s2 \/ s2 + k <= s1
    BY <1>2, <1>3
  <1>8. memcpy(m, s1, s2, k) = c
    BY <1>6, <1>7, memcpyExact
  <1>9. DOMAIN c = 0 .. size - 1
    BY <1>2 DEF Moved
  <1>10. ASSUME NEW r \in 0 .. size - 1
         PROVE  q[r] = IF r \in s1 .. s1 + n - 1 THEN u[r - s1 + 1] ELSE m[r]
    <2>1. q[r] = IF r \in s1 + k .. s1 + k + (n - k) - 1 THEN 0 ELSE c[r]
      BY <1>9 DEF memset
    <2>2. c[r] = IF r \in s1 .. s1 + k - 1 THEN m[s2 + (r - s1)] ELSE m[r]
      BY <1>2 DEF Moved
    <2> HIDE DEF q, c
    <2>3. CASE r \in s1 .. s1 + k - 1
      <3>1. r - s1 + 1 \in 1 .. n /\ r - s1 + 1 <= k /\ r - s1 + 1 \in 1 .. Len(text)
              /\ s2 + (r - s1 + 1) - 1 = s2 + (r - s1)
        BY <1>2, <1>3, <2>3
      <3>2. m[s2 + (r - s1)] = text[r - s1 + 1]
        BY <1>1, <3>1 DEF Lies
      <3>3. r \notin s1 + k .. s1 + k + (n - k) - 1 /\ r \in s1 .. s1 + n - 1
        BY <1>3, <2>3
      <3>4. QED
        BY <1>5, <2>1, <2>2, <2>3, <3>1, <3>2, <3>3
    <2>4. CASE r \in s1 + k .. s1 + n - 1
      <3>1. r - s1 + 1 \in 1 .. n /\ ~(r - s1 + 1 <= k) /\ r \in s1 + k .. s1 + k + (n - k) - 1
              /\ r \in s1 .. s1 + n - 1
        BY <1>3, <2>4
      <3>2. QED
        BY <1>5, <2>1, <3>1
    <2>5. CASE r \notin s1 .. s1 + n - 1
      <3>1. r \notin s1 + k .. s1 + k + (n - k) - 1 /\ r \notin s1 .. s1 + k - 1
        BY <1>3, <2>5
      <3>2. QED
        BY <2>1, <2>2, <2>5, <3>1
    <2>6. QED
      BY <1>3, <2>3, <2>4, <2>5
  <1>11. q = [r \in 0 .. size - 1 |-> q[r]]
    BY <1>9 DEF memset
  <1> HIDE DEF q, c
  <1>12. q = [r \in 0 .. size - 1 |-> IF r \in s1 .. s1 + n - 1 THEN u[r - s1 + 1] ELSE m[r]]
    BY <1>10, <1>11
  <1>13. Written(m, q, s1, u)
    BY <1>2, <1>5, <1>12, WrittenSince
  <1>14. QED
    BY <1>4, <1>8, <1>13 DEF q, u

\* A sequence of characters with the zero behind it.
LEMMA Terminated ==
  ASSUME NEW v \in Seq(Int)
  PROVE  /\ Len(Append(v, 0)) = Len(v) + 1
         /\ \A i \in 1 .. Len(v) + 1 : Append(v, 0)[i] = IF i = Len(v) + 1 THEN 0 ELSE v[i]
  BY AppendProperties

\* l characters, k more and one cell.
LEMMA ThreeParts ==
  ASSUME NEW s \in Nat, NEW l \in Nat, NEW k \in Nat, NEW r \in Int
  PROVE  \/ r \in s .. (s + l) - 1
         \/ r \in s + l .. (s + l) + k - 1
         \/ r = (s + l) + k
         \/ r \notin s .. s + (l + k + 1) - 1
  OBVIOUS

\* k characters of s2 and a zero behind the string at s1.
Catenated(m, e, s2, k) ==
  [r \in DOMAIN m |-> IF r \in e .. e + k - 1 THEN m[s2 + (r - e)] ELSE IF r = e + k THEN 0 ELSE m[r]]

LEMMA CatenatedExact ==
  ASSUME NEW m, NEW size, NEW s1, NEW text, Str(m, size, s1, text), NEW s2 \in Nat, NEW k \in Nat,
         NEW w \in Seq(Int), Spells(m, s2, k, w)
  PROVE  Written(m, Catenated(m, s1 + Len(text), s2, k), s1, Append(text \o w, 0))
  <1> DEFINE e == s1 + Len(text)
             u == Append(text \o w, 0)
             n == Len(text) + k + 1
             q == Catenated(m, e, s2, k)
  <1>1. Lies(m, size, s1, text, Len(text))
    BY StringLies
  <1>2. s1 \in Nat /\ Len(text) \in Nat /\ size \in Nat /\ DOMAIN m = 0 .. size - 1
    BY <1>1 DEF Lies
  <1>3. Len(w) = k /\ \A i \in 1 .. k : w[i] = m[s2 + i - 1]
    BY DEF Spells
  <1>4. Len(u) = n /\ \A i \in 1 .. n : u[i] = IF i <= Len(text) THEN text[i]
          ELSE IF i < n THEN w[i - Len(text)] ELSE 0
    <2>1. text \in Seq(1 .. UCHAR_MAX)
      BY DEF Str, CStrings
    <2>2. text \in Seq(Int)
      BY <2>1, CharAssumption
    <2> DEFINE v == text \o w
    <2>3. v \in Seq(Int) /\ Len(v) = Len(text) + k
      BY <1>3, <2>2, ConcatProperties
    <2>4. \A i \in 1 .. Len(text) + k : v[i] = IF i <= Len(text) THEN text[i] ELSE w[i - Len(text)]
      BY <1>3, <2>2, ConcatProperties
    <2> HIDE DEF v
    <2>5. Len(Append(v, 0)) = Len(v) + 1
          /\ \A i \in 1 .. Len(v) + 1 : Append(v, 0)[i] = IF i = Len(v) + 1 THEN 0 ELSE v[i]
      <3>1. v \in Seq(Int)
        BY <2>3
      <3>2. QED
        BY <3>1, Terminated, Zenon
    <2>6. u = Append(v, 0)
      BY DEF v
    <2> HIDE DEF u
    <2>7. \A i \in 1 .. n : (i \in 1 .. Len(v) + 1) /\ (i < n => i \in 1 .. Len(text) + k)
            /\ (i < n <=> i # Len(v) + 1) /\ (i <= Len(text) => i < n)
      BY <1>2, <2>3
    <2>8. \A i \in 1 .. n : u[i] = IF i <= Len(text) THEN text[i] ELSE IF i < n THEN w[i - Len(text)] ELSE 0
      <3> HIDE DEF n
      <3>1. QED
        BY <2>4, <2>5, <2>6, <2>7, Zenon
    <2>9. Len(u) = n
      BY <2>3, <2>5, <2>6
    <2>10. QED
      BY <2>8, <2>9
  <1> HIDE DEF u
  <1>5. ASSUME NEW r \in 0 .. size - 1
        PROVE  q[r] = IF r \in s1 .. s1 + n - 1 THEN u[r - s1 + 1] ELSE m[r]
    <2>1. q[r] = IF r \in e .. e + k - 1 THEN m[s2 + (r - e)] ELSE IF r = e + k THEN 0 ELSE m[r]
      BY <1>2 DEF Catenated
    <2> HIDE DEF q
    <2>2. CASE r \in s1 .. e - 1
      <3>1. r - s1 + 1 \in 1 .. n /\ r - s1 + 1 <= Len(text) /\ r \notin e .. e + k - 1 /\ r # e + k
              /\ r \in s1 .. s1 + n - 1
        BY <1>2, <2>2
      <3>2. r - s1 \in 0 .. Len(text) - 1 /\ s1 + (r - s1) = r
        BY <1>2, <2>2
      <3>3. m[r] = text[r - s1 + 1]
        BY <1>1, <3>2 DEF Lies
      <3>4. QED
        BY <1>4, <2>1, <3>1, <3>3
    <2>3. CASE r \in e .. e + k - 1
      <3>1. /\ r - s1 + 1 \in 1 .. n /\ ~(r - s1 + 1 <= Len(text)) /\ r - s1 + 1 < n /\ r \in s1 .. s1 + n - 1
            /\ (r - s1 + 1) - Len(text) = r - e + 1 /\ r - e + 1 \in 1 .. k
                 /\ s2 + (r - e + 1) - 1 = s2 + (r - e)
        BY <1>2, <2>3
      <3>2. u[r - s1 + 1] = w[r - e + 1]
        BY <1>4, <3>1
      <3>3. QED
        BY <1>3, <2>1, <2>3, <3>1, <3>2
    <2>4. CASE r = e + k
      <3>1. r - s1 + 1 \in 1 .. n /\ ~(r - s1 + 1 <= Len(text)) /\ ~(r - s1 + 1 < n)
              /\ r \in s1 .. s1 + n - 1 /\ r \notin e .. e + k - 1
        BY <1>2, <2>4
      <3>2. QED
        BY <1>4, <2>1, <2>4, <3>1
    <2>5. CASE r \notin s1 .. s1 + n - 1
      <3>1. r \notin e .. e + k - 1 /\ r # e + k
        BY <1>2, <2>5
      <3>2. QED
        BY <2>1, <2>5, <3>1
    <2>6. r \in Int
      OBVIOUS
    <2>7. r \in s1 .. e - 1 \/ r \in e .. e + k - 1 \/ r = e + k \/ r \notin s1 .. s1 + n - 1
      BY <1>2, <2>6, ThreeParts, Zenon
    <2>8. QED
      BY <2>2, <2>3, <2>4, <2>5, <2>7, Zenon
  <1>6. q = [r \in 0 .. size - 1 |-> q[r]]
    BY <1>2 DEF Catenated
  <1> HIDE DEF q
  <1>7. q = [r \in 0 .. size - 1 |-> IF r \in s1 .. s1 + n - 1 THEN u[r - s1 + 1] ELSE m[r]]
    BY <1>5, <1>6
  <1>8. Written(m, q, s1, u)
    BY <1>2, <1>4, <1>7, WrittenSince
  <1>9. QED
    BY <1>8 DEF q, u

LEMMA strcatExact ==
  ASSUME NEW m, NEW size, NEW s1, NEW s2, NEW t1, NEW t2, Str(m, size, s1, t1), Str(m, size, s2, t2),
         s1 + Len(t1) + Len(t2) + 1 <= size, s1 + Len(t1) <= s2 \/ s2 + Len(t2) + 1 <= s1
  PROVE  Written(m, strcat(m, s1, s2), s1, Append(t1 \o t2, 0))
  <1> DEFINE e == s1 + Len(t1)
             k == Len(t2)
  <1>1. Lies(m, size, s1, t1, Len(t1)) /\ Lies(m, size, s2, t2, Len(t2))
    BY StringLies
  <1>2. s1 \in Nat /\ Len(t1) \in Nat /\ size \in Nat /\ DOMAIN m = 0 .. size - 1 /\ s2 \in Nat
          /\ Len(t2) \in Nat
    BY <1>1 DEF Lies
  <1>3. e \in Nat /\ e + k + 1 <= size /\ (e <= s2 \/ s2 + k + 1 <= e)
    BY <1>2
  <1>4. strcat(m, s1, s2) = strcpy(m, e, s2)
    BY strlenExact DEF strcat
  <1> HIDE DEF e
  <1>5. strcpy(m, e, s2) = Moved(m, e, s2, k + 1)
    BY <1>3, strcpyExact
  <1>6. Moved(m, e, s2, k + 1) = Catenated(m, e, s2, k)
    <2>1. m[s2 + k] = 0
      BY <1>1 DEF Lies
    <2>2. ASSUME NEW r \in 0 .. size - 1
          PROVE  (IF r \in e .. e + (k + 1) - 1 THEN m[s2 + (r - e)] ELSE m[r])
                   = IF r \in e .. e + k - 1 THEN m[s2 + (r - e)] ELSE IF r = e + k THEN 0 ELSE m[r]
      <3>1. CASE r = e + k
        <4>1. s2 + (r - e) = s2 + k /\ r \in e .. e + (k + 1) - 1 /\ r \notin e .. e + k - 1
          BY <1>2, <1>3, <3>1
        <4>2. QED
          BY <2>1, <3>1, <4>1
      <3>2. CASE r # e + k
        <4>1. r \in e .. e + (k + 1) - 1 <=> r \in e .. e + k - 1
          BY <1>2, <1>3, <3>2
        <4>2. QED
          BY <3>2, <4>1
      <3>3. QED
        BY <3>1, <3>2
    <2>3. QED
      BY <1>2, <2>2 DEF Moved, Catenated
  <1>7. t2 \in Seq(Int) /\ Spells(m, s2, k, t2)
    <2>1. t2 \in Seq(1 .. UCHAR_MAX)
      BY DEF Str, CStrings
    <2>2. t2 \in Seq(Int)
      BY <2>1, CharAssumption
    <2>3. QED
      BY <1>1, <2>2 DEF Lies, Spells
  <1>8. Written(m, Catenated(m, e, s2, k), s1, Append(t1 \o t2, 0))
    BY <1>2, <1>7, CatenatedExact DEF e
  <1>9. QED
    BY <1>4, <1>5, <1>6, <1>8

LEMMA strncatExact ==
  ASSUME NEW m, NEW size, NEW s1, NEW s2, NEW t1, NEW t2, Str(m, size, s1, t1), Str(m, size, s2, t2),
           NEW n \in Nat,
         s1 + Len(t1) + Len(t2) + 1 <= size, s1 + Len(t1) <= s2 \/ s2 + Len(t2) + 1 <= s1
  PROVE  Written(m, strncat(m, s1, s2, n), s1, Append(t1 \o Prefix(t2, n), 0))
  <1> DEFINE e == s1 + Len(t1)
             k == Least2(n, Len(t2))
             w == Prefix(t2, n)
  <1>1. Lies(m, size, s1, t1, Len(t1)) /\ Lies(m, size, s2, t2, Len(t2)) /\ Mem(m, size)
    BY StringLies DEF Str
  <1>2. s1 \in Nat /\ Len(t1) \in Nat /\ size \in Nat /\ DOMAIN m = 0 .. size - 1 /\ s2 \in Nat
          /\ Len(t2) \in Nat /\ s2 + Len(t2) + 1 <= size
    BY <1>1 DEF Lies
  <1>3. k \in Nat /\ k <= Len(t2)
    BY <1>2 DEF Least2
  <1>4. e \in Nat /\ e + k + 1 <= size /\ (e <= s2 \/ s2 + k <= e) /\ e + k \in 0 .. size - 1
    BY <1>2, <1>3
  <1>5. strncat(m, s1, s2, n) = [memcpy(m, e, s2, k) EXCEPT ![e + k] = 0]
    BY WithinString, strlenExact DEF strncat
  <1>6. t2 \in Seq(Int) /\ w \in Seq(Int) /\ Spells(m, s2, k, w)
    <2>1. t2 \in Seq(1 .. UCHAR_MAX)
      BY DEF Str, CStrings
    <2>2. t2 \in Seq(Int)
      BY <2>1, CharAssumption
    <2>3. w \in Seq(Int) /\ Len(w) = k /\ \A i \in 1 .. k : w[i] = t2[i]
      BY <2>2, PrefixExact
    <2> HIDE DEF w
    <2>4. \A i \in 1 .. k : i \in 1 .. Len(t2)
      BY <1>2, <1>3
    <2>5. QED
      BY <1>1, <2>2, <2>3, <2>4 DEF Lies, Spells
  <1> HIDE DEF e, k, w
  <1>7. Copyable(m, size, e, s2, k)
    BY <1>1, <1>2, <1>3, <1>4 DEF Copyable
  <1>8. memcpy(m, e, s2, k) = Moved(m, e, s2, k)
    BY <1>4, <1>7, memcpyExact
  <1>9. [Moved(m, e, s2, k) EXCEPT ![e + k] = 0] = Catenated(m, e, s2, k)
    <2>1. e + k \notin e .. e + k - 1
      BY <1>3, <1>4
    <2>2. QED
      BY <1>2, <1>4, <2>1 DEF Moved, Catenated
  <1>10. Written(m, Catenated(m, e, s2, k), s1, Append(t1 \o w, 0))
    BY <1>2, <1>3, <1>6, CatenatedExact DEF e
  <1>11. QED
    BY <1>5, <1>8, <1>9, <1>10 DEF w

\* Strings of which the second can be copied behind the first, or over it.
Copies(m, size, s1, s2, t1, t2, n) ==
  /\ Str(m, size, s1, t1) /\ Str(m, size, s2, t2) /\ n \in Nat
  /\ LET room == IF Len(t1) + Len(t2) + 1 > n THEN Len(t1) + Len(t2) + 1 ELSE n
     IN  InMemory(m, s1, room) /\ Apart(s1, room, s2, Len(t2) + 1)

LEMMA CopiesCorrect ==
  ASSUME NEW m, NEW size, NEW s1, NEW s2, NEW t1, NEW t2, NEW n, Copies(m, size, s1, s2, t1, t2, n)
  PROVE  CopiesExact(m, s1, s2, t1, t2, n)
  <1>1. Str(m, size, s1, t1) /\ Str(m, size, s2, t2) /\ n \in Nat /\ Mem(m, size)
    BY DEF Copies, Str
  <1>2. Lies(m, size, s1, t1, Len(t1)) /\ Lies(m, size, s2, t2, Len(t2)) /\ Size(m) = size
    BY <1>1, StringLies, SizeExact
  <1>3. s1 \in Nat /\ Len(t1) \in Nat /\ size \in Nat /\ DOMAIN m = 0 .. size - 1 /\ s2 \in Nat
          /\ Len(t2) \in Nat
    BY <1>2 DEF Lies
  <1> DEFINE room == IF Len(t1) + Len(t2) + 1 > n THEN Len(t1) + Len(t2) + 1 ELSE n
  <1>4. s1 + room <= size /\ (s1 + room <= s2 \/ s2 + (Len(t2) + 1) <= s1)
    BY <1>2 DEF Copies, InMemory, Apart
  <1>5. room \in Nat /\ room >= n /\ room >= Len(t1) + Len(t2) + 1
    BY <1>1, <1>3
  <1> HIDE DEF room
  <1>6. /\ s1 + Len(t2) + 1 <= size /\ s1 + n <= size /\ s1 + Len(t1) + Len(t2) + 1 <= size
        /\ s1 + Len(t1) <= s2 \/ s2 + Len(t2) + 1 <= s1
        /\ s1 <= s2 \/ s2 + Len(t2) + 1 <= s1
    BY <1>1, <1>3, <1>4, <1>5
  <1>7. Written(m, strcpy(m, s1, s2), s1, Append(t2, 0))
    BY <1>1, <1>3, <1>6, strcpyExact
  <1>8. Written(m, strncpy(m, s1, s2, n), s1, Prefix(t2 \o Zeros(n), n))
    BY <1>1, <1>3, <1>6, strncpyExact
  <1>9. Written(m, strcat(m, s1, s2), s1, Append(t1 \o t2, 0))
    BY <1>1, <1>6, strcatExact
  <1>10. Written(m, strncat(m, s1, s2, n), s1, Append(t1 \o Prefix(t2, n), 0))
    BY <1>1, <1>6, strncatExact
  <1>11. Written(m, strxfrm(m, s1, s2, n).m, s1, IF Len(t2) < n THEN Append(t2, 0) ELSE <<>>)
    <2>1. strxfrm(m, s1, s2, n).m = IF Len(t2) < n THEN strcpy(m, s1, s2) ELSE m
      BY <1>1, strlenExact DEF strxfrm, strcpy
    <2>2. CASE Len(t2) < n
      BY <1>7, <2>1, <2>2
    <2>3. CASE ~(Len(t2) < n)
      <3>1. m = [r \in 0 .. size - 1 |-> m[r]]
        BY <1>1 DEF Mem
      <3>2. Len(<<>>) = 0 /\ \A r \in 0 .. size - 1 : r \notin s1 .. s1 + 0 - 1
        BY <1>3
      <3>3. m = [r \in 0 .. size - 1 |-> IF r \in s1 .. s1 + Len(<<>>) - 1 THEN <<>>[r - s1 + 1] ELSE m[r]]
        BY <3>1, <3>2
      <3>4. Written(m, m, s1, <<>>)
        BY <1>3, <3>3, WrittenSince
      <3>5. QED
        BY <2>1, <2>3, <3>4
    <2>4. QED
      BY <2>2, <2>3
  <1>12. QED
    BY <1>7, <1>8, <1>9, <1>10, <1>11 DEF CopiesExact

(***************************************************************************)
(* Comparisons.                                                            *)
(***************************************************************************)

Agree(u, v, i) == i \in Nat /\ i <= Len(u) /\ i <= Len(v) /\ \A j \in 1 .. i : u[j] = v[j]

\* What follows i equal characters decides the order.
LEMMA OrderEqual ==
  ASSUME NEW u \in Seq(Int), NEW v \in Seq(Int), NEW i, Agree(u, v, i), i = Len(u), i = Len(v)
  PROVE  Order(u, v) = 0
  <1>1. Len(u) = Len(v) /\ \A j \in 1 .. Len(u) : u[j] = v[j]
    BY DEF Agree
  <1>2. u = v
    BY <1>1, SeqEqual
  <1>3. ~Precedes(u, v)
    <2>1. \A k \in 1 .. Len(v) : v[k] \in Int /\ k <= Len(v)
      OBVIOUS
    <2>2. QED
      BY <1>2, <2>1 DEF Precedes
  <1>4. QED
    BY <1>2, <1>3 DEF Order

LEMMA OrderLess ==
  ASSUME NEW u \in Seq(Int), NEW v \in Seq(Int), NEW i, Agree(u, v, i),
         i < Len(v), i = Len(u) \/ u[i + 1] < v[i + 1]
  PROVE  Order(u, v) = -1
  <1>1. i \in Nat /\ i + 1 \in 1 .. Len(v) /\ (\A j \in 1 .. (i + 1) - 1 : j \in 1 .. i /\ j <= Len(u))
    BY DEF Agree
  <1>2. \A j \in 1 .. (i + 1) - 1 : j <= Len(u) /\ u[j] = v[j]
    BY <1>1 DEF Agree
  <1>3. i + 1 <= Len(u) => u[i + 1] < v[i + 1]
    BY <1>1
  <1>4. Precedes(u, v)
    BY <1>1, <1>2, <1>3 DEF Precedes
  <1>5. u # v
    <2>1. ASSUME u = v
          PROVE  FALSE
      <3>1. u[i + 1] \in Int /\ i + 1 <= Len(u)
        BY <1>1, <2>1
      <3>2. QED
        BY <1>1, <1>3, <2>1, <3>1
    <2>2. QED
      BY <2>1
  <1>6. QED
    BY <1>4, <1>5 DEF Order

LEMMA OrderMore ==
  ASSUME NEW u \in Seq(Int), NEW v \in Seq(Int), NEW i, Agree(u, v, i),
         i < Len(u), i = Len(v) \/ u[i + 1] > v[i + 1]
  PROVE  Order(u, v) = 1
  <1>1. i \in Nat /\ i + 1 \in 1 .. Len(u) /\ u[i + 1] \in Int
    BY DEF Agree
  <1>2. ASSUME NEW k \in 1 .. Len(v), \A j \in 1 .. k - 1 : j <= Len(u)
                 /\ u[j] = v[j], k <= Len(u) => u[k] < v[k]
        PROVE  FALSE
    <2>1. v[k] \in Int /\ (k <= Len(u) => u[k] \in Int)
      BY <1>2
    <2>2. CASE k <= i
      <3>1. k \in 1 .. i /\ k <= Len(u)
        BY <1>1, <2>2
      <3>2. u[k] = v[k]
        BY <3>1 DEF Agree
      <3>3. QED
        BY <1>2, <2>1, <3>1, <3>2
    <2>3. CASE k = i + 1
      <3>1. u[i + 1] > v[i + 1] /\ u[i + 1] < v[i + 1]
        BY <1>1, <1>2, <2>3
      <3>2. QED
        BY <1>1, <2>1, <2>3, <3>1
    <2>4. CASE k > i + 1
      <3>1. i + 1 \in 1 .. k - 1 /\ i # Len(v)
        BY <1>1, <2>4
      <3>2. u[i + 1] = v[i + 1] /\ u[i + 1] > v[i + 1]
        BY <1>2, <3>1
      <3>3. QED
        BY <1>1, <3>2
    <2>5. QED
      BY <1>1, <2>2, <2>3, <2>4
  <1>3. ~Precedes(u, v)
    BY <1>2 DEF Precedes
  <1>4. u # v
    <2>1. ASSUME u = v
          PROVE  FALSE
      <3>1. u[i + 1] > u[i + 1]
        BY <1>1, <2>1
      <3>2. QED
        BY <1>1, <3>1
    <2>2. QED
      BY <2>1
  <1>5. QED
    BY <1>3, <1>4 DEF Order

\* The character at i of a string: that of the text, or the zero behind it.
LEMMA CharacterAt ==
  ASSUME NEW m, NEW size, NEW s, NEW text, Str(m, size, s, text), NEW i \in 0 .. Len(text)
  PROVE  /\ i < Len(text) => m[s + i] = text[i + 1] /\ text[i + 1] \in 1 .. UCHAR_MAX /\ m[s + i] # 0
         /\ i = Len(text) => m[s + i] = 0
  <1>1. Lies(m, size, s, text, Len(text)) /\ Len(text) \in Nat
    BY StringLies DEF Lies
  <1>2. i < Len(text) => i \in 0 .. Len(text) - 1 /\ i + 1 \in 1 .. Len(text)
    BY <1>1
  <1>3. QED
    BY <1>1, <1>2, Zenon DEF Lies

LEMMA DiffersString ==
  ASSUME NEW m, NEW size, NEW s1, NEW s2, NEW t1, NEW t2, Str(m, size, s1, t1), Str(m, size, s2, t2),
         NEW n \in Nat, NEW i, i = Differs(m, s1, s2, n, {0})
  PROVE  /\ i \in 0 .. n
         /\ Agree(t1, t2, i)
         /\ i = n \/ i = Len(t1) \/ i = Len(t2) \/ t1[i + 1] # t2[i + 1]
  <1>1. IsDiffers(m, s1, s2, n, {0}, i)
    BY DiffersExists
  <1>2. i \in 0 .. n /\ i \in Nat
    BY <1>1 DEF IsDiffers
  <1>3. Len(t1) \in Nat /\ Len(t2) \in Nat
    BY StringLies DEF Lies
  <1>4. \A k \in 0 .. i - 1 : m[s1 + k] = m[s2 + k] /\ m[s1 + k] # 0
    BY <1>1 DEF IsDiffers, Unlike
  <1>5. i <= Len(t1)
    <2>1. ASSUME i > Len(t1)
          PROVE  FALSE
      <3>1. Len(t1) \in 0 .. i - 1 /\ Len(t1) \in 0 .. Len(t1)
        BY <1>2, <1>3, <2>1
      <3>2. m[s1 + Len(t1)] = 0
        BY <3>1, CharacterAt
      <3>3. QED
        BY <1>4, <3>1, <3>2
    <2>2. QED
      BY <1>2, <1>3, <2>1
  <1>6. i <= Len(t2)
    <2>1. ASSUME i > Len(t2)
          PROVE  FALSE
      <3>1. Len(t2) \in 0 .. i - 1 /\ Len(t2) \in 0 .. Len(t2)
        BY <1>2, <1>3, <2>1
      <3>2. m[s2 + Len(t2)] = 0
        BY <3>1, CharacterAt
      <3>3. QED
        BY <1>4, <3>1, <3>2
    <2>2. QED
      BY <1>2, <1>3, <2>1
  <1>7. ASSUME NEW j \in 1 .. i
        PROVE  t1[j] = t2[j]
    <2>1. j - 1 \in 0 .. i - 1 /\ j - 1 \in 0 .. Len(t1) /\ j - 1 \in 0 .. Len(t2) /\ j - 1 < Len(t1)
            /\ j - 1 < Len(t2) /\ (j - 1) + 1 = j
      BY <1>2, <1>3, <1>5, <1>6
    <2>2. m[s1 + (j - 1)] = t1[j] /\ m[s2 + (j - 1)] = t2[j]
      BY <2>1, CharacterAt
    <2>3. QED
      BY <1>4, <2>1, <2>2
  <1>8. ASSUME i # n, i # Len(t1), i # Len(t2)
        PROVE  t1[i + 1] # t2[i + 1]
    <2>1. i \in 0 .. Len(t1) /\ i \in 0 .. Len(t2) /\ i < Len(t1) /\ i < Len(t2)
      BY <1>2, <1>3, <1>5, <1>6, <1>8
    <2>2. m[s1 + i] = t1[i + 1] /\ m[s2 + i] = t2[i + 1] /\ m[s1 + i] # 0
      BY <2>1, CharacterAt
    <2>3. QED
      BY <1>1, <1>8, <2>2 DEF IsDiffers, Unlike
  <1>9. QED
    BY <1>2, <1>5, <1>6, <1>7, <1>8 DEF Agree

Decides(u, v, i, a, b) ==
  /\ Agree(u, v, i)
  /\ i < Len(u) => a = u[i + 1] /\ u[i + 1] > 0
  /\ i = Len(u) => a = 0
  /\ i < Len(v) => b = v[i + 1] /\ v[i + 1] > 0
  /\ i = Len(v) => b = 0
  /\ i = Len(u) \/ i = Len(v) \/ u[i + 1] # v[i + 1]

\* The difference of the characters behind i equal ones has the sign of the order.
LEMMA DifferenceExact ==
  ASSUME NEW u \in Seq(Int), NEW v \in Seq(Int), NEW i, NEW a, NEW b, Decides(u, v, i, a, b)
  PROVE  Signum(a - b) = Order(u, v)
  <1>1. /\ Agree(u, v, i)
        /\ i < Len(u) => a = u[i + 1] /\ u[i + 1] > 0
        /\ i = Len(u) => a = 0
        /\ i < Len(v) => b = v[i + 1] /\ v[i + 1] > 0
        /\ i = Len(v) => b = 0
        /\ i = Len(u) \/ i = Len(v) \/ u[i + 1] # v[i + 1]
    BY DEF Decides
  <1>2. i \in Nat /\ i <= Len(u) /\ i <= Len(v) /\ Len(u) \in Nat /\ Len(v) \in Nat
    BY <1>1 DEF Agree
  <1>3. (i < Len(u) => u[i + 1] \in Int) /\ (i < Len(v) => v[i + 1] \in Int)
    BY <1>2
  <1>4. a \in Int /\ b \in Int
    BY <1>1, <1>2, <1>3
  <1>5. CASE i = Len(u) /\ i = Len(v)
    <2>1. a - b = 0
      BY <1>1, <1>5
    <2>2. Signum(a - b) = 0
      BY <2>1 DEF Signum
    <2>3. QED
      BY <1>1, <1>5, <2>2, OrderEqual
  <1>6. CASE i < Len(v) /\ (i = Len(u) \/ u[i + 1] < v[i + 1])
    <2>1. a - b < 0
      BY <1>1, <1>2, <1>3, <1>4, <1>6
    <2>2. Signum(a - b) = -1
      BY <1>4, <2>1 DEF Signum
    <2>3. QED
      BY <1>1, <1>6, <2>2, OrderLess
  <1>7. CASE i < Len(u) /\ (i = Len(v) \/ u[i + 1] > v[i + 1])
    <2>1. a - b > 0
      BY <1>1, <1>2, <1>3, <1>4, <1>7
    <2>2. Signum(a - b) = 1
      BY <1>4, <2>1 DEF Signum
    <2>3. QED
      BY <1>1, <1>7, <2>2, OrderMore
  <1>8. QED
    BY <1>1, <1>2, <1>3, <1>5, <1>6, <1>7

LEMMA strncmpExact ==
  ASSUME NEW m, NEW size, NEW s1, NEW s2, NEW t1, NEW t2, Str(m, size, s1, t1), Str(m, size, s2, t2),
           NEW n \in Nat
  PROVE  Signum(strncmp(m, s1, s2, n)) = Order(Prefix(t1, n), Prefix(t2, n))
  <1> DEFINE i == Differs(m, s1, s2, n, {0})
             u == Prefix(t1, n)
             v == Prefix(t2, n)
  <1>1. /\ i \in 0 .. n /\ Agree(t1, t2, i)
        /\ i = n \/ i = Len(t1) \/ i = Len(t2) \/ t1[i + 1] # t2[i + 1]
    BY DiffersString
  <1>2. t1 \in Seq(Int) /\ t2 \in Seq(Int)
    <2>1. t1 \in Seq(1 .. UCHAR_MAX) /\ t2 \in Seq(1 .. UCHAR_MAX)
      BY DEF Str, CStrings
    <2>2. QED
      BY <2>1, CharAssumption
  <1>3. /\ u \in Seq(Int) /\ Len(u) = Least2(n, Len(t1)) /\ \A j \in 1 .. Least2(n, Len(t1)) : u[j] = t1[j]
        /\ v \in Seq(Int) /\ Len(v) = Least2(n, Len(t2)) /\ \A j \in 1 .. Least2(n, Len(t2)) : v[j] = t2[j]
    BY <1>2, PrefixExact
  <1>4. strncmp(m, s1, s2, n) = IF i = n THEN 0 ELSE m[s1 + i] - m[s2 + i]
    BY DEF strncmp
  <1> HIDE DEF i, u, v
  <1>5. i \in Nat /\ i <= Len(t1) /\ i <= Len(t2) /\ Len(t1) \in Nat /\ Len(t2) \in Nat
    BY <1>1, <1>2 DEF Agree
  <1>6. Agree(u, v, i)
    <2>1. i <= Len(u) /\ i <= Len(v)
      BY <1>1, <1>3, <1>5 DEF Least2
    <2>2. \A j \in 1 .. i : j \in 1 .. Least2(n, Len(t1)) /\ j \in 1 .. Least2(n, Len(t2))
      BY <1>1, <1>5 DEF Least2
    <2>3. QED
      BY <1>1, <1>3, <1>5, <2>1, <2>2 DEF Agree
  <1>7. CASE i = n
    <2>1. i = Len(u) /\ i = Len(v)
      BY <1>3, <1>5, <1>7 DEF Least2
    <2>2. Order(u, v) = 0
      BY <1>3, <1>6, <2>1, OrderEqual
    <2>3. QED
      BY <1>4, <1>7, <2>2 DEF Signum, u, v
  <1>8. CASE i # n
    <2>1. i < n
      BY <1>1, <1>8
    <2>2. (i = Len(u) <=> i = Len(t1)) /\ (i = Len(v) <=> i = Len(t2)) /\ (i < Len(u) <=> i < Len(t1))
            /\ (i < Len(v) <=> i < Len(t2))
      BY <1>3, <1>5, <2>1 DEF Least2
    <2>3. (i < Len(t1) => i + 1 \in 1 .. Least2(n, Len(t1)))
            /\ (i < Len(t2) => i + 1 \in 1 .. Least2(n, Len(t2)))
      BY <1>5, <2>1 DEF Least2
    <2>4. (i < Len(t1) => u[i + 1] = t1[i + 1]) /\ (i < Len(t2) => v[i + 1] = t2[i + 1])
      BY <1>3, <2>3
    <2>5. i \in 0 .. Len(t1) /\ i \in 0 .. Len(t2)
      BY <1>5
    <2>6. /\ i < Len(t1) => m[s1 + i] = t1[i + 1] /\ t1[i + 1] \in 1 .. UCHAR_MAX
          /\ i = Len(t1) => m[s1 + i] = 0
          /\ i < Len(t2) => m[s2 + i] = t2[i + 1] /\ t2[i + 1] \in 1 .. UCHAR_MAX
          /\ i = Len(t2) => m[s2 + i] = 0
      BY <2>5, CharacterAt
    <2>7. i = Len(u) \/ i = Len(v) \/ u[i + 1] # v[i + 1]
      BY <1>1, <1>5, <1>8, <2>2, <2>4
    <2>8. /\ i < Len(u) => m[s1 + i] = u[i + 1] /\ u[i + 1] > 0
          /\ i = Len(u) => m[s1 + i] = 0
          /\ i < Len(v) => m[s2 + i] = v[i + 1] /\ v[i + 1] > 0
          /\ i = Len(v) => m[s2 + i] = 0
      BY <2>2, <2>4, <2>6
    <2>9. Decides(u, v, i, m[s1 + i], m[s2 + i])
      BY <1>6, <2>7, <2>8 DEF Decides
    <2>10. Signum(m[s1 + i] - m[s2 + i]) = Order(u, v)
      BY <1>3, <2>9, DifferenceExact
    <2>11. QED
      BY <1>4, <1>8, <2>10 DEF u, v
  <1>9. QED
    BY <1>7, <1>8

LEMMA strcmpExact ==
  ASSUME NEW m, NEW size, NEW s1, NEW s2, NEW t1, NEW t2, Str(m, size, s1, t1), Str(m, size, s2, t2)
  PROVE  Signum(strcmp(m, s1, s2)) = Order(t1, t2)
  <1> DEFINE i == Differs(m, s1, s2, size, {0})
  <1>1. Lies(m, size, s1, t1, Len(t1)) /\ Lies(m, size, s2, t2, Len(t2)) /\ Size(m) = size
    BY StringLies, SizeExact DEF Str
  <1>2. s1 \in Nat /\ Len(t1) \in Nat /\ size \in Nat /\ s1 + Len(t1) + 1 <= size /\ s2 \in Nat
          /\ Len(t2) \in Nat
    BY <1>1 DEF Lies
  <1>3. /\ i \in 0 .. size /\ Agree(t1, t2, i)
        /\ i = size \/ i = Len(t1) \/ i = Len(t2) \/ t1[i + 1] # t2[i + 1]
    BY <1>2, DiffersString
  <1>4. strcmp(m, s1, s2) = m[s1 + i] - m[s2 + i]
    BY <1>1 DEF strcmp
  <1> HIDE DEF i
  <1>5. i \in 0 .. Len(t1) /\ i \in 0 .. Len(t2) /\ i # size
    BY <1>2, <1>3 DEF Agree
  <1>6. /\ i < Len(t1) => m[s1 + i] = t1[i + 1] /\ t1[i + 1] \in 1 .. UCHAR_MAX
        /\ i = Len(t1) => m[s1 + i] = 0
        /\ i < Len(t2) => m[s2 + i] = t2[i + 1] /\ t2[i + 1] \in 1 .. UCHAR_MAX
        /\ i = Len(t2) => m[s2 + i] = 0
    BY <1>5, CharacterAt
  <1>7. (i < Len(t1) => t1[i + 1] > 0) /\ (i < Len(t2) => t2[i + 1] > 0)
    BY <1>6
  <1>8. t1 \in Seq(Int) /\ t2 \in Seq(Int)
    <2>1. t1 \in Seq(1 .. UCHAR_MAX) /\ t2 \in Seq(1 .. UCHAR_MAX)
      BY DEF Str, CStrings
    <2>2. QED
      BY <2>1, CharAssumption
  <1>9. Decides(t1, t2, i, m[s1 + i], m[s2 + i])
    BY <1>3, <1>5, <1>6, <1>7 DEF Decides
  <1>10. QED
    BY <1>4, <1>8, <1>9, DifferenceExact

LEMMA ComparisonsCorrect ==
  ASSUME NEW m, NEW size, NEW s1, NEW s2, NEW t1, NEW t2, Str(m, size, s1, t1), Str(m, size, s2, t2),
           NEW n \in Nat
  PROVE  ComparisonsExact(m, s1, s2, t1, t2, n)
  BY strcmpExact, strncmpExact DEF ComparisonsExact

(***************************************************************************)
(* Searches.                                                               *)
(***************************************************************************)

LEMMA LowestIs ==
  ASSUME NEW S, NEW none, NEW i \in S, \A j \in S : j \in Int, \A j \in S : i <= j
  PROVE  Lowest(S, none) = i
  <1>1. S # {}
    OBVIOUS
  <1>2. ASSUME NEW k \in S, \A j \in S : k <= j
        PROVE  k = i
    <2>1. k \in Int /\ i \in Int /\ k <= i /\ i <= k
      BY <1>2
    <2>2. QED
      BY <2>1
  <1>3. Lowest(S, none) = CHOOSE k \in S : \A j \in S : k <= j
    BY <1>1 DEF Lowest
  <1>4. QED
    BY <1>2, <1>3

LEMMA HighestIs ==
  ASSUME NEW S, NEW none, NEW i \in S, \A j \in S : j \in Int, \A j \in S : i >= j
  PROVE  Highest(S, none) = i
  <1>1. S # {}
    OBVIOUS
  <1>2. ASSUME NEW k \in S, \A j \in S : k >= j
        PROVE  k = i
    <2>1. k \in Int /\ i \in Int /\ k >= i /\ i >= k
      BY <1>2
    <2>2. QED
      BY <2>1
  <1>3. Highest(S, none) = CHOOSE k \in S : \A j \in S : k >= j
    BY <1>1 DEF Highest
  <1>4. QED
    BY <1>2, <1>3

\* A string and its zero, as the memory has them.
Ended(m, size, s, u, n) ==
  /\ Mem(m, size) /\ DOMAIN m = 0 .. size - 1 /\ s \in Nat /\ n \in Nat /\ s + n + 1 <= size
  /\ DOMAIN u = 1 .. n + 1 /\ u[n + 1] = 0
  /\ \A i \in 1 .. n : u[i] \in 1 .. UCHAR_MAX
  /\ \A i \in 1 .. n + 1 : m[s + i - 1] = u[i]

LEMMA StringEnded ==
  ASSUME NEW m, NEW size, NEW s, NEW text, Str(m, size, s, text)
  PROVE  /\ Ended(m, size, s, Append(text, 0), Len(text))
         /\ \A i \in 1 .. Len(text) : Append(text, 0)[i] = text[i]
  <1> DEFINE u == Append(text, 0)
  <1>1. Lies(m, size, s, text, Len(text)) /\ Mem(m, size)
    BY StringLies DEF Str
  <1>2. s \in Nat /\ Len(text) \in Nat /\ size \in Nat /\ s + Len(text) + 1 <= size
          /\ DOMAIN m = 0 .. size - 1
    BY <1>1 DEF Lies
  <1>3. DOMAIN u = 1 .. Len(text) + 1 /\ u[Len(text) + 1] = 0 /\ \A i \in 1 .. Len(text) : u[i] = text[i]
    <2>1. text \in Seq(1 .. UCHAR_MAX)
      BY DEF Str, CStrings
    <2>2. text \in Seq(Int)
      BY <2>1, CharAssumption
    <2>3. u \in Seq(Int) /\ Len(u) = Len(text) + 1
          /\ \A i \in 1 .. Len(u) : u[i] = IF i = Len(u) THEN 0 ELSE text[i]
      BY <2>2, AppendProperties
    <2>4. DOMAIN u = 1 .. Len(u)
      BY <2>3
    <2> HIDE DEF u
    <2>5. QED
      BY <1>2, <2>3, <2>4
  <1> HIDE DEF u
  <1>4. ASSUME NEW i \in 1 .. Len(text) + 1
        PROVE  m[s + i - 1] = u[i]
    <2>1. CASE i = Len(text) + 1
      <3>1. s + i - 1 = s + Len(text)
        BY <1>2, <2>1
      <3>2. QED
        BY <1>1, <1>3, <2>1, <3>1 DEF Lies
    <2>2. CASE i # Len(text) + 1
      <3>1. i \in 1 .. Len(text)
        BY <1>2, <2>2
      <3>2. QED
        BY <1>1, <1>3, <3>1 DEF Lies
    <2>3. QED
      BY <2>1, <2>2
  <1>5. \A i \in 1 .. Len(text) : text[i] \in 1 .. UCHAR_MAX
    BY <1>1 DEF Lies
  <1>6. \A i \in 1 .. Len(text) : u[i] \in 1 .. UCHAR_MAX
    BY <1>3, <1>5
  <1>7. Ended(m, size, s, u, Len(text))
    BY <1>1, <1>2, <1>3, <1>4, <1>6 DEF Ended
  <1>8. QED
    BY <1>3, <1>7 DEF u

\* The first place of a character of C.
FirstPlace(u, C, i) == i \in DOMAIN u /\ u[i] \in C /\ \A k \in 1 .. i - 1 : u[k] \notin C

LEMMA FirstPlaceExists ==
  ASSUME NEW m, NEW size, NEW s, NEW u, NEW n, Ended(m, size, s, u, n), NEW C, 0 \in C
  PROVE  \E i \in 1 .. n + 1 : FirstPlace(u, C, i)
  <1> DEFINE S == {j \in 0 .. n : u[j + 1] \in C}
  <1>1. n \in Nat /\ DOMAIN u = 1 .. n + 1 /\ u[n + 1] \in C
    BY DEF Ended
  <1>2. PICK j : IsFirst(S, n, j)
    BY <1>1, FirstExists
  <1>3. j \in 0 .. n /\ (j = n \/ j \in S) /\ \A k \in 0 .. j - 1 : k \notin S
    BY <1>2 DEF IsFirst
  <1>4. j + 1 \in 1 .. n + 1 /\ u[j + 1] \in C
    BY <1>1, <1>3
  <1>5. ASSUME NEW k \in 1 .. (j + 1) - 1
        PROVE  u[k] \notin C
    <2>1. k - 1 \in 0 .. j - 1 /\ k - 1 \in 0 .. n /\ (k - 1) + 1 = k
      BY <1>1, <1>3
    <2>2. k - 1 \notin S
      BY <1>3, <2>1
    <2>3. QED
      BY <2>1, <2>2
  <1>6. FirstPlace(u, C, j + 1)
    BY <1>1, <1>4, <1>5 DEF FirstPlace
  <1>7. QED
    BY <1>4, <1>6

LEMMA LowestPlace ==
  ASSUME NEW m, NEW size, NEW s, NEW u, NEW n, Ended(m, size, s, u, n), NEW C, NEW i, FirstPlace(u, C, i)
  PROVE  Lowest(Places(u, C), null) = i
  <1>1. n \in Nat /\ DOMAIN u = 1 .. n + 1
    BY DEF Ended
  <1>2. i \in Places(u, C) /\ i \in 1 .. n + 1
    BY <1>1 DEF Places, FirstPlace
  <1>3. ASSUME NEW j \in Places(u, C)
        PROVE  j \in Int /\ i <= j
    <2>1. j \in 1 .. n + 1 /\ u[j] \in C
      BY <1>1, <1>3 DEF Places
    <2>2. j \notin 1 .. i - 1
      BY <2>1 DEF FirstPlace
    <2>3. QED
      BY <1>1, <1>2, <2>1, <2>2
  <1>4. QED
    BY <1>2, <1>3, LowestIs

LEMMA ScanPlace ==
  ASSUME NEW m, NEW size, NEW s, NEW u, NEW n, Ended(m, size, s, u, n), NEW C, NEW i, FirstPlace(u, C, i)
  PROVE  Scan(m, s, C) = s + i - 1
  <1> DEFINE r == s + i - 1
  <1>1. /\ Mem(m, size) /\ DOMAIN m = 0 .. size - 1 /\ s \in Nat /\ n \in Nat /\ s + n + 1 <= size
        /\ DOMAIN u = 1 .. n + 1 /\ \A k \in 1 .. n + 1 : m[s + k - 1] = u[k]
    BY DEF Ended
  <1>2. i \in 1 .. n + 1 /\ u[i] \in C /\ \A k \in 1 .. i - 1 : u[k] \notin C
    BY <1>1 DEF FirstPlace
  <1>3. size \in Nat
    BY <1>1 DEF Mem
  <1>4. r \in 0 .. size - 1 /\ r >= s
    BY <1>1, <1>2, <1>3
  <1>5. m[r] \in C
    BY <1>1, <1>2
  <1>6. ASSUME NEW q \in s .. r - 1
        PROVE  m[q] \notin C
    <2>1. q - s + 1 \in 1 .. i - 1 /\ q - s + 1 \in 1 .. n + 1 /\ s + (q - s + 1) - 1 = q
      BY <1>1, <1>2
    <2>2. QED
      BY <1>1, <1>2, <2>1
  <1> HIDE DEF r
  <1>7. IsScan(m, s, C, r)
    BY <1>1, <1>4, <1>5, <1>6 DEF IsScan
  <1>8. Scan(m, s, C) = r
    BY <1>1, <1>7, ScanExact
  <1>9. QED
    BY <1>8 DEF r

\* What a loop to a character of C finds.
LEMMA ScanText ==
  ASSUME NEW m, NEW size, NEW s, NEW text, Str(m, size, s, text), NEW C, 0 \in C
  PROVE  \E i \in 1 .. Len(text) + 1 :
           /\ FirstPlace(Append(text, 0), C, i)
           /\ Lowest(Places(Append(text, 0), C), null) = i
           /\ Scan(m, s, C) = s + i - 1
           /\ m[s + i - 1] = Append(text, 0)[i]
  <1> DEFINE u == Append(text, 0)
             n == Len(text)
  <1>1. Ended(m, size, s, u, n)
    BY StringEnded
  <1> HIDE DEF u, n
  <1>2. PICK i \in 1 .. n + 1 : FirstPlace(u, C, i)
    BY <1>1, FirstPlaceExists
  <1>3. Lowest(Places(u, C), null) = i
    BY <1>1, <1>2, LowestPlace
  <1>4. Scan(m, s, C) = s + i - 1
    BY <1>1, <1>2, ScanPlace
  <1>5. m[s + i - 1] = u[i]
    BY <1>1 DEF Ended
  <1>6. QED
    BY <1>2, <1>3, <1>4, <1>5 DEF u, n

LEMMA PointerAt ==
  ASSUME NEW s \in Nat, NEW i \in Nat
  PROVE  Pointer(s, i) = s + i - 1
  BY DEF Pointer, null

LEMMA strchrExact ==
  ASSUME NEW m, NEW size, NEW s, NEW text, Str(m, size, s, text), NEW c \in Char
  PROVE  strchr(m, s, c) = Pointer(s, Lowest(Places(Append(text, 0), {c}), null))
  <1> DEFINE u == Append(text, 0)
             n == Len(text)
  <1>1. Ended(m, size, s, u, n)
    BY StringEnded
  <1>2. Ended(m, size, s, u, n) /\ n \in Nat /\ s \in Nat
    BY <1>1 DEF Ended
  <1>3. PICK i \in 1 .. n + 1 :
          /\ FirstPlace(u, {c, 0}, i)
          /\ Scan(m, s, {c, 0}) = s + i - 1
          /\ m[s + i - 1] = u[i]
    BY ScanText
  <1> HIDE DEF u, n
  <1>4. strchr(m, s, c) = IF u[i] = c THEN s + i - 1 ELSE null
    BY <1>3 DEF strchr
  <1>5. i \in DOMAIN u /\ u[i] \in {c, 0} /\ \A k \in 1 .. i - 1 : u[k] \notin {c, 0}
    BY <1>3 DEF FirstPlace
  <1>6. CASE u[i] = c
    <2>1. FirstPlace(u, {c}, i)
      BY <1>5, <1>6 DEF FirstPlace
    <2>2. Lowest(Places(u, {c}), null) = i
      BY <1>2, <2>1, LowestPlace
    <2>3. Pointer(s, i) = s + i - 1
      BY <1>2, PointerAt
    <2>4. QED
      BY <1>4, <1>6, <2>2, <2>3 DEF u
  <1>7. CASE u[i] # c
    <2>1. u[i] = 0
      BY <1>5, <1>7
    <2>2. i = n + 1
      <3>1. \A k \in 1 .. n : u[k] # 0
        BY <1>2 DEF Ended
      <3>2. QED
        BY <1>2, <2>1, <3>1
    <2>3. ASSUME NEW k \in DOMAIN u
          PROVE  u[k] # c
      <3>1. k \in 1 .. i - 1 \/ k = i
        BY <1>2, <2>2, <2>3 DEF Ended
      <3>2. QED
        BY <1>5, <1>7, <3>1
    <2>4. Places(u, {c}) = {}
      BY <2>3 DEF Places
    <2>5. Pointer(s, Lowest(Places(u, {c}), null)) = null
      BY <2>4 DEF Lowest, Pointer
    <2>6. QED
      BY <1>4, <1>7, <2>5 DEF u
  <1>8. QED
    BY <1>6, <1>7

LEMMA MembersExact ==
  ASSUME NEW m, NEW size, NEW s, NEW text, Str(m, size, s, text)
  PROVE  Members(m, s) = CharsOf(text) \cup {0} /\ CharsOf(text) \subseteq 1 .. UCHAR_MAX
  <1> DEFINE u == Append(text, 0)
             n == Len(text)
  <1>1. Ended(m, size, s, u, n) /\ \A i \in 1 .. n : u[i] = text[i]
    BY StringEnded
  <1>2. Ended(m, size, s, u, n) /\ n \in Nat /\ s \in Nat /\ \A i \in 1 .. n : u[i] = text[i]
    BY <1>1 DEF Ended
  <1>3. DOMAIN text = 1 .. n
    BY DEF Str, CStrings
  <1>4. \A k \in 1 .. n : u[k] \in 1 .. UCHAR_MAX
    BY <1>2 DEF Ended
  <1>5. CharsOf(text) \subseteq 1 .. UCHAR_MAX
    BY <1>2, <1>3, <1>4 DEF CharsOf
  <1>6. CharsOf(text) \cup {0} \subseteq Char
    BY <1>5 DEF Char
  <1>7. ASSUME NEW c \in Char
        PROVE  Belongs(m, c, s) <=> c \in CharsOf(text) \cup {0}
    <2>1. PICK i \in 1 .. n + 1 :
            /\ FirstPlace(u, {c, 0}, i)
            /\ Scan(m, s, {c, 0}) = s + i - 1
            /\ m[s + i - 1] = u[i]
      BY ScanText
    <2> HIDE DEF u, n
    <2>2. Belongs(m, c, s) <=> u[i] = c
      BY <2>1 DEF Belongs
    <2>3. i \in DOMAIN u /\ u[i] \in {c, 0} /\ \A k \in 1 .. i - 1 : u[k] \notin {c, 0}
      BY <2>1 DEF FirstPlace
    <2>4. u[n + 1] = 0
      BY <1>2 DEF Ended
    <2>5. ASSUME u[i] = c
          PROVE  c \in CharsOf(text) \cup {0}
      <3>1. CASE i = n + 1
        BY <2>4, <2>5, <3>1
      <3>2. CASE i # n + 1
        <4>1. i \in 1 .. n
          BY <1>2, <3>2
        <4>2. QED
          BY <1>2, <1>3, <2>5, <4>1 DEF CharsOf
      <3>3. QED
        BY <3>1, <3>2
    <2>6. ASSUME c \in CharsOf(text), u[i] # c
          PROVE  FALSE
      <3>1. PICK k \in 1 .. n : c = u[k]
        BY <1>2, <1>3, <2>6 DEF CharsOf
      <3>2. u[i] = 0 /\ k \notin 1 .. i - 1 /\ k # i
        BY <2>3, <2>6, <3>1
      <3>3. i \in 1 .. n
        BY <1>2, <3>2
      <3>4. QED
        BY <1>4, <3>2, <3>3
    <2>7. QED
      BY <2>2, <2>3, <2>5, <2>6
  <1>8. QED
    BY <1>5, <1>6, <1>7 DEF Members

\* Where the last c of the first i characters is.
Found(m, s, c, i, x) ==
  \/ x = null /\ \A k \in 1 .. i : m[s + k - 1] # c
  \/ \E k \in 1 .. i : x = s + k - 1 /\ m[s + k - 1] = c /\ \A j \in k + 1 .. i : m[s + j - 1] # c

LEMMA strrchrFound ==
  ASSUME NEW m, NEW s \in Nat, NEW c, NEW n \in Nat, strlen(m, s) = n
  PROVE  Found(m, s, c, n + 1, strrchr(m, s, c))
  <1> DEFINE l == strlen(m, s) + 1
             Is(g) == g = [i \in 0 .. l |-> IF i = 0 THEN null ELSE IF m[s + i - 1] = c THEN s + i - 1 ELSE g[i - 1]]
             found == CHOOSE g : Is(g)
             Upto(i) == {k \in 1 .. i : m[s + k - 1] = c}
             f == [i \in 0 .. l |-> IF Upto(i) = {} THEN null ELSE s + (CHOOSE k \in Upto(i) : \A j \in Upto(i) : k >= j) - 1]
  <1>1. l = n + 1 /\ l \in Nat
    OBVIOUS
  <1>2. strrchr(m, s, c) = found[l]
    BY Zenon DEF strrchr
  <1> HIDE DEF l
  <1>3. ASSUME NEW i \in 1 .. l
        PROVE  f[i] = IF m[s + i - 1] = c THEN s + i - 1 ELSE f[i - 1]
    <2>1. i - 1 \in 0 .. l /\ i \in 0 .. l /\ i \in Int
      BY <1>1
    <2>2. CASE m[s + i - 1] = c
      <3>1. i \in Upto(i) /\ \A j \in Upto(i) : i >= j
        BY <2>2
      <3>2. ASSUME NEW k \in Upto(i), \A j \in Upto(i) : k >= j
            PROVE  k = i
        <4>1. k >= i /\ k \in 1 .. i
          BY <3>1, <3>2
        <4>2. QED
          BY <4>1
      <3>3. (CHOOSE k \in Upto(i) : \A j \in Upto(i) : k >= j) = i
        BY <3>1, <3>2
      <3> HIDE DEF Upto
      <3>4. QED
        BY <2>1, <2>2, <3>1, <3>3
    <2>3. CASE m[s + i - 1] # c
      <3>1. ASSUME NEW k
            PROVE  k \in Upto(i) <=> k \in Upto(i - 1)
        <4>1. k \in 1 .. i <=> k \in 1 .. i - 1 \/ k = i
          BY <2>1
        <4>2. k = i => m[s + k - 1] # c
          BY <2>3
        <4>3. QED
          BY <4>1, <4>2
      <3>2. Upto(i) = Upto(i - 1)
        BY <3>1
      <3> HIDE DEF Upto
      <3>3. QED
        BY <2>1, <2>3, <3>2
    <2>4. QED
      BY <2>2, <2>3
  <1>4. Is(f)
    <2>1. Upto(0) = {}
      OBVIOUS
    <2> HIDE DEF Upto
    <2>2. f[0] = null
      BY <1>1, <2>1
    <2>3. \A i \in 0 .. l : i # 0 => i \in 1 .. l
      BY <1>1
    <2>4. \A i \in 0 .. l : f[i] = IF i = 0 THEN null ELSE IF m[s + i - 1] = c THEN s + i - 1 ELSE f[i - 1]
      <3> HIDE DEF f
      <3>1. QED
        BY <1>3, <2>2, <2>3
    <2>5. f = [i \in 0 .. l |-> f[i]]
      OBVIOUS
    <2> HIDE DEF f
    <2>6. f = [i \in 0 .. l |-> IF i = 0 THEN null ELSE IF m[s + i - 1] = c THEN s + i - 1 ELSE f[i - 1]]
      BY <2>4, <2>5
    <2>7. QED
      BY <2>6
  <1> HIDE DEF f
  <1>5. Is(found)
    BY <1>4, Zenon
  <1> HIDE DEF found
  <1>6. found[0] = null /\ \A i \in 1 .. l : found[i] = IF m[s + i - 1] = c THEN s + i - 1 ELSE found[i - 1]
    <2>1. 0 \in 0 .. l /\ \A i \in 1 .. l : i \in 0 .. l /\ i # 0
      BY <1>1
    <2>2. QED
      BY <1>5, <2>1
  <1> DEFINE T == {i \in Nat : i <= l => Found(m, s, c, i, found[i])}
  <1>7. 0 \in T
    BY <1>6 DEF Found
  <1>8. ASSUME NEW i \in Nat, i \in T
        PROVE  i + 1 \in T
    <2>1. SUFFICES ASSUME i + 1 <= l
                   PROVE  Found(m, s, c, i + 1, found[i + 1])
      OBVIOUS
    <2>2. i + 1 \in 1 .. l /\ (i + 1) - 1 = i /\ Found(m, s, c, i, found[i])
      BY <1>1, <1>8, <2>1
    <2>3. found[i + 1] = IF m[s + (i + 1) - 1] = c THEN s + (i + 1) - 1 ELSE found[i]
      BY <1>6, <2>2
    <2>4. CASE m[s + (i + 1) - 1] = c
      <3>1. i + 1 \in 1 .. i + 1 /\ \A j \in (i + 1) + 1 .. i + 1 : FALSE
        OBVIOUS
      <3>2. QED
        BY <2>3, <2>4, <3>1 DEF Found
    <2>5. CASE m[s + (i + 1) - 1] # c
      <3>1. \A k \in 1 .. i + 1 : k \in 1 .. i \/ k = i + 1
        OBVIOUS
      <3>2. CASE found[i] = null /\ \A k \in 1 .. i : m[s + k - 1] # c
        BY <2>3, <2>5, <3>1, <3>2 DEF Found
      <3>3. CASE \E k \in 1 .. i : found[i] = s + k - 1 /\ m[s + k - 1] = c
              /\ \A j \in k + 1 .. i : m[s + j - 1] # c
        <4>1. PICK k \in 1 .. i : found[i] = s + k - 1 /\ m[s + k - 1] = c
                /\ \A j \in k + 1 .. i : m[s + j - 1] # c
          BY <3>3
        <4>2. k \in 1 .. i + 1 /\ \A j \in k + 1 .. i + 1 : j \in k + 1 .. i \/ j = i + 1
          OBVIOUS
        <4>3. \A j \in k + 1 .. i + 1 : m[s + j - 1] # c
          BY <2>5, <4>1, <4>2
        <4>4. QED
          BY <2>3, <2>5, <4>1, <4>2, <4>3 DEF Found
      <3>4. QED
        BY <2>2, <3>2, <3>3 DEF Found
    <2>6. QED
      BY <2>4, <2>5
  <1>9. l \in T
    <2> HIDE DEF T
    <2>1. QED
      BY <1>1, <1>7, <1>8, Induction
  <1>10. QED
    BY <1>1, <1>2, <1>9

LEMMA strrchrExact ==
  ASSUME NEW m, NEW size, NEW s, NEW text, Str(m, size, s, text), NEW c \in Char
  PROVE  strrchr(m, s, c) = Pointer(s, Highest(Places(Append(text, 0), {c}), null))
  <1> DEFINE u == Append(text, 0)
             n == Len(text)
             x == strrchr(m, s, c)
             P == Places(u, {c})
  <1>1. Ended(m, size, s, u, n)
    BY StringEnded
  <1>2. n \in Nat /\ s \in Nat /\ DOMAIN u = 1 .. n + 1 /\ \A i \in 1 .. n + 1 : m[s + i - 1] = u[i]
    BY <1>1 DEF Ended
  <1>3. Found(m, s, c, n + 1, x)
    BY <1>2, strlenExact, strrchrFound
  <1> HIDE DEF u, n, x
  <1>4. \A k : k \in P <=> k \in 1 .. n + 1 /\ m[s + k - 1] = c
    BY <1>2 DEF Places
  <1> HIDE DEF P
  <1>5. CASE x = null /\ \A k \in 1 .. n + 1 : m[s + k - 1] # c
    <2>1. P = {}
      BY <1>4, <1>5
    <2>2. QED
      BY <1>5, <2>1 DEF Highest, Pointer, P, u, x
  <1>6. CASE \E k \in 1 .. n + 1 : x = s + k - 1 /\ m[s + k - 1] = c
          /\ \A j \in k + 1 .. n + 1 : m[s + j - 1] # c
    <2>1. PICK k \in 1 .. n + 1 : x = s + k - 1 /\ m[s + k - 1] = c
            /\ \A j \in k + 1 .. n + 1 : m[s + j - 1] # c
      BY <1>6
    <2>2. k \in P
      BY <1>4, <2>1
    <2>3. ASSUME NEW j \in P
          PROVE  j \in Int /\ k >= j
      <3>1. j \in 1 .. n + 1 /\ j \notin k + 1 .. n + 1
        BY <1>4, <2>1, <2>3
      <3>2. QED
        BY <1>2, <3>1
    <2>4. Highest(P, null) = k
      BY <2>2, <2>3, HighestIs
    <2>5. Pointer(s, k) = s + k - 1
      BY <1>2, PointerAt
    <2>6. QED
      BY <2>1, <2>4, <2>5 DEF P, u, x
  <1>7. QED
    BY <1>3, <1>5, <1>6 DEF Found

LEMMA SpansExact ==
  ASSUME NEW m, NEW size, NEW s1, NEW s2, NEW t1, NEW t2, Str(m, size, s1, t1), Str(m, size, s2, t2)
  PROVE  /\ strcspn(m, s1, s2) = Lowest(Places(Append(t1, 0), CharsOf(t2) \cup {0}), null) - 1
         /\ strspn(m, s1, s2) = Lowest(Places(Append(t1, 0), Char \ CharsOf(t2)), null) - 1
         /\ strpbrk(m, s1, s2) = Pointer(s1, Lowest(Places(t1, CharsOf(t2)), null))
  <1> DEFINE u == Append(t1, 0)
             n == Len(t1)
             C == CharsOf(t2)
  <1>1. Ended(m, size, s1, u, n) /\ \A i \in 1 .. n : u[i] = t1[i]
    BY StringEnded
  <1>2. n \in Nat /\ s1 \in Nat /\ DOMAIN u = 1 .. n + 1 /\ u[n + 1] = 0
          /\ \A i \in 1 .. n : u[i] \in 1 .. UCHAR_MAX
    BY <1>1 DEF Ended
  <1>3. DOMAIN t1 = 1 .. n
    BY DEF Str, CStrings
  <1>4. Members(m, s2) = C \cup {0} /\ C \subseteq 1 .. UCHAR_MAX
    BY MembersExact
  <1>5. {0} \cup (Char \ Members(m, s2)) = Char \ C /\ 0 \in Char \ C
    BY <1>4 DEF Char
  <1>6. PICK i \in 1 .. n + 1 :
          /\ FirstPlace(u, C \cup {0}, i)
          /\ Lowest(Places(u, C \cup {0}), null) = i
          /\ Scan(m, s1, C \cup {0}) = s1 + i - 1
          /\ m[s1 + i - 1] = u[i]
    BY ScanText
  <1>7. PICK j \in 1 .. n + 1 :
          /\ Lowest(Places(u, Char \ C), null) = j
          /\ Scan(m, s1, Char \ C) = s1 + j - 1
    BY <1>5, ScanText
  <1> HIDE DEF u, n, C
  <1>8. strcspn(m, s1, s2) = Lowest(Places(u, C \cup {0}), null) - 1
    BY <1>2, <1>4, <1>6 DEF strcspn
  <1>9. strspn(m, s1, s2) = Lowest(Places(u, Char \ C), null) - 1
    <2>1. strspn(m, s1, s2) = Scan(m, s1, Char \ C) - s1
      BY <1>5, Zenon DEF strspn
    <2>2. (s1 + j - 1) - s1 = j - 1
      BY <1>2
    <2>3. QED
      BY <1>7, <2>1, <2>2, Zenon
  <1>10. strpbrk(m, s1, s2) = Pointer(s1, Lowest(Places(t1, C), null))
    <2>1. {0} \cup Members(m, s2) = C \cup {0}
      BY <1>4
    <2>2. strpbrk(m, s1, s2) = IF u[i] = 0 THEN null ELSE s1 + i - 1
      BY <1>6, <2>1 DEF strpbrk
    <2>3. i \in DOMAIN u /\ u[i] \in C \cup {0} /\ \A k \in 1 .. i - 1 : u[k] \notin C \cup {0}
      BY <1>6 DEF FirstPlace
    <2>4. CASE i \in 1 .. n
      <3>1. u[i] # 0 /\ u[i] = t1[i] /\ u[i] \in C
        BY <1>1, <1>2, <2>3, <2>4
      <3>2. i \in Places(t1, C)
        BY <1>3, <2>4, <3>1 DEF Places
      <3>3. ASSUME NEW k \in Places(t1, C)
            PROVE  k \in Int /\ i <= k
        <4>1. k \in 1 .. n /\ t1[k] \in C
          BY <1>3, <3>3 DEF Places
        <4>2. u[k] \in C
          BY <1>1, <4>1
        <4>3. k \notin 1 .. i - 1
          BY <2>3, <4>2
        <4>4. QED
          BY <1>2, <4>1, <4>3
      <3>4. Lowest(Places(t1, C), null) = i
        BY <3>2, <3>3, LowestIs
      <3>5. Pointer(s1, i) = s1 + i - 1
        BY <1>2, PointerAt
      <3>6. QED
        BY <2>2, <3>1, <3>4, <3>5
    <2>5. CASE i \notin 1 .. n
      <3>1. i = n + 1
        BY <1>2, <2>5
      <3>2. ASSUME NEW k \in 1 .. n
            PROVE  t1[k] \notin C
        <4>1. k \in 1 .. i - 1
          BY <1>2, <3>1
        <4>2. QED
          BY <1>1, <2>3, <4>1
      <3>3. Places(t1, C) = {}
        BY <1>3, <3>2 DEF Places
      <3>4. Pointer(s1, Lowest(Places(t1, C), null)) = null
        BY <3>3 DEF Lowest, Pointer
      <3>5. QED
        BY <1>2, <2>2, <3>1, <3>4
    <2>6. QED
      BY <2>4, <2>5
  <1>11. QED
    BY <1>8, <1>9, <1>10 DEF u, C

Behind(text, p) == SubSeq(text, p + 1, Len(text))

LEMMA BehindExact ==
  ASSUME NEW S, NEW text \in Seq(S), NEW p \in 0 .. Len(text)
  PROVE  /\ Behind(text, p) \in Seq(S) /\ Len(Behind(text, p)) = Len(text) - p
         /\ \A i \in 1 .. Len(text) - p : Behind(text, p)[i] = text[p + i]
  <1>1. Len(text) \in Nat /\ \A i \in 1 .. Len(text) : text[i] \in S
    OBVIOUS
  <1>2. SubSeq(text, p + 1, Len(text)) = [i \in 1 .. Len(text) - (p + 1) + 1 |-> text[(p + 1) + i - 1]]
    BY <1>1
  <1>3. Len(text) - (p + 1) + 1 = Len(text) - p /\ Len(text) - p \in Nat
    BY <1>1
  <1>4. \A i \in 1 .. Len(text) - p : (p + 1) + i - 1 = p + i /\ p + i \in 1 .. Len(text)
    BY <1>1
  <1> DEFINE n == Len(text) - p
             g == [i \in 1 .. n |-> text[p + i]]
  <1>5. Behind(text, p) = g
    <2>1. Behind(text, p) = [i \in 1 .. n |-> text[(p + 1) + i - 1]]
      BY <1>2, <1>3 DEF Behind
    <2>2. QED
      BY <1>4, <2>1
  <1>6. g \in [1 .. n -> S]
    BY <1>1, <1>4
  <1> HIDE DEF g
  <1>7. g \in Seq(S) /\ Len(g) = n
    <2>1. n \in Nat
      BY <1>3
    <2> HIDE DEF n
    <2>2. QED
      BY <1>6, <2>1
  <1>8. \A i \in 1 .. n : g[i] = text[p + i]
    BY DEF g
  <1>9. QED
    BY <1>5, <1>7, <1>8

\* What is behind the first characters of a string is a string.
LEMMA StringBehind ==
  ASSUME NEW m, NEW size, NEW s, NEW text, Str(m, size, s, text), NEW p \in 0 .. Len(text)
  PROVE  Str(m, size, s + p, Behind(text, p))
  <1> DEFINE w == Behind(text, p)
             n == Len(text) - p
  <1>1. Lies(m, size, s, text, Len(text)) /\ Mem(m, size) /\ Size(m) = size
    BY StringLies, SizeExact DEF Str
  <1>2. s \in Nat /\ Len(text) \in Nat /\ size \in Nat /\ s + Len(text) + 1 <= size /\ m[s + Len(text)] = 0
    BY <1>1 DEF Lies
  <1>3. text \in Seq(1 .. UCHAR_MAX)
    BY DEF Str, CStrings
  <1>4. w \in Seq(1 .. UCHAR_MAX) /\ Len(w) = n /\ \A i \in 1 .. n : w[i] = text[p + i]
    BY <1>3, BehindExact
  <1> HIDE DEF w
  <1>5. ASSUME NEW i \in 1 .. n
        PROVE  m[(s + p) + i - 1] = w[i]
    <2>1. p + i \in 1 .. Len(text) /\ s + (p + i) - 1 = (s + p) + i - 1
      BY <1>2
    <2>2. m[s + (p + i) - 1] = text[p + i]
      BY <1>1, <2>1, Zenon DEF Lies
    <2>3. QED
      BY <1>4, <2>1, <2>2
  <1>6. (s + p) + n = s + Len(text) /\ s + p \in Nat /\ (s + p) + (n + 1) <= size
    BY <1>2
  <1>7. InMemory(m, s + p, Len(w) + 1) /\ m[(s + p) + Len(w)] = 0
    BY <1>1, <1>2, <1>4, <1>6 DEF InMemory
  <1>8. Holds(m, s + p, w)
    BY <1>4, <1>5, <1>7 DEF Holds
  <1>9. QED
    BY <1>1, <1>4, <1>8 DEF Str, CStrings, w

\* Whether t2 begins behind p characters of t1.
Occurs(t1, t2, p) == p + Len(t2) <= Len(t1) /\ \A j \in 1 .. Len(t2) : t1[p + j] = t2[j]

LEMMA HereExact ==
  ASSUME NEW m, NEW size, NEW s1, NEW s2, NEW t1, NEW t2, Str(m, size, s1, t1), Str(m, size, s2, t2),
         NEW p \in 0 .. Len(t1)
  PROVE  Here(m, s1 + p, s2) <=> Occurs(t1, t2, p)
  <1> DEFINE w == Behind(t1, p)
             q == s1 + p
             i == Differs(m, s2, q, size, {0})
  <1>1. Lies(m, size, s2, t2, Len(t2)) /\ Lies(m, size, s1, t1, Len(t1)) /\ Size(m) = size
    BY StringLies, SizeExact DEF Str
  <1>2. Len(t1) \in Nat /\ Len(t2) \in Nat /\ size \in Nat /\ s2 \in Nat /\ s2 + Len(t2) + 1 <= size
    BY <1>1 DEF Lies
  <1>3. t1 \in Seq(1 .. UCHAR_MAX)
    BY DEF Str, CStrings
  <1>4. Len(w) = Len(t1) - p /\ \A j \in 1 .. Len(t1) - p : w[j] = t1[p + j]
    BY <1>3, BehindExact
  <1>5. Str(m, size, q, w)
    BY StringBehind
  <1> HIDE DEF w, q
  <1>6. /\ i \in 0 .. size /\ Agree(t2, w, i)
        /\ i = size \/ i = Len(t2) \/ i = Len(w) \/ t2[i + 1] # w[i + 1]
    BY <1>2, <1>5, DiffersString
  <1>7. Here(m, q, s2) <=> m[s2 + i] = 0
    BY <1>1 DEF Here
  <1> HIDE DEF i
  <1>8. i \in Nat /\ i <= Len(t2) /\ i <= Len(w) /\ \A j \in 1 .. i : t2[j] = w[j]
    BY <1>6 DEF Agree
  <1>9. m[s2 + i] = 0 <=> i = Len(t2)
    <2>1. i \in 0 .. Len(t2)
      BY <1>2, <1>8
    <2>2. (i < Len(t2) => m[s2 + i] # 0) /\ (i = Len(t2) => m[s2 + i] = 0)
      BY <2>1, CharacterAt
    <2>3. QED
      BY <1>2, <1>8, <2>2
  <1>10. ASSUME i = Len(t2)
         PROVE  Occurs(t1, t2, p)
    <2>1. p + Len(t2) <= Len(t1) /\ \A j \in 1 .. Len(t2) : j \in 1 .. Len(t1) - p
      BY <1>2, <1>4, <1>8, <1>10
    <2>2. \A j \in 1 .. Len(t2) : t1[p + j] = t2[j]
      BY <1>4, <1>8, <1>10, <2>1
    <2>3. QED
      BY <2>1, <2>2 DEF Occurs
  <1>11. ASSUME Occurs(t1, t2, p), i # Len(t2)
         PROVE  FALSE
    <2>1. p + Len(t2) <= Len(t1) /\ \A j \in 1 .. Len(t2) : t1[p + j] = t2[j]
      BY <1>11 DEF Occurs
    <2>2. i < Len(t2) /\ i < Len(w) /\ i < size /\ i + 1 \in 1 .. Len(t2) /\ i + 1 \in 1 .. Len(t1) - p
      BY <1>2, <1>4, <1>8, <1>11, <2>1
    <2>3. t2[i + 1] # w[i + 1]
      BY <1>6, <2>2
    <2>4. QED
      BY <1>4, <2>1, <2>2, <2>3
  <1>12. QED
    BY <1>7, <1>9, <1>10, <1>11 DEF q

LEMMA OccursExact ==
  ASSUME NEW t1 \in CStrings, NEW t2 \in CStrings, NEW i \in 1 .. Len(t1) + 1
  PROVE  (i + Len(t2) <= Len(t1) + 1 /\ SubSeq(t1, i, i + Len(t2) - 1) = t2) <=> Occurs(t1, t2, i - 1)
  <1> DEFINE n == Len(t2)
             v == SubSeq(t1, i, i + n - 1)
  <1>1. t1 \in Seq(1 .. UCHAR_MAX) /\ t2 \in Seq(1 .. UCHAR_MAX)
    BY DEF CStrings
  <1>2. Len(t1) \in Nat /\ n \in Nat /\ i \in Int
    BY <1>1
  <1>3. i + n <= Len(t1) + 1 <=> (i - 1) + n <= Len(t1)
    BY <1>2
  <1>4. ASSUME i + n <= Len(t1) + 1
        PROVE  v = t2 <=> \A j \in 1 .. n : t1[(i - 1) + j] = t2[j]
    <2>1. v = [j \in 1 .. (i + n - 1) - i + 1 |-> t1[i + j - 1]]
      BY <1>1, <1>2, <1>4
    <2>2. (i + n - 1) - i + 1 = n /\ \A j \in 1 .. n : i + j - 1 = (i - 1) + j /\ i + j - 1 \in 1 .. Len(t1)
      BY <1>2, <1>4
    <2>3. v = [j \in 1 .. n |-> t1[(i - 1) + j]]
      BY <2>1, <2>2
    <2> HIDE DEF v
    <2>4. \A j \in 1 .. n : t1[(i - 1) + j] \in 1 .. UCHAR_MAX
      <3>1. \A k \in 1 .. Len(t1) : t1[k] \in 1 .. UCHAR_MAX
        BY <1>1
      <3>2. \A j \in 1 .. n : (i - 1) + j \in 1 .. Len(t1)
        BY <1>2, <2>2
      <3>3. QED
        BY <3>1, <3>2
    <2>5. v \in [1 .. n -> 1 .. UCHAR_MAX] /\ \A j \in 1 .. n : v[j] = t1[(i - 1) + j]
      BY <2>3, <2>4
    <2>6. v \in Seq(1 .. UCHAR_MAX) /\ Len(v) = n
      BY <1>2, <2>5
    <2>7. (\A j \in 1 .. n : v[j] = t2[j]) => v = t2
      BY <1>1, <2>6, SeqEqual
    <2>8. QED
      BY <2>5, <2>7
  <1>5. QED
    BY <1>3, <1>4 DEF Occurs

LEMMA strstrExact ==
  ASSUME NEW m, NEW size, NEW s1, NEW s2, NEW t1, NEW t2, Str(m, size, s1, t1), Str(m, size, s2, t2),
         NEW F, F = {i \in 1 .. Len(t1) + 1 : Occurs(t1, t2, i - 1)}
  PROVE  strstr(m, s1, s2) = Pointer(s1, Lowest(F, null))
  <1> DEFINE n == Len(t1)
             Stops(r) == Here(m, r, s2) \/ m[r] = 0
             Is(r) == r \in DOMAIN m /\ r >= s1 /\ Stops(r) /\ \A q \in s1 .. r - 1 : ~Here(m, q, s2)
               /\ m[q] # 0
             S == {p \in 0 .. n : Occurs(t1, t2, p)}
  <1>1. Lies(m, size, s1, t1, n)
    BY StringLies
  <1>2. n \in Nat /\ s1 \in Nat /\ size \in Nat /\ DOMAIN m = 0 .. size - 1 /\ s1 + n + 1 <= size
    BY <1>1 DEF Lies
  <1>3. \A p \in 0 .. n : Here(m, s1 + p, s2) <=> Occurs(t1, t2, p)
    BY HereExact
  <1>4. \A p \in 0 .. n : m[s1 + p] = 0 <=> p = n
    <2>1. ASSUME NEW p \in 0 .. n
          PROVE  m[s1 + p] = 0 <=> p = n
      <3>1. (p < n => m[s1 + p] # 0) /\ (p = n => m[s1 + p] = 0)
        BY CharacterAt
      <3>2. QED
        BY <1>2, <3>1
    <2>2. QED
      BY <2>1
  <1>5. PICK p : IsFirst(S, n, p)
    BY <1>2, FirstExists
  <1>6. p \in 0 .. n /\ (p = n \/ Occurs(t1, t2, p)) /\ \A k \in 0 .. p - 1 : k \in 0 .. n
          /\ ~Occurs(t1, t2, k) /\ k # n
    <2>1. p \in 0 .. n /\ (p = n \/ p \in S) /\ \A k \in 0 .. p - 1 : k \notin S
      BY <1>5 DEF IsFirst
    <2>2. \A k \in 0 .. p - 1 : k \in 0 .. n /\ k # n
      BY <1>2, <2>1
    <2>3. QED
      BY <2>1, <2>2
  <1> HIDE DEF n, S
  <1>7. \A q \in s1 .. (s1 + p) - 1 : ~Here(m, q, s2) /\ m[q] # 0
    <2>1. ASSUME NEW q \in s1 .. (s1 + p) - 1
          PROVE  ~Here(m, q, s2) /\ m[q] # 0
      <3>1. q - s1 \in 0 .. p - 1 /\ s1 + (q - s1) = q
        BY <1>2, <1>6
      <3>2. ~Here(m, s1 + (q - s1), s2) /\ m[s1 + (q - s1)] # 0
        BY <1>3, <1>4, <1>6, <3>1
      <3>3. QED
        BY <3>1, <3>2
    <2>2. QED
      BY <2>1
  <1>8. Is(s1 + p)
    <2>1. s1 + p \in 0 .. size - 1 /\ s1 + p >= s1
      BY <1>2, <1>6
    <2>2. Stops(s1 + p)
      BY <1>3, <1>4, <1>6
    <2>3. s1 + p \in DOMAIN m
      BY <1>2, <2>1
    <2>4. QED
      BY <1>7, <2>1, <2>2, <2>3, Zenon
  <1>9. ASSUME NEW r, Is(r)
        PROVE  r = s1 + p
    <2>1. r \in Int /\ s1 + p \in Int /\ r >= s1 /\ s1 + p >= s1
      BY <1>2, <1>6, <1>9
    <2>2. Stops(s1 + p) /\ Stops(r)
      BY <1>8, <1>9
    <2>3. r \notin s1 .. (s1 + p) - 1
      BY <1>7, <2>2
    <2>4. s1 + p \notin s1 .. r - 1
      BY <1>9, <2>2
    <2>5. QED
      BY <1>2, <1>6, <2>1, <2>3, <2>4
  <1> DEFINE found == CHOOSE r \in DOMAIN m :
                        /\ r >= s1
                        /\ Here(m, r, s2) \/ m[r] = 0
                        /\ \A q \in s1 .. r - 1 : ~Here(m, q, s2) /\ m[q] # 0
  <1>10. found = s1 + p
    BY <1>8, <1>9
  <1>11. strstr(m, s1, s2) = IF Here(m, found, s2) THEN found ELSE null
    BY Zenon DEF strstr
  <1> HIDE DEF found
  <1>12. strstr(m, s1, s2) = IF Occurs(t1, t2, p) THEN s1 + p ELSE null
    BY <1>3, <1>6, <1>10, <1>11
  <1>13. CASE Occurs(t1, t2, p)
    <2>1. p + 1 \in F
      BY <1>2, <1>6, <1>13 DEF n
    <2>2. ASSUME NEW j \in F
          PROVE  j \in Int /\ p + 1 <= j
      <3>1. j \in Int /\ j - 1 \in 0 .. n /\ Occurs(t1, t2, j - 1)
        BY <1>2 DEF n
      <3>2. j - 1 \notin 0 .. p - 1
        BY <1>6, <3>1
      <3>3. QED
        BY <1>2, <1>6, <3>1, <3>2
    <2>3. Lowest(F, null) = p + 1
      BY <2>1, <2>2, LowestIs
    <2>4. Pointer(s1, p + 1) = s1 + (p + 1) - 1
      BY <1>2, <1>6, PointerAt
    <2>5. s1 + (p + 1) - 1 = s1 + p
      BY <1>2, <1>6
    <2>6. QED
      BY <1>12, <1>13, <2>3, <2>4, <2>5
  <1>14. CASE ~Occurs(t1, t2, p)
    <2>1. p = n
      BY <1>6, <1>14
    <2>2. ASSUME NEW j \in F
          PROVE  FALSE
      <3>1. j - 1 \in 0 .. n /\ Occurs(t1, t2, j - 1)
        BY <1>2 DEF n
      <3>2. j - 1 \in 0 .. p - 1 \/ j - 1 = p
        BY <1>2, <2>1, <3>1
      <3>3. QED
        BY <1>6, <1>14, <3>1, <3>2
    <2>3. F = {}
      BY <2>2
    <2>4. QED
      BY <1>12, <1>14, <2>3 DEF Lowest, Pointer
  <1>15. QED
    BY <1>13, <1>14

LEMMA SearchesCorrect ==
  ASSUME NEW m, NEW size, NEW s1, NEW s2, NEW t1, NEW t2, Str(m, size, s1, t1), Str(m, size, s2, t2),
           NEW c \in Char
  PROVE  SearchesExact(m, s1, s2, t1, t2, c)
  <1> DEFINE u == Append(t1, 0)
             F == {i \in 1 .. Len(u) : i + Len(t2) <= Len(u) /\ SubSeq(t1, i, i + Len(t2) - 1) = t2}
             G == {i \in 1 .. Len(t1) + 1 : Occurs(t1, t2, i - 1)}
  <1>1. t1 \in CStrings /\ t2 \in CStrings
    BY DEF Str
  <1>2. Len(u) = Len(t1) + 1
    <2>1. t1 \in Seq(1 .. UCHAR_MAX)
      BY <1>1 DEF CStrings
    <2>2. t1 \in Seq(Int)
      BY <2>1, CharAssumption
    <2>3. QED
      BY <2>2, AppendProperties
  <1>3. F = G
    <2>1. ASSUME NEW i
          PROVE  i \in F <=> i \in G
      <3>1. i \in F <=> i \in 1 .. Len(t1) + 1
              /\ (i + Len(t2) <= Len(t1) + 1 /\ SubSeq(t1, i, i + Len(t2) - 1) = t2)
        BY <1>2, Zenon
      <3>2. i \in 1 .. Len(t1) + 1 => ((i + Len(t2) <= Len(t1) + 1 /\ SubSeq(t1, i, i + Len(t2) - 1) = t2) <=> Occurs(t1, t2, i - 1))
        BY <1>1, OccursExact, Zenon
      <3>3. i \in G <=> i \in 1 .. Len(t1) + 1 /\ Occurs(t1, t2, i - 1)
        BY Zenon
      <3> HIDE DEF F, G
      <3>4. QED
        BY <3>1, <3>2, <3>3, Zenon
    <2> HIDE DEF F, G
    <2>2. QED
      BY <2>1
  <1>4. strstr(m, s1, s2) = Pointer(s1, Lowest(G, null))
    BY strstrExact
  <1> HIDE DEF G
  <1>5. strstr(m, s1, s2) = Pointer(s1, Lowest(F, null))
    BY <1>3, <1>4
  <1>6. strlen(m, s1) = Len(t1)
    BY strlenExact
  <1>7. strchr(m, s1, c) = Pointer(s1, Lowest(Places(u, {c}), null))
    BY strchrExact
  <1>8. strrchr(m, s1, c) = Pointer(s1, Highest(Places(u, {c}), null))
    BY strrchrExact
  <1>9. /\ strcspn(m, s1, s2) = Lowest(Places(u, CharsOf(t2) \cup {0}), null) - 1
        /\ strspn(m, s1, s2) = Lowest(Places(u, Char \ CharsOf(t2)), null) - 1
        /\ strpbrk(m, s1, s2) = Pointer(s1, Lowest(Places(t1, CharsOf(t2)), null))
    BY SpansExact
  <1>10. QED
    BY <1>5, <1>6, <1>7, <1>8, <1>9, Zenon DEF SearchesExact

(***************************************************************************)
(* Blocks.                                                                 *)
(***************************************************************************)

LEMMA BlockExact ==
  ASSUME NEW m, NEW size, Mem(m, size), NEW s \in Nat, NEW n \in Nat, s + n <= size
  PROVE  /\ Block(m, s, n) \in Seq(Int) /\ Len(Block(m, s, n)) = n /\ DOMAIN Block(m, s, n) = 1 .. n
         /\ \A i \in 1 .. n : Block(m, s, n)[i] = m[s + i - 1]
         /\ Spells(m, s, n, Block(m, s, n))
  <1> DEFINE b == Block(m, s, n)
  <1>1. size \in Nat /\ m \in [0 .. size - 1 -> Char]
    BY DEF Mem
  <1>2. \A i \in 1 .. n : s + i - 1 \in 0 .. size - 1
    BY <1>1
  <1>3. \A r \in 0 .. size - 1 : m[r] \in Int
    <2>1. \A r \in 0 .. size - 1 : m[r] \in Char
      BY <1>1
    <2>2. QED
      BY <2>1 DEF Char
  <1>4. b \in [1 .. n -> Int]
    BY <1>2, <1>3 DEF Block
  <1>5. \A i \in 1 .. n : b[i] = m[s + i - 1]
    BY DEF Block
  <1> HIDE DEF b
  <1>6. b \in Seq(Int) /\ Len(b) = n /\ DOMAIN b = 1 .. n
    BY <1>4
  <1>7. Spells(m, s, n, b)
    BY <1>5, <1>6 DEF Spells
  <1>8. QED
    BY <1>5, <1>6, <1>7 DEF b

LEMMA memcmpExact ==
  ASSUME NEW m, NEW size, NEW s1, NEW s2, NEW n, Copyable(m, size, s1, s2, n)
  PROVE  Signum(memcmp(m, s1, s2, n)) = Order(Block(m, s1, n), Block(m, s2, n))
  <1> DEFINE u == Block(m, s1, n)
             v == Block(m, s2, n)
             i == Differs(m, s1, s2, n, {})
  <1>1. Mem(m, size) /\ s1 \in Nat /\ s2 \in Nat /\ n \in Nat /\ s1 + n <= size /\ s2 + n <= size
    BY DEF Copyable
  <1>2. /\ u \in Seq(Int) /\ Len(u) = n /\ \A k \in 1 .. n : u[k] = m[s1 + k - 1]
        /\ v \in Seq(Int) /\ Len(v) = n /\ \A k \in 1 .. n : v[k] = m[s2 + k - 1]
    BY <1>1, BlockExact
  <1>3. IsDiffers(m, s1, s2, n, {}, i)
    BY <1>1, DiffersExists
  <1>4. memcmp(m, s1, s2, n) = IF i = n THEN 0 ELSE m[s1 + i] - m[s2 + i]
    BY DEF memcmp
  <1> HIDE DEF u, v, i
  <1>5. i \in 0 .. n /\ (i = n \/ m[s1 + i] # m[s2 + i]) /\ \A k \in 0 .. i - 1 : m[s1 + k] = m[s2 + k]
    BY <1>3 DEF IsDiffers, Unlike
  <1>6. Agree(u, v, i)
    <2>1. ASSUME NEW j \in 1 .. i
          PROVE  u[j] = v[j]
      <3>1. j - 1 \in 0 .. i - 1 /\ j \in 1 .. n /\ s1 + j - 1 = s1 + (j - 1) /\ s2 + j - 1 = s2 + (j - 1)
        BY <1>1, <1>5
      <3>2. QED
        BY <1>2, <1>5, <3>1
    <2>2. i \in Nat /\ i <= n
      BY <1>1, <1>5
    <2>3. QED
      BY <1>2, <2>1, <2>2 DEF Agree
  <1>7. CASE i = n
    <2>1. Order(u, v) = 0
      BY <1>2, <1>6, <1>7, OrderEqual
    <2>2. QED
      BY <1>4, <1>7, <2>1 DEF Signum, u, v
  <1>8. CASE i # n
    <2>1. i < n /\ i + 1 \in 1 .. n /\ s1 + (i + 1) - 1 = s1 + i /\ s2 + (i + 1) - 1 = s2 + i
      BY <1>1, <1>5, <1>8
    <2>2. u[i + 1] = m[s1 + i] /\ v[i + 1] = m[s2 + i] /\ u[i + 1] \in Int /\ v[i + 1] \in Int
      BY <1>2, <2>1
    <2> DEFINE a == m[s1 + i]
               b == m[s2 + i]
    <2>3. a \in Int /\ b \in Int /\ a # b /\ memcmp(m, s1, s2, n) = a - b
      BY <1>4, <1>5, <1>8, <2>2
    <2>4. CASE a < b
      <3>1. Order(u, v) = -1
        BY <1>2, <1>6, <2>1, <2>2, <2>4, OrderLess
      <3> HIDE DEF a, b
      <3>2. Signum(a - b) = -1
        BY <2>3, <2>4 DEF Signum
      <3>3. QED
        BY <2>3, <3>1, <3>2 DEF u, v
    <2>5. CASE a > b
      <3>1. Order(u, v) = 1
        BY <1>2, <1>6, <2>1, <2>2, <2>5, OrderMore
      <3> HIDE DEF a, b
      <3>2. Signum(a - b) = 1
        BY <2>3, <2>5 DEF Signum
      <3>3. QED
        BY <2>3, <3>1, <3>2 DEF u, v
    <2>6. QED
      BY <2>3, <2>4, <2>5
  <1>9. QED
    BY <1>7, <1>8

LEMMA memchrExact ==
  ASSUME NEW m, NEW size, Mem(m, size), NEW s \in Nat, NEW n \in Nat, s + n <= size, NEW c
  PROVE  memchr(m, s, c, n) = Pointer(s, Lowest(Places(Block(m, s, n), {c}), null))
  <1> DEFINE u == Block(m, s, n)
             i == Within(m, s, n, {c})
             P == Places(u, {c})
  <1>1. DOMAIN u = 1 .. n /\ \A k \in 1 .. n : u[k] = m[s + k - 1]
    BY BlockExact
  <1>2. IsWithin(m, s, n, {c}, i)
    BY WithinExists
  <1>3. memchr(m, s, c, n) = IF i = n THEN null ELSE s + i
    BY DEF memchr
  <1> HIDE DEF u, i
  <1>4. i \in 0 .. n /\ (i = n \/ m[s + i] = c) /\ \A k \in 0 .. i - 1 : m[s + k] # c
    BY <1>2 DEF IsWithin
  <1>5. ASSUME NEW j \in P
        PROVE  j \in 1 .. n /\ j \notin 1 .. i
    <2>1. j \in 1 .. n /\ m[s + j - 1] = c
      BY <1>1 DEF Places
    <2>2. s + j - 1 = s + (j - 1)
      BY <2>1
    <2>3. j - 1 \notin 0 .. i - 1
      BY <1>4, <2>1, <2>2
    <2>4. QED
      BY <1>4, <2>1, <2>3
  <1>6. CASE i = n
    <2>1. P = {}
      BY <1>5, <1>6
    <2> HIDE DEF P
    <2>2. Pointer(s, Lowest(P, null)) = null
      BY <2>1 DEF Lowest, Pointer
    <2>3. QED
      BY <1>3, <1>6, <2>2 DEF P, u
  <1>7. CASE i # n
    <2>1. i + 1 \in 1 .. n /\ s + (i + 1) - 1 = s + i /\ i + 1 \in Nat
      BY <1>4, <1>7
    <2>2. i + 1 \in P
      BY <1>1, <1>4, <1>7, <2>1 DEF Places
    <2>3. \A j \in P : j \in Int /\ i + 1 <= j
      BY <1>4, <1>5
    <2> HIDE DEF P
    <2>4. Lowest(P, null) = i + 1
      BY <2>2, <2>3, LowestIs
    <2>5. Pointer(s, i + 1) = s + (i + 1) - 1
      BY <2>1, PointerAt
    <2>6. QED
      BY <1>3, <1>7, <2>1, <2>4, <2>5 DEF P, u
  <1>8. QED
    BY <1>6, <1>7

LEMMA BlocksCorrect ==
  ASSUME NEW m, NEW size, NEW s1, NEW s2, NEW n, Copyable(m, size, s1, s2, n), NEW c
  PROVE  BlocksExact(m, s1, s2, n, c)
  <1>1. Mem(m, size) /\ s1 \in Nat /\ s2 \in Nat /\ n \in Nat /\ s1 + n <= size /\ s2 + n <= size
    BY DEF Copyable
  <1>2. Spells(m, s2, n, Block(m, s2, n))
    BY <1>1, BlockExact
  <1>3. Written(m, Moved(m, s1, s2, n), s1, Block(m, s2, n))
    BY <1>2, MovedWritten
  <1>4. memmove(m, s1, s2, n) = Moved(m, s1, s2, n)
    BY memmoveExact
  <1>5. ASSUME Apart(s1, n, s2, n)
        PROVE  memcpy(m, s1, s2, n) = Moved(m, s1, s2, n)
    <2>1. s1 <= s2 \/ s2 + n <= s1
      BY <1>1, <1>5 DEF Apart
    <2>2. QED
      BY <2>1, memcpyExact
  <1>6. Signum(memcmp(m, s1, s2, n)) = Order(Block(m, s1, n), Block(m, s2, n))
    BY memcmpExact
  <1>7. memchr(m, s1, c, n) = Pointer(s1, Lowest(Places(Block(m, s1, n), {c}), null))
    BY <1>1, memchrExact
  <1>8. QED
    BY <1>3, <1>4, <1>5, <1>6, <1>7 DEF BlocksExact

(***************************************************************************)
(* Tokens.                                                                 *)
(***************************************************************************)

LEMMA StringKept ==
  ASSUME NEW m, NEW size, NEW s, NEW text, Str(m, size, s, text),
         NEW q, Mem(q, size), \A r \in s .. s + Len(text) : q[r] = m[r]
  PROVE  Str(q, size, s, text)
  <1>1. Lies(m, size, s, text, Len(text)) /\ Size(q) = size
    BY StringLies, SizeExact DEF Str
  <1>2. s \in Nat /\ Len(text) \in Nat /\ size \in Nat /\ s + (Len(text) + 1) <= size
    BY <1>1 DEF Lies
  <1>3. \A i \in 1 .. Len(text) : s + i - 1 \in s .. s + Len(text)
    BY <1>2
  <1>4. \A i \in 1 .. Len(text) : m[s + i - 1] = text[i]
    BY <1>1 DEF Lies
  <1>5. \A i \in 1 .. Len(text) : q[s + i - 1] = text[i]
    BY <1>3, <1>4
  <1>6. s + Len(text) \in s .. s + Len(text) /\ m[s + Len(text)] = 0
    BY <1>1, <1>2 DEF Lies
  <1>7. q[s + Len(text)] = 0
    BY <1>6
  <1>8. Holds(q, s, text)
    BY <1>1, <1>2, <1>5, <1>7 DEF Holds, InMemory
  <1>9. QED
    BY <1>8 DEF Str

\* What a call of strtok does when the text goes on behind p characters:
\* there is no token left, or the next is from a to b - 1.
NoToken(q, s1, t1, C, p, r) ==
  /\ \A k \in p + 1 .. Len(t1) : t1[k] \in C
  /\ r = [m |-> q, last |-> null, token |-> null]

IsToken(t1, C, p, a, b) ==
  /\ a \in p + 1 .. Len(t1) /\ b \in a + 1 .. Len(t1) + 1
  /\ \A k \in p + 1 .. a - 1 : t1[k] \in C
  /\ \A k \in a .. b - 1 : t1[k] \notin C
  /\ b = Len(t1) + 1 \/ t1[b] \in C

Token(q, s1, t1, C, p, r, a, b) ==
  /\ IsToken(t1, C, p, a, b)
  /\ r = [m |-> [q EXCEPT ![s1 + (b - 1)] = 0],
          last |-> IF b = Len(t1) + 1 THEN null ELSE s1 + b,
          token |-> s1 + (a - 1)]

SpanTo(text, C) == Lowest(Places(Append(text, 0), C), null)

LEMMA strcspnTo ==
  ASSUME NEW m, NEW size, NEW s1, NEW s2, NEW t1, NEW t2, Str(m, size, s1, t1), Str(m, size, s2, t2),
         NEW C, C = CharsOf(t2) \cup {0}
  PROVE  strcspn(m, s1, s2) = SpanTo(t1, C) - 1
  <1>1. /\ strcspn(m, s1, s2) = Lowest(Places(Append(t1, 0), CharsOf(t2) \cup {0}), null) - 1
        /\ strspn(m, s1, s2) = Lowest(Places(Append(t1, 0), Char \ CharsOf(t2)), null) - 1
        /\ strpbrk(m, s1, s2) = Pointer(s1, Lowest(Places(t1, CharsOf(t2)), null))
    BY SpansExact
  <1>2. strcspn(m, s1, s2) = Lowest(Places(Append(t1, 0), CharsOf(t2) \cup {0}), null) - 1
    BY <1>1, Zenon
  <1>3. QED
    BY <1>2, Zenon DEF SpanTo

LEMMA strspnTo ==
  ASSUME NEW m, NEW size, NEW s1, NEW s2, NEW t1, NEW t2, Str(m, size, s1, t1), Str(m, size, s2, t2),
         NEW C, C = Char \ CharsOf(t2)
  PROVE  strspn(m, s1, s2) = SpanTo(t1, C) - 1
  <1>1. /\ strcspn(m, s1, s2) = Lowest(Places(Append(t1, 0), CharsOf(t2) \cup {0}), null) - 1
        /\ strspn(m, s1, s2) = Lowest(Places(Append(t1, 0), Char \ CharsOf(t2)), null) - 1
        /\ strpbrk(m, s1, s2) = Pointer(s1, Lowest(Places(t1, CharsOf(t2)), null))
    BY SpansExact
  <1>2. strspn(m, s1, s2) = Lowest(Places(Append(t1, 0), Char \ CharsOf(t2)), null) - 1
    BY <1>1, Zenon
  <1>3. QED
    BY <1>2, Zenon DEF SpanTo

\* A search behind p characters of a text for the first of C, or its zero.
BehindAt(m, s1, t1, p, C, a) ==
  /\ a \in p + 1 .. Len(t1) + 1
  /\ SpanTo(Behind(t1, p), C) = a - p
  /\ a = Len(t1) + 1 \/ t1[a] \in C
  /\ \A k \in p + 1 .. a - 1 : t1[k] \notin C
  /\ m[s1 + (a - 1)] = IF a = Len(t1) + 1 THEN 0 ELSE t1[a]

LEMMA SearchBehind ==
  ASSUME NEW m, NEW size, NEW s1 \in Nat, NEW t1 \in CStrings, NEW p \in 0 .. Len(t1),
         Str(m, size, s1 + p, Behind(t1, p)), NEW C, 0 \in C
  PROVE  \E a \in Int : BehindAt(m, s1, t1, p, C, a)
  <1> DEFINE w == Behind(t1, p)
             u == Append(w, 0)
             n == Len(t1) - p
  <1>1. t1 \in Seq(1 .. UCHAR_MAX) /\ Len(t1) \in Nat /\ n \in Nat /\ p \in Int
    BY DEF CStrings
  <1>2. Len(w) = n /\ \A i \in 1 .. n : w[i] = t1[p + i]
    BY <1>1, BehindExact
  <1>3. Ended(m, size, s1 + p, u, Len(w)) /\ \A i \in 1 .. Len(w) : u[i] = w[i]
    BY StringEnded
  <1>4. u[n + 1] = 0
    BY <1>2, <1>3 DEF Ended
  <1>5. PICK i \in 1 .. Len(w) + 1 :
          /\ FirstPlace(u, C, i)
          /\ Lowest(Places(u, C), null) = i
          /\ m[(s1 + p) + i - 1] = u[i]
    BY ScanText
  <1> HIDE DEF u, w
  <1>6. u[i] \in C /\ \A k \in 1 .. i - 1 : u[k] \notin C
    BY <1>5 DEF FirstPlace
  <1>7. i \in 1 .. n + 1 /\ \A k \in 1 .. n : u[k] = t1[p + k]
    BY <1>2, <1>3, <1>5
  <1> DEFINE a == p + i
  <1>8. a \in p + 1 .. Len(t1) + 1 /\ a - p = i /\ (p + i) - p = i /\ (s1 + p) + i - 1 = s1 + (a - 1)
          /\ (i = n + 1 <=> a = Len(t1) + 1) /\ (i # n + 1 => i \in 1 .. n)
    BY <1>1, <1>7
  <1>9. a = Len(t1) + 1 \/ t1[a] \in C
    BY <1>6, <1>7, <1>8
  <1>10. ASSUME NEW k \in p + 1 .. a - 1
         PROVE  t1[k] \notin C
    <2>1. k - p \in 1 .. i - 1 /\ k - p \in 1 .. n /\ p + (k - p) = k
      BY <1>1, <1>7
    <2>2. QED
      BY <1>6, <1>7, <2>1
  <1>11. m[s1 + (a - 1)] = IF a = Len(t1) + 1 THEN 0 ELSE t1[a]
    BY <1>4, <1>5, <1>7, <1>8
  <1>12. Lowest(Places(u, C), null) = a - p
    BY <1>5, <1>8
  <1>13. SpanTo(Behind(t1, p), C) = a - p
    BY <1>12, Zenon DEF SpanTo, u, w
  <1> HIDE DEF a
  <1>14. BehindAt(m, s1, t1, p, C, a)
    BY <1>8, <1>9, <1>10, <1>11, <1>13, Zenon DEF BehindAt
  <1>15. a \in Int
    BY <1>1, <1>8
  <1>16. QED
    BY <1>14, <1>15

LEMMA strtokExact ==
  ASSUME NEW m, NEW size, NEW s1 \in Nat, NEW s2, NEW t1 \in CStrings, NEW t2, NEW p \in 0 .. Len(t1),
         Str(m, size, s1 + p, Behind(t1, p)), Str(m, size, s2, t2),
         NEW place, NEW s, (IF s = null THEN place ELSE s) = s1 + p
  PROVE  LET r == strtok(m, place, s, s2)
             C == CharsOf(t2)
         IN  NoToken(m, s1, t1, C, p, r) \/ \E a, b \in Int : Token(m, s1, t1, C, p, r, a, b)
  <1> DEFINE r == strtok(m, place, s, s2)
             C == CharsOf(t2)
             w == Behind(t1, p)
             start == (s1 + p) + strspn(m, s1 + p, s2)
             end == start + 1 + strcspn(m, start + 1, s2)
  <1>1. t1 \in Seq(1 .. UCHAR_MAX) /\ Len(t1) \in Nat /\ p \in Int
          /\ \A k \in 1 .. Len(t1) : t1[k] \in 1 .. UCHAR_MAX
    BY DEF CStrings
  <1>2. r = IF m[start] = 0 THEN [m |-> m, last |-> null, token |-> null]
            ELSE [m |-> [m EXCEPT ![end] = 0], last |-> IF m[end] = 0 THEN null ELSE end + 1, token |-> start]
    <2> DEFINE f == IF s = null THEN place ELSE s
    <2>1. f = s1 + p /\ f # null
      BY DEF null
    <2> DEFINE st == f + strspn(m, f, s2)
               en == st + 1 + strcspn(m, st + 1, s2)
    <2>2. r = CASE f = null -> [m |-> m, last |-> place, token |-> null]
                [] f # null /\ m[st] = 0 -> [m |-> m, last |-> null, token |-> null]
                [] OTHER -> [m |-> [m EXCEPT ![en] = 0], last |-> IF m[en] = 0 THEN null ELSE en + 1, token |-> st]
      BY Zenon DEF strtok
    <2>3. st = start /\ en = end
      BY <2>1, Zenon
    <2> HIDE DEF st, en, start, end, r, f
    <2>4. QED
      BY <2>1, <2>2, <2>3
  <1>3. C \subseteq 1 .. UCHAR_MAX
    BY MembersExact
  <1>4. 0 \in Char \ C /\ 0 \in C \cup {0} /\ \A k \in 1 .. Len(t1) : t1[k] \in Char
    BY <1>1, <1>3 DEF Char
  <1> DEFINE D == Char \ C
             E == C \cup {0}
  <1>5. (\A k \in 1 .. Len(t1) : t1[k] \in D <=> t1[k] \notin C)
          /\ (\A k \in 1 .. Len(t1) : t1[k] \in E <=> t1[k] \in C) /\ 0 \in D /\ 0 \in E
    BY <1>1, <1>4
  <1>6. D = Char \ CharsOf(t2) /\ E = CharsOf(t2) \cup {0}
    OBVIOUS
  <1> HIDE DEF D
  <1>7. strspn(m, s1 + p, s2) = SpanTo(w, D) - 1
    BY <1>6, strspnTo
  <1>8. PICK a \in Int : BehindAt(m, s1, t1, p, D, a)
    BY <1>5, SearchBehind
  <1>9. /\ a \in p + 1 .. Len(t1) + 1
        /\ SpanTo(w, D) = a - p
        /\ a = Len(t1) + 1 \/ t1[a] \in D
        /\ \A k \in p + 1 .. a - 1 : t1[k] \notin D
        /\ m[s1 + (a - 1)] = IF a = Len(t1) + 1 THEN 0 ELSE t1[a]
    BY <1>8, Zenon DEF BehindAt
  <1>10. strspn(m, s1 + p, s2) = (a - p) - 1
    BY <1>7, <1>9
  <1>11. start = s1 + (a - 1)
    BY <1>1, <1>9, <1>10
  <1> HIDE DEF r, w, C
  <1>12. \A k \in p + 1 .. a - 1 : k \in 1 .. Len(t1)
    BY <1>1, <1>9
  <1>13. \A k \in p + 1 .. a - 1 : t1[k] \in C
    BY <1>5, <1>9, <1>12
  <1>14. CASE a = Len(t1) + 1
    <2>1. \A k \in p + 1 .. Len(t1) : k \in p + 1 .. a - 1
      BY <1>1, <1>14
    <2>2. r = [m |-> m, last |-> null, token |-> null]
      <3> HIDE DEF start, end
      <3>1. QED
        BY <1>2, <1>9, <1>11, <1>14
    <2>3. NoToken(m, s1, t1, C, p, r)
      BY <1>13, <2>1, <2>2 DEF NoToken
    <2>4. QED
      BY <2>3 DEF r, C
  <1>15. CASE a # Len(t1) + 1
    <2>1. a \in p + 1 .. Len(t1) + 1
      BY <1>9
    <2>2. a \in 1 .. Len(t1) /\ a \in 0 .. Len(t1) /\ a \in p + 1 .. Len(t1) /\ start + 1 = s1 + a
      <3> HIDE DEF start, end
      <3>1. QED
        BY <1>1, <1>11, <1>15, <2>1
    <2>3. m[start] # 0 /\ t1[a] \notin C
      <3>1. t1[a] \in D /\ m[start] = t1[a]
        BY <1>9, <1>11, <1>15
      <3>2. t1[a] \in 1 .. UCHAR_MAX
        BY <1>1, <2>2
      <3> HIDE DEF start, end
      <3>3. t1[a] # 0
        BY <3>2
      <3>4. QED
        BY <1>5, <2>2, <3>1, <3>3
    <2>4. Str(m, size, s1 + a, Behind(t1, a))
      <3>1. Len(Behind(t1, p)) = Len(t1) - p /\ \A i \in 1 .. Len(t1) - p : Behind(t1, p)[i] = t1[p + i]
        BY <1>1, BehindExact
      <3> DEFINE v == Behind(t1, p)
                 x == Behind(v, a - p)
      <3>2. a - p \in 0 .. Len(v)
        BY <1>1, <2>2, <3>1
      <3>3. Str(m, size, (s1 + p) + (a - p), x)
        BY <3>2, StringBehind
      <3>4. (s1 + p) + (a - p) = s1 + a
        BY <1>1, <2>2
      <3>5. x = Behind(t1, a)
        <4>1. v \in Seq(1 .. UCHAR_MAX)
          BY <1>1, BehindExact
        <4>2. Behind(t1, a) \in Seq(1 .. UCHAR_MAX) /\ Len(Behind(t1, a)) = Len(t1) - a
              /\ \A i \in 1 .. Len(t1) - a : Behind(t1, a)[i] = t1[a + i]
          BY <1>1, <2>2, BehindExact
        <4>3. x \in Seq(1 .. UCHAR_MAX) /\ Len(x) = Len(v) - (a - p)
              /\ \A i \in 1 .. Len(v) - (a - p) : x[i] = v[(a - p) + i]
          BY <3>2, <4>1, BehindExact
        <4> HIDE DEF x, v
        <4>4. Len(v) = Len(t1) - p /\ Len(v) - (a - p) = Len(t1) - a
          BY <1>1, <2>2, <3>1 DEF v
        <4>5. ASSUME NEW i \in 1 .. Len(t1) - a
              PROVE  x[i] = Behind(t1, a)[i]
          <5>1. (a - p) + i \in 1 .. Len(t1) - p /\ p + ((a - p) + i) = a + i
            BY <1>1, <2>2
          <5>2. v[(a - p) + i] = t1[a + i]
            BY <3>1, <5>1 DEF v
          <5>3. QED
            BY <4>2, <4>3, <4>4, <5>2
        <4>6. QED
          BY <4>2, <4>3, <4>4, <4>5, SeqEqual
      <3>6. QED
        BY <3>3, <3>4, <3>5
    <2>5. strcspn(m, s1 + a, s2) = SpanTo(Behind(t1, a), E) - 1
      <3> HIDE DEF E
      <3>1. QED
        BY <1>6, <2>4, strcspnTo
    <2> HIDE DEF E
    <2>6. PICK b \in Int : BehindAt(m, s1, t1, a, E, b)
      BY <1>5, <2>2, <2>4, SearchBehind
    <2>7. /\ b \in a + 1 .. Len(t1) + 1
          /\ SpanTo(Behind(t1, a), E) = b - a
          /\ b = Len(t1) + 1 \/ t1[b] \in E
          /\ \A k \in a + 1 .. b - 1 : t1[k] \notin E
          /\ m[s1 + (b - 1)] = IF b = Len(t1) + 1 THEN 0 ELSE t1[b]
      BY <2>6, Zenon DEF BehindAt
    <2>8. strcspn(m, s1 + a, s2) = (b - a) - 1
      BY <2>5, <2>7
    <2>9. start + 1 + ((b - a) - 1) = s1 + (b - 1) /\ (s1 + (b - 1)) + 1 = s1 + b
      BY <1>11, <2>2
    <2>10. end = s1 + (b - 1) /\ end + 1 = s1 + b
      BY <2>2, <2>8, <2>9
    <2>11. b \in a + 1 .. Len(t1) + 1
      BY <2>7
    <2>12. b # Len(t1) + 1 => b \in 1 .. Len(t1)
      <3> HIDE DEF start, end
      <3>1. a \in 1 .. Len(t1)
        BY <2>2
      <3>2. Len(t1) \in Nat
        BY <1>1
      <3>3. QED
        BY <2>11, <3>1, <3>2
    <2>13. b = Len(t1) + 1 \/ (t1[b] \in C /\ t1[b] # 0)
      BY <1>1, <1>5, <2>7, <2>12
    <2>14. \A k \in a .. b - 1 : t1[k] \notin C
      <3>1. \A k \in a .. b - 1 : k = a \/ (k \in a + 1 .. b - 1 /\ k \in 1 .. Len(t1))
        BY <1>1, <2>2, <2>7
      <3>2. QED
        BY <1>5, <2>3, <2>7, <3>1
    <2>15. r = [m |-> [m EXCEPT ![s1 + (b - 1)] = 0],
                last |-> IF b = Len(t1) + 1 THEN null ELSE s1 + b,
                token |-> s1 + (a - 1)]
      <3>1. m[end] = 0 <=> b = Len(t1) + 1
        BY <2>7, <2>10, <2>13
      <3> HIDE DEF start, end
      <3>2. QED
        BY <1>2, <1>11, <2>3, <2>10, <3>1
    <2>16. IsToken(t1, C, p, a, b)
      BY <1>13, <2>2, <2>7, <2>13, <2>14 DEF IsToken
    <2>17. Token(m, s1, t1, C, p, r, a, b) /\ a \in Int /\ b \in Int
      BY <2>2, <2>7, <2>15, <2>16 DEF Token
    <2>18. QED
      BY <2>17 DEF r, C
  <1>16. QED
    BY <1>14, <1>15

\* The runs of characters that are not in C.
LEMMA RunExact ==
  ASSUME NEW text \in CStrings, NEW C, NEW r \in Runs(text, C)
  PROVE  /\ r[1] \in 1 .. Len(text) /\ r[2] \in 1 .. Len(text) /\ r[1] <= r[2]
         /\ \A i \in r[1] .. r[2] : text[i] \notin C
         /\ r[1] = 1 \/ text[r[1] - 1] \in C
  <1>1. DOMAIN text = 1 .. Len(text)
    BY DEF CStrings
  <1>2. r \in (DOMAIN text) \X (DOMAIN text)
    BY DEF Runs
  <1>3. r[1] \in DOMAIN text /\ r[2] \in DOMAIN text
    BY <1>2
  <1>4. r[1] <= r[2] /\ (\A i \in r[1] .. r[2] : text[i] \notin C) /\ (r[1] = 1 \/ text[r[1] - 1] \in C)
    BY DEF Runs
  <1>5. QED
    BY <1>1, <1>3, <1>4

LEMMA TokenRuns ==
  ASSUME NEW text \in CStrings, NEW C, NEW p \in 0 .. Len(text), p = 0
           \/ text[p] \in C, NEW a, NEW b, IsToken(text, C, p, a, b)
  PROVE  /\ <<a, b - 1>> \in Runs(text, C)
         /\ \A r \in Runs(text, C) : r[1] <= b <=> r[1] <= p \/ r[1] = a
         /\ \A r \in Runs(text, C) : r[1] < a <=> r[1] <= p
  <1>1. Len(text) \in Nat /\ DOMAIN text = 1 .. Len(text)
    BY DEF CStrings
  <1>2. /\ a \in p + 1 .. Len(text) /\ b \in a + 1 .. Len(text) + 1
        /\ \A k \in p + 1 .. a - 1 : text[k] \in C
        /\ \A k \in a .. b - 1 : text[k] \notin C
        /\ b = Len(text) + 1 \/ text[b] \in C
    BY DEF IsToken
  <1>3. a \in 1 .. Len(text) /\ b - 1 \in 1 .. Len(text) /\ a <= b - 1 /\ (b - 1) + 1 = b
    BY <1>1, <1>2
  <1>4. a = 1 \/ text[a - 1] \in C
    <2>1. a - 1 = p \/ a - 1 \in p + 1 .. a - 1
      BY <1>1, <1>2
    <2>2. QED
      BY <1>1, <1>2, <2>1
  <1>5. <<a, b - 1>> \in Runs(text, C)
    <2>1. b - 1 = Len(text) \/ text[(b - 1) + 1] \in C
      BY <1>1, <1>2, <1>3
    <2> DEFINE r == <<a, b - 1>>
    <2>2. r \in (DOMAIN text) \X (DOMAIN text) /\ r[1] = a /\ r[2] = b - 1
      BY <1>1, <1>3
    <2> HIDE DEF r
    <2>3. r \in Runs(text, C)
      BY <1>2, <1>3, <1>4, <2>1, <2>2 DEF Runs
    <2>4. QED
      BY <2>3 DEF r
  <1>6. ASSUME NEW r \in Runs(text, C)
        PROVE  (r[1] <= b <=> r[1] <= p \/ r[1] = a) /\ (r[1] < a <=> r[1] <= p)
    <2> DEFINE x == r[1]
    <2>1. x \in 1 .. Len(text) /\ text[x] \notin C /\ (x = 1 \/ text[x - 1] \in C)
      <3>1. r[1] \in 1 .. Len(text) /\ r[2] \in 1 .. Len(text) /\ r[1] <= r[2]
              /\ (r[1] = 1 \/ text[r[1] - 1] \in C)
        BY RunExact
      <3>2. \A i \in r[1] .. r[2] : text[i] \notin C
        BY RunExact
      <3>3. r[1] \in r[1] .. r[2]
        BY <3>1
      <3>4. QED
        BY <3>1, <3>2, <3>3
    <2> HIDE DEF x
    <2>2. x \notin p + 1 .. a - 1
      BY <1>2, <2>1
    <2>3. x - 1 \notin a .. b - 1
      BY <1>1, <1>2, <2>1
    <2>4. x # b
      BY <1>1, <1>2, <2>1
    <2>5. (x <= b <=> x <= p \/ x = a) /\ (x < a <=> x <= p)
      BY <1>1, <1>2, <2>1, <2>2, <2>3, <2>4
    <2>6. QED
      BY <2>5 DEF x
  <1>7. QED
    BY <1>5, <1>6

LEMMA PieceExact ==
  ASSUME NEW text \in CStrings, NEW a \in 1 .. Len(text), NEW b \in 1 .. Len(text), a <= b
  PROVE  /\ SubSeq(text, a, b) \in CStrings /\ Len(SubSeq(text, a, b)) = b - a + 1
         /\ \A i \in 1 .. b - a + 1 : SubSeq(text, a, b)[i] = text[a + (i - 1)]
  <1> DEFINE n == b - a + 1
             g == [i \in 1 .. n |-> text[a + (i - 1)]]
  <1>1. Len(text) \in Nat /\ \A i \in 1 .. Len(text) : text[i] \in 1 .. UCHAR_MAX
    BY DEF CStrings
  <1>2. text \in Seq(1 .. UCHAR_MAX)
    BY DEF CStrings
  <1>3. n \in Nat /\ \A i \in 1 .. n : a + (i - 1) \in 1 .. Len(text)
    BY <1>1
  <1>4. SubSeq(text, a, b) = g
    BY <1>1, <1>2
  <1>5. g \in [1 .. n -> 1 .. UCHAR_MAX]
    BY <1>1, <1>3
  <1>6. \A i \in 1 .. n : g[i] = text[a + (i - 1)]
    OBVIOUS
  <1> HIDE DEF g
  <1>7. g \in Seq(1 .. UCHAR_MAX) /\ Len(g) = n
    <2>1. n \in Nat
      BY <1>3
    <2> HIDE DEF n
    <2>2. QED
      BY <1>5, <2>1
  <1>8. QED
    BY <1>4, <1>6, <1>7 DEF CStrings

(***************************************************************************)
(* How far the calls have gone: p characters of the text, the last of them *)
(* the delimiter behind the last token.                                    *)
(***************************************************************************)
Given(toks, s1, r, n) == \E k \in 1 .. n : toks[k] = s1 + r[1] - 1

IsGiven(q, toks, s1, t1, C, p, k) ==
  \E r \in Runs(t1, C) :
    /\ toks[k] = s1 + r[1] - 1
    /\ Holds(q, toks[k], SubSeq(t1, r[1], r[2]))
    /\ r[2] < p
    /\ \A x \in Runs(t1, C) : Given(toks, s1, x, k - 1) <=> x[1] < r[1]

Walk(q, toks, m, size, s1, t1, C, p) ==
  /\ Mem(q, size)
  /\ p \in 0 .. Len(t1) + 1
  /\ p \in 1 .. Len(t1) => t1[p] \in C
  /\ \A r \in 0 .. size - 1 : q[r] # m[r] => q[r] = 0 /\ r - s1 + 1 \in Places(t1, C)
  /\ \A r \in s1 + p .. s1 + Len(t1) : q[r] = m[r]
  /\ toks \in Seq(Int)
  /\ \A k \in 1 .. Len(toks) : IsGiven(q, toks, s1, t1, C, p, k)
  /\ \A r \in Runs(t1, C) : Given(toks, s1, r, Len(toks)) <=> r[1] <= p

BothTexts(m, size, s1, s2, t1, t2) ==
  /\ Str(m, size, s1, t1) /\ Str(m, size, s2, t2)
  /\ Apart(s1, Len(t1) + 1, s2, Len(t2) + 1)

LEMMA WalkStarts ==
  ASSUME NEW m, NEW size, NEW s1, NEW s2, NEW t1, NEW t2, BothTexts(m, size, s1, s2, t1, t2), NEW C
  PROVE  Walk(m, <<>>, m, size, s1, t1, C, 0)
  <1>1. Mem(m, size) /\ t1 \in CStrings
    BY DEF BothTexts, Str
  <1>2. 0 \in 0 .. Len(t1) + 1 /\ 0 \notin 1 .. Len(t1)
    BY <1>1 DEF CStrings
  <1>3. <<>> \in Seq(Int) /\ Len(<<>>) = 0 /\ \A k \in 1 .. 0 : FALSE
    OBVIOUS
  <1>4. ASSUME NEW r \in Runs(t1, C)
        PROVE  ~Given(<<>>, s1, r, 0) /\ ~(r[1] <= 0)
    <2>1. r[1] \in 1 .. Len(t1)
      BY <1>1, RunExact
    <2>2. QED
      BY <1>3, <2>1 DEF Given
  <1>5. QED
    BY <1>1, <1>2, <1>3, <1>4 DEF Walk

LEMMA WalkStrings ==
  ASSUME NEW m, NEW size, NEW s1, NEW s2, NEW t1, NEW t2, BothTexts(m, size, s1, s2, t1, t2),
         NEW C, NEW q, NEW toks, NEW p \in 0 .. Len(t1), Walk(q, toks, m, size, s1, t1, C, p)
  PROVE  Str(q, size, s1 + p, Behind(t1, p)) /\ Str(q, size, s2, t2)
  <1>1. Str(m, size, s1, t1) /\ Str(m, size, s2, t2) /\ t1 \in CStrings /\ t2 \in CStrings
    BY DEF BothTexts, Str
  <1>2. Lies(m, size, s1, t1, Len(t1)) /\ Lies(m, size, s2, t2, Len(t2))
    BY <1>1, StringLies
  <1>3. s1 \in Nat /\ Len(t1) \in Nat /\ size \in Nat /\ s1 + Len(t1) + 1 <= size
    BY <1>2 DEF Lies
  <1>4. s2 \in Nat /\ Len(t2) \in Nat /\ s2 + Len(t2) + 1 <= size
    BY <1>2 DEF Lies
  <1>5. s1 + (Len(t1) + 1) <= s2 \/ s2 + (Len(t2) + 1) <= s1
    BY DEF BothTexts, Apart
  <1>6. Mem(q, size) /\ \A r \in s1 + p .. s1 + Len(t1) : q[r] = m[r]
    BY DEF Walk
  <1>7. \A r \in 0 .. size - 1 : q[r] # m[r] => r - s1 + 1 \in 1 .. Len(t1)
    <2>1. DOMAIN t1 = 1 .. Len(t1)
      BY <1>1 DEF CStrings
    <2>2. QED
      BY <2>1 DEF Walk, Places
  <1>8. Str(q, size, s1 + p, Behind(t1, p))
    <2>1. Str(m, size, s1 + p, Behind(t1, p))
      BY <1>1, StringBehind
    <2>2. Len(Behind(t1, p)) = Len(t1) - p
      <3>1. t1 \in Seq(1 .. UCHAR_MAX)
        BY <1>1 DEF CStrings
      <3>2. QED
        BY <3>1, BehindExact
    <2>3. (s1 + p) + Len(Behind(t1, p)) = s1 + Len(t1)
      BY <1>3, <2>2
    <2>4. QED
      BY <1>6, <2>1, <2>3, StringKept
  <1>9. \A r \in s2 .. s2 + Len(t2) : q[r] = m[r]
    <2>1. ASSUME NEW r \in s2 .. s2 + Len(t2)
          PROVE  r \in 0 .. size - 1 /\ r - s1 + 1 \notin 1 .. Len(t1)
      BY <1>3, <1>4, <1>5
    <2>2. QED
      BY <1>7, <2>1
  <1>10. QED
    BY <1>1, <1>6, <1>8, <1>9, StringKept

LEMMA WalkEnds ==
  ASSUME NEW m, NEW size, NEW s1, NEW s2, NEW t1, NEW t2, BothTexts(m, size, s1, s2, t1, t2),
         NEW C, NEW q, NEW toks, NEW p \in 0 .. Len(t1), Walk(q, toks, m, size, s1, t1, C, p),
         \A k \in p + 1 .. Len(t1) : t1[k] \in C
  PROVE  Walk(q, toks, m, size, s1, t1, C, Len(t1) + 1)
  <1>1. t1 \in CStrings /\ Len(t1) \in Nat /\ s1 \in Nat
    BY StringLies DEF BothTexts, Str, CStrings, Holds, InMemory
  <1>2. ASSUME NEW k \in 1 .. Len(toks)
        PROVE  IsGiven(q, toks, s1, t1, C, Len(t1) + 1, k)
    <2>1. IsGiven(q, toks, s1, t1, C, p, k)
      BY <1>2 DEF Walk
    <2>2. PICK r \in Runs(t1, C) :
            /\ toks[k] = s1 + r[1] - 1
            /\ Holds(q, toks[k], SubSeq(t1, r[1], r[2]))
            /\ r[2] < p
            /\ \A x \in Runs(t1, C) : Given(toks, s1, x, k - 1) <=> x[1] < r[1]
      BY <2>1 DEF IsGiven
    <2>3. r[2] < Len(t1) + 1
      <3>1. r[2] \in 1 .. Len(t1)
        BY <1>1, RunExact
      <3>2. QED
        BY <1>1, <3>1
    <2>4. QED
      BY <2>2, <2>3, Zenon DEF IsGiven
  <1>3. ASSUME NEW r \in Runs(t1, C)
        PROVE  Given(toks, s1, r, Len(toks)) /\ r[1] <= Len(t1) + 1
    <2>1. r[1] \in 1 .. Len(t1) /\ r[2] \in 1 .. Len(t1) /\ r[1] <= r[2]
      BY <1>1, RunExact
    <2>2. \A i \in r[1] .. r[2] : t1[i] \notin C
      BY <1>1, RunExact
    <2>3. r[1] \in r[1] .. r[2]
      BY <2>1
    <2>4. r[1] \notin p + 1 .. Len(t1)
      BY <2>2, <2>3
    <2>5. r[1] <= p /\ r[1] <= Len(t1) + 1
      BY <1>1, <2>1, <2>4
    <2>6. QED
      BY <2>5 DEF Walk
  <1>4. Len(t1) + 1 \in 0 .. Len(t1) + 1 /\ Len(t1) + 1 \notin 1 .. Len(t1)
          /\ \A r \in s1 + (Len(t1) + 1) .. s1 + Len(t1) : FALSE
    BY <1>1
  <1>5. QED
    BY <1>2, <1>3, <1>4 DEF Walk

LEMMA WalkGoes ==
  ASSUME NEW m, NEW size, NEW s1, NEW s2, NEW t1, NEW t2, BothTexts(m, size, s1, s2, t1, t2),
         NEW C, NEW q, NEW toks, NEW p \in 0 .. Len(t1), Walk(q, toks, m, size, s1, t1, C, p),
         NEW a, NEW b, IsToken(t1, C, p, a, b)
  PROVE  Walk([q EXCEPT ![s1 + (b - 1)] = 0], Append(toks, s1 + (a - 1)), m, size, s1, t1, C, b)
  <1> DEFINE x == s1 + (a - 1)
             e == s1 + (b - 1)
             q2 == [q EXCEPT ![e] = 0]
             toks2 == Append(toks, x)
             n == Len(toks)
  <1>1. Str(m, size, s1, t1) /\ t1 \in CStrings /\ Mem(m, size)
    BY DEF BothTexts, Str
  <1>2. Lies(m, size, s1, t1, Len(t1))
    BY <1>1, StringLies
  <1>3. /\ s1 \in Nat /\ Len(t1) \in Nat /\ size \in Nat /\ s1 + Len(t1) + 1 <= size /\ m[s1 + Len(t1)] = 0
        /\ \A i \in 1 .. Len(t1) : m[s1 + i - 1] = t1[i]
    BY <1>2 DEF Lies
  <1>4. p \in Nat /\ DOMAIN t1 = 1 .. Len(t1)
    BY <1>1, <1>3 DEF CStrings
  <1>5. /\ Mem(q, size)
        /\ p \in 1 .. Len(t1) => t1[p] \in C
        /\ \A r \in 0 .. size - 1 : q[r] # m[r] => q[r] = 0 /\ r - s1 + 1 \in Places(t1, C)
        /\ \A r \in s1 + p .. s1 + Len(t1) : q[r] = m[r]
        /\ toks \in Seq(Int)
        /\ \A k \in 1 .. n : IsGiven(q, toks, s1, t1, C, p, k)
        /\ \A r \in Runs(t1, C) : Given(toks, s1, r, n) <=> r[1] <= p
    BY DEF Walk
  <1>6. a \in p + 1 .. Len(t1) /\ b \in a + 1 .. Len(t1) + 1 /\ (b = Len(t1) + 1 \/ t1[b] \in C)
    BY DEF IsToken
  <1>7. p = 0 \/ t1[p] \in C
    BY <1>3, <1>4, <1>5
  <1>8. /\ <<a, b - 1>> \in Runs(t1, C)
        /\ \A r \in Runs(t1, C) : r[1] <= b <=> r[1] <= p \/ r[1] = a
        /\ \A r \in Runs(t1, C) : r[1] < a <=> r[1] <= p
    BY <1>1, <1>7, TokenRuns
  <1>9. /\ a \in 1 .. Len(t1) /\ b \in 0 .. Len(t1) + 1 /\ b - 1 \in 1 .. Len(t1) /\ a <= b - 1 /\ p < b
        /\ e \in 0 .. size - 1 /\ x \in Int /\ s1 + p < e /\ e < s1 + b
    BY <1>3, <1>4, <1>6
  <1>10. n \in Nat /\ toks2 \in Seq(Int) /\ Len(toks2) = n + 1 /\ toks2[n + 1] = x
           /\ \A k \in 1 .. n : toks2[k] = toks[k]
    BY <1>5, <1>9, AppendProperties
  <1>11. Mem(q2, size) /\ q2[e] = 0 /\ \A r \in 0 .. size - 1 : r # e => q2[r] = q[r]
    <2>1. q \in [0 .. size - 1 -> Char] /\ 0 \in Char
      BY <1>5 DEF Mem, Char
    <2>2. QED
      BY <1>3, <1>9, <2>1 DEF Mem
  <1> HIDE DEF q2, toks2, n
  <1>12. ASSUME NEW r \in 0 .. size - 1, q2[r] # m[r]
         PROVE  q2[r] = 0 /\ r - s1 + 1 \in Places(t1, C)
    <2>1. CASE r = e
      <3>1. b # Len(t1) + 1
        <4>1. b = Len(t1) + 1 => e = s1 + Len(t1)
          BY <1>3
        <4>2. QED
          BY <1>3, <1>11, <1>12, <2>1, <4>1
      <3>2. b \in 1 .. Len(t1) /\ r - s1 + 1 = b
        BY <1>3, <1>9, <2>1, <3>1
      <3>3. QED
        BY <1>4, <1>6, <1>11, <2>1, <3>1, <3>2 DEF Places
    <2>2. CASE r # e
      BY <1>5, <1>11, <1>12, <2>2
    <2>3. QED
      BY <2>1, <2>2
  <1>13. ASSUME NEW r \in s1 + b .. s1 + Len(t1)
         PROVE  q2[r] = m[r]
    <2>1. r \in 0 .. size - 1 /\ r # e /\ r \in s1 + p .. s1 + Len(t1)
      BY <1>3, <1>4, <1>9
    <2>2. QED
      BY <1>5, <1>11, <2>1
  <1>14. ASSUME NEW y, NEW k \in 0 .. n
         PROVE  Given(toks2, s1, y, k) <=> Given(toks, s1, y, k)
    <2>1. \A j \in 1 .. k : j \in 1 .. n
      BY <1>10
    <2>2. QED
      BY <1>10, <2>1 DEF Given
  <1>15. ASSUME NEW k \in 1 .. n
         PROVE  IsGiven(q2, toks2, s1, t1, C, b, k)
    <2>1. PICK r \in Runs(t1, C) :
            /\ toks[k] = s1 + r[1] - 1
            /\ Holds(q, toks[k], SubSeq(t1, r[1], r[2]))
            /\ r[2] < p
            /\ \A y \in Runs(t1, C) : Given(toks, s1, y, k - 1) <=> y[1] < r[1]
      BY <1>5 DEF IsGiven
    <2> DEFINE u == SubSeq(t1, r[1], r[2])
    <2>2. r[1] \in 1 .. Len(t1) /\ r[2] \in 1 .. Len(t1) /\ r[1] <= r[2]
      BY <1>1, RunExact
    <2>3. u \in CStrings /\ Len(u) = r[2] - r[1] + 1
      BY <1>1, <2>2, PieceExact
    <2> HIDE DEF u
    <2>4. Str(q, size, toks[k], u)
      BY <1>5, <2>1, <2>3 DEF Str, u
    <2>5. \A z \in toks[k] .. toks[k] + Len(u) : z \in 0 .. size - 1 /\ z # e
      <3> DEFINE f == r[1]
                 g == r[2]
                 h == toks[k]
                 l == Len(u)
      <3>1. h = s1 + f - 1 /\ g < p /\ f \in 1 .. Len(t1) /\ g \in 1 .. Len(t1) /\ f <= g /\ l = g - f + 1
        BY <2>1, <2>2, <2>3
      <3>2. s1 \in Nat /\ p \in Nat /\ size \in Nat /\ Len(t1) \in Nat /\ s1 + Len(t1) + 1 <= size
              /\ s1 + p < e /\ e \in Int
        BY <1>3, <1>4, <1>9
      <3> HIDE DEF f, g, h, l, e
      <3>3. \A z \in h .. h + l : z \in 0 .. size - 1 /\ z # e
        BY <3>1, <3>2
      <3>4. QED
        BY <3>3 DEF h, l
    <2>6. \A z \in toks[k] .. toks[k] + Len(u) : q2[z] = q[z]
      BY <1>11, <2>5
    <2>7. Str(q2, size, toks[k], u)
      BY <1>11, <2>4, <2>6, StringKept
    <2>8. Holds(q2, toks2[k], u) /\ toks2[k] = s1 + r[1] - 1
      BY <1>10, <2>1, <2>7 DEF Str
    <2>9. r[2] < b
      BY <1>4, <1>9, <2>1, <2>2
    <2>10. k - 1 \in 0 .. n
      BY <1>10
    <2>11. \A y \in Runs(t1, C) : Given(toks2, s1, y, k - 1) <=> y[1] < r[1]
      BY <1>14, <2>1, <2>10
    <2>12. QED
      BY <2>8, <2>9, <2>11, Zenon DEF IsGiven, u
  <1>16. IsGiven(q2, toks2, s1, t1, C, b, n + 1)
    <2> DEFINE u == SubSeq(t1, a, b - 1)
    <2>1. u \in CStrings /\ Len(u) = (b - 1) - a + 1 /\ \A i \in 1 .. (b - 1) - a + 1 : u[i] = t1[a + (i - 1)]
      BY <1>1, <1>9, PieceExact
    <2>2. (b - 1) - a + 1 = b - a
      BY <1>6, <1>9
    <2> HIDE DEF u
    <2>3. ASSUME NEW i \in 1 .. b - a
          PROVE  q2[x + i - 1] = u[i]
      <3>1. /\ a + (i - 1) \in 1 .. Len(t1) /\ x + i - 1 = s1 + (a + (i - 1)) - 1
            /\ x + i - 1 \in s1 + p .. s1 + Len(t1) /\ x + i - 1 \in 0 .. size - 1 /\ x + i - 1 # e
        BY <1>3, <1>4, <1>6, <1>9
      <3>2. q2[x + i - 1] = m[x + i - 1]
        BY <1>5, <1>11, <3>1
      <3>3. m[s1 + (a + (i - 1)) - 1] = t1[a + (i - 1)]
        BY <1>3, <3>1
      <3>4. u[i] = t1[a + (i - 1)]
        BY <2>1, <2>2
      <3>5. QED
        BY <3>1, <3>2, <3>3, <3>4
    <2>4. x + Len(u) = e /\ x \in Nat /\ x + (Len(u) + 1) <= size
      BY <1>3, <1>6, <1>9, <2>1, <2>2
    <2>5. Size(q2) = size
      BY <1>11, SizeExact
    <2>6. Holds(q2, x, u)
      BY <1>11, <2>1, <2>2, <2>3, <2>4, <2>5 DEF Holds, InMemory
    <2> DEFINE r == <<a, b - 1>>
    <2>7. r \in Runs(t1, C) /\ r[1] = a /\ r[2] = b - 1
      BY <1>8
    <2> HIDE DEF r
    <2>8. toks2[n + 1] = s1 + r[1] - 1
      BY <1>3, <1>9, <1>10, <2>7
    <2>9. Holds(q2, toks2[n + 1], SubSeq(t1, r[1], r[2]))
      BY <1>10, <2>6, <2>7 DEF u
    <2>10. r[2] < b
      BY <1>9, <2>7
    <2>11. (n + 1) - 1 = n /\ n \in 0 .. n
      BY <1>10
    <2>12. \A y \in Runs(t1, C) : Given(toks2, s1, y, (n + 1) - 1) <=> y[1] < r[1]
      BY <1>5, <1>8, <1>14, <2>7, <2>11
    <2>13. QED
      BY <2>7, <2>8, <2>9, <2>10, <2>12, Zenon DEF IsGiven
  <1>17. ASSUME NEW r \in Runs(t1, C)
         PROVE  Given(toks2, s1, r, n + 1) <=> r[1] <= b
    <2>1. n \in 0 .. n /\ n + 1 \in 1 .. n + 1 /\ (\A k \in 1 .. n : k \in 1 .. n + 1)
            /\ \A k \in 1 .. n + 1 : k \in 1 .. n \/ k = n + 1
      BY <1>10
    <2>2. Given(toks2, s1, r, n + 1) <=> Given(toks2, s1, r, n) \/ toks2[n + 1] = s1 + r[1] - 1
      BY <2>1 DEF Given
    <2>3. r[1] \in 1 .. Len(t1)
      BY <1>1, RunExact
    <2>4. x = s1 + r[1] - 1 <=> r[1] = a
      BY <1>3, <1>9, <2>3
    <2>5. QED
      BY <1>5, <1>8, <1>10, <1>14, <2>1, <2>2, <2>4
  <1>18. \A k \in 1 .. Len(toks2) : IsGiven(q2, toks2, s1, t1, C, b, k)
    <2>1. \A k \in 1 .. Len(toks2) : k \in 1 .. n \/ k = n + 1
      BY <1>10
    <2>2. QED
      BY <1>15, <1>16, <2>1
  <1>19. b \in 1 .. Len(t1) => t1[b] \in C
    BY <1>3, <1>6
  <1>20. Walk(q2, toks2, m, size, s1, t1, C, b)
    BY <1>9, <1>10, <1>11, <1>12, <1>13, <1>17, <1>18, <1>19 DEF Walk
  <1>21. QED
    BY <1>20 DEF q2, toks2

(***************************************************************************)
(* The functions in all states.                                            *)
(***************************************************************************)

CallsInv ==
  /\ strings.kind = "blocks" =>
       /\ \E size \in Nat : Copyable(strings.m, size, strings.s1, strings.s2, strings.n)
       /\ strings.c \in Char
  /\ strings.kind = "texts" =>
       /\ \E size \in Nat : /\ Str(strings.m, size, strings.s1, strings.t1)
                            /\ Str(strings.m, size, strings.s2, strings.t2)
       /\ strings.n \in Nat /\ strings.c \in Char

\* Where strtok is in the text it was called with.
WalkInv ==
  scan # NoScan =>
    \E size \in Nat, p \in 1 .. Len(scan.t1) + 1 :
      /\ BothTexts(scan.m, size, scan.s1, scan.s2, scan.t1, scan.t2)
      /\ Walk(memory, tokens, scan.m, size, scan.s1, scan.t1, CharsOf(scan.t2), p)
      /\ last = IF p = Len(scan.t1) + 1 THEN null ELSE scan.s1 + p
      /\ answer = null => p = Len(scan.t1) + 1

StringsInv == CallsInv /\ WalkInv

LEMMA CallsExact ==
  CallsInv =>
    /\ strings.kind = "blocks" => BlocksExact(strings.m, strings.s1, strings.s2, strings.n, strings.c)
    /\ strings.kind = "texts" =>
         LET s == strings
             room == IF Len(s.t1) + Len(s.t2) + 1 > s.n THEN Len(s.t1) + Len(s.t2) + 1 ELSE s.n
         IN  /\ ComparisonsExact(s.m, s.s1, s.s2, s.t1, s.t2, s.n)
             /\ SearchesExact(s.m, s.s1, s.s2, s.t1, s.t2, s.c)
             /\ strxfrm(s.m, s.s1, s.s2, s.n).size = Len(s.t2)
             /\ InMemory(s.m, s.s1, room) /\ Apart(s.s1, room, s.s2, Len(s.t2) + 1) =>
                  CopiesExact(s.m, s.s1, s.s2, s.t1, s.t2, s.n)
  <1> SUFFICES ASSUME CallsInv
               PROVE  /\ strings.kind = "blocks" =>
                           BlocksExact(strings.m, strings.s1, strings.s2, strings.n, strings.c)
                      /\ strings.kind = "texts" =>
                           LET s == strings
                               room == IF Len(s.t1) + Len(s.t2) + 1 > s.n THEN Len(s.t1) + Len(s.t2) + 1
                                 ELSE s.n
                           IN  /\ ComparisonsExact(s.m, s.s1, s.s2, s.t1, s.t2, s.n)
                               /\ SearchesExact(s.m, s.s1, s.s2, s.t1, s.t2, s.c)
                               /\ strxfrm(s.m, s.s1, s.s2, s.n).size = Len(s.t2)
                               /\ InMemory(s.m, s.s1, room) /\ Apart(s.s1, room, s.s2, Len(s.t2) + 1) =>
                                    CopiesExact(s.m, s.s1, s.s2, s.t1, s.t2, s.n)
    OBVIOUS
  <1>1. ASSUME strings.kind = "blocks"
        PROVE  BlocksExact(strings.m, strings.s1, strings.s2, strings.n, strings.c)
    <2>1. PICK size \in Nat : Copyable(strings.m, size, strings.s1, strings.s2, strings.n)
      BY <1>1 DEF CallsInv
    <2>2. QED
      BY <2>1, BlocksCorrect
  <1> DEFINE m == strings.m
             s1 == strings.s1
             s2 == strings.s2
             t1 == strings.t1
             t2 == strings.t2
             n == strings.n
             c == strings.c
             room == IF Len(t1) + Len(t2) + 1 > n THEN Len(t1) + Len(t2) + 1 ELSE n
  <1>2. ASSUME strings.kind = "texts"
        PROVE  /\ ComparisonsExact(m, s1, s2, t1, t2, n)
               /\ SearchesExact(m, s1, s2, t1, t2, c)
               /\ strxfrm(m, s1, s2, n).size = Len(t2)
               /\ InMemory(m, s1, room) /\ Apart(s1, room, s2, Len(t2) + 1)
                    => CopiesExact(m, s1, s2, t1, t2, n)
    <2>1. PICK size \in Nat : Str(m, size, s1, t1) /\ Str(m, size, s2, t2)
      BY <1>2 DEF CallsInv
    <2>2. n \in Nat /\ c \in Char
      BY <1>2 DEF CallsInv
    <2>3. ASSUME InMemory(m, s1, room) /\ Apart(s1, room, s2, Len(t2) + 1)
          PROVE  CopiesExact(m, s1, s2, t1, t2, n)
      <3> HIDE DEF m, s1, s2, t1, t2, n
      <3>1. Copies(m, size, s1, s2, t1, t2, n)
        BY <2>1, <2>2, <2>3 DEF Copies
      <3>2. QED
        BY <3>1, CopiesCorrect
    <2> HIDE DEF m, s1, s2, t1, t2, n, c
    <2>4. strlen(m, s2) = Len(t2)
      BY <2>1, strlenExact
    <2>5. strxfrm(m, s1, s2, n).size = Len(t2)
      BY <2>4 DEF strxfrm
    <2>6. ComparisonsExact(m, s1, s2, t1, t2, n)
      BY <2>1, <2>2, ComparisonsCorrect
    <2>7. SearchesExact(m, s1, s2, t1, t2, c)
      BY <2>1, <2>2, SearchesCorrect
    <2>8. QED
      BY <2>3, <2>5, <2>6, <2>7
  <1>3. QED
    BY <1>1, <1>2, Zenon

LEMMA WalkExact ==
  WalkInv => TokensExact
  <1> SUFFICES ASSUME WalkInv, scan # NoScan
               PROVE  TokensExact
    BY DEF TokensExact
  <1> DEFINE m == scan.m
             s1 == scan.s1
             t1 == scan.t1
             C == CharsOf(scan.t2)
  <1>1. PICK size \in Nat, p \in 1 .. Len(t1) + 1 :
          /\ BothTexts(m, size, s1, scan.s2, t1, scan.t2)
          /\ Walk(memory, tokens, m, size, s1, t1, C, p)
          /\ last = IF p = Len(t1) + 1 THEN null ELSE s1 + p
          /\ answer = null => p = Len(t1) + 1
    BY DEF WalkInv
  <1>2. /\ Mem(memory, size) /\ tokens \in Seq(Int)
        /\ \A r \in 0 .. size - 1 : memory[r] # m[r] => memory[r] = 0 /\ r - s1 + 1 \in Places(t1, C)
        /\ \A k \in 1 .. Len(tokens) : IsGiven(memory, tokens, s1, t1, C, p, k)
        /\ \A r \in Runs(t1, C) : Given(tokens, s1, r, Len(tokens)) <=> r[1] <= p
    BY <1>1 DEF Walk
  <1>3. Mem(m, size) /\ t1 \in CStrings
    BY <1>1 DEF BothTexts, Str
  <1>4. DOMAIN memory = 0 .. size - 1 /\ DOMAIN m = 0 .. size - 1 /\ DOMAIN tokens = 1 .. Len(tokens)
          /\ Len(t1) \in Nat
    BY <1>2, <1>3 DEF Mem, CStrings
  <1> HIDE DEF m, s1, t1, C
  <1>5. \A k \in DOMAIN tokens : \E r \in Runs(t1, C) :
          /\ tokens[k] = s1 + r[1] - 1
          /\ Holds(memory, tokens[k], SubSeq(t1, r[1], r[2]))
          /\ \A q \in Runs(t1, C) : (\E j \in 1 .. k - 1 : tokens[j] = s1 + q[1] - 1) <=> q[1] < r[1]
    BY <1>2, <1>4, Zenon DEF IsGiven, Given
  <1>6. answer = null => \A r \in Runs(t1, C) : \E j \in 1 .. Len(tokens) : tokens[j] = s1 + r[1] - 1
    <2>1. ASSUME answer = null, NEW r \in Runs(t1, C)
          PROVE  Given(tokens, s1, r, Len(tokens))
      <3>1. r[1] \in 1 .. Len(t1)
        BY <1>3, RunExact
      <3>2. r[1] <= p
        BY <1>1, <1>4, <2>1, <3>1
      <3>3. QED
        BY <1>2, <3>2
    <2>2. QED
      BY <2>1, Zenon DEF Given
  <1>7. DOMAIN memory = DOMAIN m /\ \A r \in DOMAIN memory : memory[r] # m[r] => memory[r] = 0
          /\ r - s1 + 1 \in Places(t1, C)
    BY <1>2, <1>4
  <1>8. QED
    BY <1>5, <1>6, <1>7, Zenon DEF TokensExact, m, s1, t1, C

\* Where a call of strtok has got.
Reaches(r, toks, m, size, s1, t1, C, p) ==
  /\ p \in 1 .. Len(t1) + 1
  /\ Walk(r.m, IF r.token = null THEN toks ELSE Append(toks, r.token), m, size, s1, t1, C, p)
  /\ r.last = IF p = Len(t1) + 1 THEN null ELSE s1 + p
  /\ r.token = null => p = Len(t1) + 1

LEMMA WalkStep ==
  ASSUME NEW m, NEW size, NEW s1, NEW s2, NEW t1, NEW t2, BothTexts(m, size, s1, s2, t1, t2),
         NEW C, C = CharsOf(t2), NEW q, NEW toks, NEW p \in 0 .. Len(t1),
           Walk(q, toks, m, size, s1, t1, C, p),
         NEW place, NEW s, (IF s = null THEN place ELSE s) = s1 + p, NEW r, r = strtok(q, place, s, s2)
  PROVE  \E p2 \in Int : Reaches(r, toks, m, size, s1, t1, C, p2)
  <1>1. t1 \in CStrings /\ s1 \in Nat /\ Len(t1) \in Nat
    BY DEF BothTexts, Str, CStrings, Holds, InMemory
  <1>2. Str(q, size, s1 + p, Behind(t1, p)) /\ Str(q, size, s2, t2)
    BY WalkStrings
  <1>3. NoToken(q, s1, t1, C, p, r) \/ \E a, b \in Int : Token(q, s1, t1, C, p, r, a, b)
    BY <1>1, <1>2, strtokExact
  <1>4. CASE NoToken(q, s1, t1, C, p, r)
    <2>1. r.m = q /\ r.last = null /\ r.token = null /\ \A k \in p + 1 .. Len(t1) : t1[k] \in C
      BY <1>4 DEF NoToken
    <2>2. Walk(q, toks, m, size, s1, t1, C, Len(t1) + 1)
      BY <2>1, WalkEnds
    <2>3. Len(t1) + 1 \in 1 .. Len(t1) + 1 /\ Len(t1) + 1 \in Int
      BY <1>1
    <2>4. Reaches(r, toks, m, size, s1, t1, C, Len(t1) + 1)
      BY <2>1, <2>2, <2>3 DEF Reaches
    <2>5. QED
      BY <2>3, <2>4
  <1>5. CASE \E a, b \in Int : Token(q, s1, t1, C, p, r, a, b)
    <2>1. PICK a \in Int, b \in Int : Token(q, s1, t1, C, p, r, a, b)
      BY <1>5
    <2>2. /\ IsToken(t1, C, p, a, b)
          /\ r.m = [q EXCEPT ![s1 + (b - 1)] = 0] /\ r.token = s1 + (a - 1)
          /\ r.last = IF b = Len(t1) + 1 THEN null ELSE s1 + b
      BY <2>1 DEF Token
    <2>3. Walk([q EXCEPT ![s1 + (b - 1)] = 0], Append(toks, s1 + (a - 1)), m, size, s1, t1, C, b)
      BY <2>2, WalkGoes
    <2>4. a \in p + 1 .. Len(t1) /\ b \in a + 1 .. Len(t1) + 1
      BY <2>2 DEF IsToken
    <2>5. b \in 1 .. Len(t1) + 1 /\ s1 + (a - 1) # null
      BY <1>1, <2>4 DEF null
    <2>6. Reaches(r, toks, m, size, s1, t1, C, b)
      BY <2>2, <2>3, <2>5 DEF Reaches
    <2>7. QED
      BY <2>6
  <1>6. QED
    BY <1>3, <1>4, <1>5

LEMMA StringsStart ==
  StringsInit => StringsInv
  BY DEF StringsInit, StringsInv, CallsInv, WalkInv, NoStrings, NoScan

LEMMA StringsStep ==
  StringsInv /\ [StringsNext]_stringVars => StringsInv'
  <1> SUFFICES ASSUME StringsInv, [StringsNext]_stringVars
               PROVE  StringsInv'
    OBVIOUS
  <1>1. CallsInv /\ WalkInv
    BY DEF StringsInv
  <1>2. (UNCHANGED strings => CallsInv') /\ (UNCHANGED tokenVars => WalkInv')
    BY <1>1 DEF CallsInv, WalkInv, tokenVars
  <1>3. ASSUME NEW m \in Memory, NEW s1 \in Nat, NEW s2 \in Nat, NEW n \in Nat, NEW c \in Char,
                 CallBlocks(m, s1, s2, n, c)
        PROVE  StringsInv'
    <2>1. Mem(m, Size(m)) /\ Size(m) \in Nat
      BY MemoryExact DEF Mem
    <2>2. Copyable(m, Size(m), s1, s2, n)
      BY <1>3, <2>1 DEF CallBlocks, InMemory, Copyable
    <2>3. strings' = [kind |-> "blocks", m |-> m, s1 |-> s1, s2 |-> s2, n |-> n, c |-> c]
            /\ UNCHANGED tokenVars
      BY <1>3 DEF CallBlocks
    <2>4. CallsInv'
      BY <2>1, <2>2, <2>3 DEF CallsInv
    <2>5. QED
      BY <1>2, <2>3, <2>4 DEF StringsInv
  <1>4. ASSUME NEW m \in Memory, NEW s1 \in Nat, NEW s2 \in Nat, NEW n \in Nat, NEW t1 \in CStrings,
                 NEW t2 \in CStrings,
               NEW c \in Char, CallTexts(m, s1, s2, t1, t2, n, c)
        PROVE  StringsInv'
    <2>1. Mem(m, Size(m)) /\ Size(m) \in Nat
      BY MemoryExact DEF Mem
    <2>2. Str(m, Size(m), s1, t1) /\ Str(m, Size(m), s2, t2)
      BY <1>4, <2>1 DEF CallTexts, Str
    <2>3. /\ strings' = [kind |-> "texts", m |-> m, s1 |-> s1, s2 |-> s2, t1 |-> t1, t2 |-> t2, n |-> n, c |-> c]
          /\ UNCHANGED tokenVars
      BY <1>4 DEF CallTexts
    <2>4. CallsInv'
      BY <2>1, <2>2, <2>3 DEF CallsInv
    <2>5. QED
      BY <1>2, <2>3, <2>4 DEF StringsInv
  <1>5. ASSUME StringsReturn
        PROVE  StringsInv'
    <2>1. strings' = NoStrings /\ UNCHANGED tokenVars
      BY <1>5 DEF StringsReturn
    <2>2. CallsInv'
      BY <2>1 DEF CallsInv, NoStrings
    <2>3. QED
      BY <1>2, <2>1, <2>2 DEF StringsInv
  <1>6. ASSUME NEW m \in Memory, NEW s1 \in Nat, NEW s2 \in Nat, NEW t1 \in CStrings, NEW t2 \in CStrings,
               FirstToken(m, s1, s2, t1, t2)
        PROVE  StringsInv'
    <2> DEFINE r == strtok(m, last, s1, s2)
               C == CharsOf(t2)
               size == Size(m)
    <2>1. Mem(m, size) /\ size \in Nat
      BY MemoryExact DEF Mem
    <2>2. BothTexts(m, size, s1, s2, t1, t2)
      BY <1>6, <2>1 DEF FirstToken, BothTexts, Str
    <2>3. Walk(m, <<>>, m, size, s1, t1, C, 0)
      BY <2>2, WalkStarts
    <2>4. 0 \in 0 .. Len(t1) /\ (IF s1 = null THEN last ELSE s1) = s1 + 0
      BY DEF null, CStrings
    <2>5. PICK p \in Int : Reaches(r, <<>>, m, size, s1, t1, C, p)
      BY <2>2, <2>3, <2>4, WalkStep
    <2>6. /\ memory' = r.m /\ last' = r.last /\ answer' = r.token /\ UNCHANGED strings
          /\ scan' = [m |-> m, s1 |-> s1, s2 |-> s2, t1 |-> t1, t2 |-> t2]
          /\ tokens' = IF r.token = null THEN <<>> ELSE <<r.token>>
      BY <1>6 DEF FirstToken, Answered
    <2>7. <<r.token>> = Append(<<>>, r.token)
      OBVIOUS
    <2>8. tokens' = IF r.token = null THEN <<>> ELSE Append(<<>>, r.token)
      BY <2>6, <2>7
    <2> HIDE DEF r, C, size
    <2>9. /\ p \in 1 .. Len(t1) + 1
          /\ Walk(memory', tokens', m, size, s1, t1, C, p)
          /\ last' = IF p = Len(t1) + 1 THEN null ELSE s1 + p
          /\ answer' = null => p = Len(t1) + 1
      BY <2>5, <2>6, <2>8 DEF Reaches
    <2>10. scan'.m = m /\ scan'.s1 = s1 /\ scan'.s2 = s2 /\ scan'.t1 = t1 /\ scan'.t2 = t2
      BY <2>6
    <2>11. WalkInv'
      BY <2>1, <2>2, <2>9, <2>10, Zenon DEF WalkInv, C
    <2>12. QED
      BY <1>2, <2>6, <2>11 DEF StringsInv
  <1>7. ASSUME NextToken
        PROVE  StringsInv'
    <2> DEFINE m == scan.m
               s1 == scan.s1
               s2 == scan.s2
               t1 == scan.t1
               t2 == scan.t2
               C == CharsOf(scan.t2)
               r == strtok(memory, last, null, scan.s2)
    <2>1. /\ scan # NoScan /\ memory' = r.m /\ last' = r.last /\ answer' = r.token
          /\ UNCHANGED strings /\ UNCHANGED scan
          /\ tokens' = IF r.token = null THEN tokens ELSE Append(tokens, r.token)
      BY <1>7 DEF NextToken, Answered
    <2>2. PICK size \in Nat, p \in 1 .. Len(t1) + 1 :
            /\ BothTexts(m, size, s1, s2, t1, t2)
            /\ Walk(memory, tokens, m, size, s1, t1, C, p)
            /\ last = IF p = Len(t1) + 1 THEN null ELSE s1 + p
      BY <1>1, <2>1 DEF WalkInv
    <2>3. Len(t1) \in Nat
      BY <2>2 DEF BothTexts, Str, CStrings
    <2>4. \E p2 \in Int : Reaches(r, tokens, m, size, s1, t1, C, p2)
      <3>1. CASE p = Len(t1) + 1
        <4>1. last = null
          BY <2>2, <3>1
        <4>2. r = [m |-> memory, last |-> null, token |-> null]
          BY <4>1 DEF strtok
        <4>3. r.m = memory /\ r.last = null /\ r.token = null
          BY <4>2
        <4> HIDE DEF r, m, s1, s2, t1, t2, C
        <4>4. Reaches(r, tokens, m, size, s1, t1, C, p)
          BY <2>2, <3>1, <4>3 DEF Reaches
        <4>5. QED
          BY <4>4
      <3>2. CASE p # Len(t1) + 1
        <4>1. p \in 0 .. Len(t1)
          BY <2>2, <2>3, <3>2
        <4>2. (IF null = null THEN last ELSE null) = s1 + p
          BY <2>2, <3>2
        <4>3. C = CharsOf(t2) /\ r = strtok(memory, last, null, s2)
          OBVIOUS
        <4> HIDE DEF r, m, s1, s2, t1, t2, C
        <4>4. QED
          BY <2>2, <4>1, <4>2, <4>3, WalkStep
      <3>3. QED
        BY <3>1, <3>2
    <2>5. PICK p2 \in Int : Reaches(r, tokens, m, size, s1, t1, C, p2)
      BY <2>4
    <2>6. scan'.m = m /\ scan'.s1 = s1 /\ scan'.s2 = s2 /\ scan'.t1 = t1 /\ scan'.t2 = t2
            /\ CharsOf(scan'.t2) = C
      BY <2>1
    <2> HIDE DEF r, m, s1, s2, t1, t2, C
    <2>7. /\ p2 \in 1 .. Len(t1) + 1
          /\ Walk(memory', tokens', m, size, s1, t1, C, p2)
          /\ last' = IF p2 = Len(t1) + 1 THEN null ELSE s1 + p2
          /\ answer' = null => p2 = Len(t1) + 1
      BY <2>1, <2>5 DEF Reaches
    <2>8. WalkInv'
      BY <2>2, <2>6, <2>7, Zenon DEF WalkInv
    <2>9. QED
      BY <1>2, <2>1, <2>8 DEF StringsInv
  <1>8. ASSUME TextDone
        PROVE  StringsInv'
    <2>1. scan' = NoScan /\ UNCHANGED strings
      BY <1>8 DEF TextDone
    <2>2. WalkInv'
      BY <2>1 DEF WalkInv
    <2>3. QED
      BY <1>2, <2>1, <2>2 DEF StringsInv
  <1>9. ASSUME UNCHANGED stringVars
        PROVE  StringsInv'
    BY <1>2, <1>9 DEF StringsInv, stringVars
  <1>10. QED
    BY <1>3, <1>4, <1>5, <1>6, <1>7, <1>8, <1>9 DEF StringsNext

\* The functions on memory and strings write what they should, only there,
\* and find what is first or last, whatever the memory, the lengths and the
\* overlap; the calls of strtok give every token of a text once, in turn, and
\* then none (string.c:23-340).
THEOREM StringsCorrect == StringsSpec => []StringsExact
  <1>1. StringsInv => StringsExact
    BY CallsExact, WalkExact, Zenon DEF StringsInv, StringsExact
  <1>2. QED
    BY <1>1, StringsStart, StringsStep, PTL DEF StringsSpec

HIDE CharAssumption

(***************************************************************************)
(* The life of a program, and the streams.                                 *)
(***************************************************************************)

USE CapacityAssumption, BoundAssumption

Index == 0 .. CAPACITY - 1

(* What TableOrdered rests on: the types, and that a function that was not *)
(* registered has never been called.                                       *)
TableType ==
  /\ atexits \in [Index -> Registrations]
  /\ tried \in 0 .. MaxAtexit + 1
  /\ stage = "reset" => tried = 0 /\ ~busy
  /\ registered \subseteq Registrations
  /\ runs \in [Registrations -> Nat]
  /\ \A r \in Registrations \ registered : runs[r] = 0

IInv == TableType /\ TableOrdered

(* A call of atexit keeps the table in order: the new entry is the greatest. *)
LEMMA CxaAtexitKeeps ==
  ASSUME IInv, tried <= MaxAtexit, CxaAtexit, stage' # "reset"
  PROVE  IInv'
  <1> USE DEF IInv, TableType, TableOrdered, Registrations, Index
  <1>1. CASE atexit_nxt = CAPACITY
    <2>1. UNCHANGED <<atexits, atexit_nxt, registered, runs>> /\ tried' = tried + 1
      BY <1>1 DEF CxaAtexit
    <2>2. TableType'
      BY <2>1
    <2>3. \A r \in registered : r < tried' /\ runs[r] \in {0, 1}
      BY <2>1
    <2>4. TableOrdered'
      <3> HIDE DEF IInv, TableType, Registrations, Index
      <3>1. TableOrdered
        BY DEF IInv
      <3>2. QED
        BY <2>1, <2>3, <3>1
    <2>5. QED
      BY <2>2, <2>4
  <1>2. CASE atexit_nxt # CAPACITY
    <2>1. /\ atexits' = [atexits EXCEPT ![atexit_nxt] = tried]
          /\ atexit_nxt' = atexit_nxt + 1
          /\ registered' = registered \cup {tried}
          /\ tried' = tried + 1
          /\ runs' = runs
      BY <1>2 DEF CxaAtexit
    <2>2. atexit_nxt \in Index /\ tried \in Registrations
      BY <1>2
    <2>3. tried \notin registered /\ runs[tried] = 0
      BY <2>2
    <2>4. TableType'
      BY <2>1, <2>2, <2>3
    <2>5. \A i \in 0 .. atexit_nxt - 1 : atexits'[i] = atexits[i] /\ atexits[i] < tried
      BY <2>1, <2>2
    <2>6. atexits'[atexit_nxt] = tried
      BY <2>1, <2>2
    <2>7. \A i, j \in 0 .. atexit_nxt' - 1 : i < j => atexits'[i] < atexits'[j]
      BY <2>1, <2>2, <2>5, <2>6
    <2>8. {r \in registered' : runs'[r] = 0} = {r \in registered : runs[r] = 0} \cup {tried}
      BY <2>1, <2>3
    <2>9. {atexits'[i] : i \in 0 .. atexit_nxt' - 1} = {atexits[i] : i \in 0 .. atexit_nxt - 1} \cup {tried}
      <3> HIDE DEF IInv
      <3>1. 0 .. atexit_nxt' - 1 = (0 .. atexit_nxt - 1) \cup {atexit_nxt}
        BY <2>1, <2>2 DEF Index
      <3>2. \A i \in 0 .. atexit_nxt - 1 : atexits'[i] = atexits[i]
        BY <2>5
      <3>3. QED
        BY ONLY <3>1, <3>2, <2>6
    <2>10. \A r \in registered' : runs'[r] \in {0, 1} /\ r < tried'
      BY <2>1, <2>2, <2>3
    <2>11. atexit_nxt' \in 0 .. CAPACITY
      BY <2>1, <2>2
    <2>12. QED
      BY <2>4, <2>7, <2>8, <2>9, <2>10, <2>11
  <1>3. QED
    BY <1>1, <1>2

(* The entry that Finalize takes is the greatest of those whose function   *)
(* has not been called.                                                    *)
LEMMA LastIsLatest ==
  ASSUME IInv, atexit_nxt # 0
  PROVE  /\ atexit_nxt - 1 \in Index
         /\ atexits[atexit_nxt - 1] \in Registrations
         /\ LatestFirst(atexits[atexit_nxt - 1])
  <1> USE DEF IInv, TableType, TableOrdered, Registrations, Index
  <1> DEFINE r == atexits[atexit_nxt - 1]
  <1>1. atexit_nxt - 1 \in 0 .. atexit_nxt - 1 /\ atexit_nxt - 1 \in Index
    OBVIOUS
  <1>2. r \in registered /\ runs[r] = 0
    BY <1>1
  <1>3. ASSUME NEW later \in registered, later > r
        PROVE  runs[later] = 1
    <2>1. SUFFICES ASSUME runs[later] = 0 PROVE FALSE
      OBVIOUS
    <2>2. PICK j \in 0 .. atexit_nxt - 1 : later = atexits[j]
      <3>1. later \in {q \in registered : runs[q] = 0}
        BY <1>3, <2>1
      <3>2. later \in {atexits[i] : i \in 0 .. atexit_nxt - 1}
        BY <3>1
      <3>3. QED
        BY ONLY <3>2
    <2>3. j = atexit_nxt - 1 \/ atexits[j] < r
      BY <1>1
    <2>4. later \in Int /\ r \in Int
      BY <1>2
    <2>5. later = r \/ later < r
      BY <2>2, <2>3
    <2>6. QED
      BY ONLY <1>3, <2>4, <2>5
  <1>4. QED
    BY <1>1, <1>2, <1>3 DEF LatestFirst

(* A turn of exit takes that entry off the table. *)
LEMMA FinalizeKeepsTable ==
  ASSUME IInv, Finalize
  PROVE  IInv'
  <1> USE DEF IInv, TableType, TableOrdered, Registrations, Index
  <1> DEFINE r == atexits[atexit_nxt - 1]
  <1>1. /\ atexit_nxt # 0
        /\ atexit_nxt' = atexit_nxt - 1
        /\ runs' = [runs EXCEPT ![r] = @ + 1]
        /\ UNCHANGED <<atexits, tried, registered>>
        /\ stage = "finalize" /\ (stage' = "fini" \/ stage' = stage)
    BY DEF Finalize
  <1>2. r \in registered /\ runs[r] = 0 /\ r \in Registrations /\ atexit_nxt - 1 \in Index
    BY <1>1, LastIsLatest DEF LatestFirst
  <1>3. runs'[r] = 1 /\ \A q \in Registrations \ {r} : runs'[q] = runs[q]
    BY <1>1, <1>2
  <1>4. TableType'
    <2>1. runs' \in [Registrations -> Nat]
      BY <1>1, <1>2
    <2>2. \A q \in Registrations \ registered' : runs'[q] = 0
      BY <1>1, <1>2, <1>3
    <2>3. stage' # "reset"
      BY <1>1
    <2>4. QED
      BY <1>1, <2>1, <2>2, <2>3
  <1>5. \A i \in 0 .. atexit_nxt - 2 : atexits[i] # r
    BY <1>1, <1>2
  <1>6. 0 .. atexit_nxt - 1 = (0 .. atexit_nxt' - 1) \cup {atexit_nxt - 1}
    BY <1>1, SMTT(30)
  <1>7. {atexits'[i] : i \in 0 .. atexit_nxt' - 1} = {atexits[i] : i \in 0 .. atexit_nxt - 1} \ {r}
    <2>1. \A i \in 0 .. atexit_nxt' - 1 : atexits'[i] = atexits[i] /\ atexits[i] # r
      BY <1>1, <1>5
    <2>2. QED
      BY ONLY <1>6, <2>1
  <1>8. {q \in registered' : runs'[q] = 0} = {q \in registered : runs[q] = 0} \ {r}
    BY <1>1, <1>2, <1>3
  <1>9. \A i, j \in 0 .. atexit_nxt' - 1 : i < j => atexits'[i] < atexits'[j]
    BY <1>1
  <1>10. \A q \in registered' : runs'[q] \in {0, 1} /\ q < tried'
    BY <1>1, <1>2, <1>3
  <1>11. atexit_nxt' \in 0 .. CAPACITY
    BY <1>1
  <1>12. {q \in registered' : runs'[q] = 0} = {atexits'[i] : i \in 0 .. atexit_nxt' - 1}
    BY <1>7, <1>8
  <1>13. TableOrdered'
    BY <1>9, <1>10, <1>11, <1>12
  <1>14. QED
    BY <1>4, <1>13

LEMMA InitTable == StartupInit => IInv
  BY DEF StartupInit, IInv, TableType, TableOrdered, Registrations, Index, _fini

LEMMA StepKeepsTable ==
  ASSUME IInv, [StartupNext]_startupVars
  PROVE  IInv'
  <1>1. CASE _start
    <2>1. tried <= MaxAtexit /\ CxaAtexit /\ stage' # "reset"
      BY <1>1 DEF _start, IInv, TableType
    <2>2. QED
      BY <2>1, CxaAtexitKeeps
  <1>2. CASE Register
    <2>1. tried <= MaxAtexit /\ CxaAtexit /\ UNCHANGED stage
      BY <1>2 DEF Register
    <2>2. stage' # "reset"
      BY <1>2, <2>1 DEF Register, IInv, TableType
    <2>3. QED
      BY <2>1, <2>2, CxaAtexitKeeps
  <1>3. CASE Finalize
    BY <1>3, FinalizeKeepsTable
  <1>4. CASE \/ Construct \/ Main \/ ProgramReturns \/ Exit \/ Destruct \/ FiniReturns \/ ClibExit \/ Abort
             \/ UNCHANGED startupVars
    <2>1. UNCHANGED table /\ (stage' = "reset" => stage = "reset" /\ busy' = busy)
      <3>1. CASE UNCHANGED startupVars
        BY <3>1 DEF startupVars, table
      <3>2. CASE Construct \/ Main \/ ProgramReturns \/ Exit \/ Destruct \/ FiniReturns \/ ClibExit \/ Abort
        <4>1. UNCHANGED table
          BY <3>2, Zenon DEF Construct, Main, ProgramReturns, Exit, Destruct, FiniReturns, ClibExit, Abort
        <4>2. stage' = "reset" => stage = "reset" /\ busy' = busy
          <5>1. stage = "reset" => ~busy
            BY DEF IInv, TableType
          <5>2. QED
            BY <3>2, <5>1 DEF Construct, Main, ProgramReturns, Exit, Destruct, FiniReturns, ClibExit, Abort
        <4>3. QED
          BY <4>1, <4>2
      <3>3. QED
        BY <1>4, <3>1, <3>2
    <2>2. QED
      BY <2>1 DEF table, IInv, TableType, TableOrdered
  <1>5. QED
    BY <1>1, <1>2, <1>3, <1>4 DEF StartupNext, Progress

(* The table holds the functions that are still to be called, in the order *)
(* of their registration, and those that are not in it were called once.   *)
THEOREM TableCorrect == StartupSpec => []TableOrdered
  <1>1. IInv => TableOrdered
    BY DEF IInv
  <1>2. IInv /\ [StartupNext]_startupVars => IInv'
    BY StepKeepsTable
  <1>3. QED
    BY <1>1, <1>2, InitTable, PTL DEF StartupSpec

(* exit calls each function that was registered once, the latest first,    *)
(* also those that are registered meanwhile.                               *)
THEOREM LatestFirstCorrect == StartupSpec => ExitRunsLatestFirst
  <1> DEFINE Called == \A r \in Registrations : runs'[r] # runs[r] => LatestFirst(r)
  <1>1. IInv /\ [StartupNext]_startupVars => [Called]_startupVars
    <2> SUFFICES ASSUME IInv, [StartupNext]_startupVars, ~UNCHANGED runs PROVE Called
      BY DEF startupVars
    <2>1. Finalize
      BY DEF StartupNext, Progress, _start, Register, CxaAtexit, Construct, Main, ProgramReturns, Exit,
        Destruct,
             FiniReturns, ClibExit, Abort, startupVars, table
    <2>2. LatestFirst(atexits[atexit_nxt - 1])
      BY <2>1, LastIsLatest DEF Finalize
    <2>3. \A r \in Registrations : runs'[r] # runs[r] => r = atexits[atexit_nxt - 1]
      BY <2>1 DEF Finalize, IInv, TableType
    <2>4. QED
      BY <2>2, <2>3
  <1>2. IInv /\ [StartupNext]_startupVars => IInv'
    BY StepKeepsTable
  <1>3. QED
    BY <1>1, <1>2, InitTable, PTL DEF StartupSpec, ExitRunsLatestFirst
-----------------------------------------------------------------------------
(***************************************************************************)
(* The streams.                                                            *)
(***************************************************************************)

StreamType ==
  /\ hosted \in BOOLEAN
  /\ files \in [File -> [stream : Stream \cup {NoStream}, in_use : BOOLEAN]]
  /\ held \in [File -> Stream \cup {NoStream}]
  /\ open \subseteq Stream

StreamInv == StreamType /\ FilesKept

(* The table has a first unused FILE when it has one at all. *)
LEMMA FirstUnusedIsUnused ==
  ASSUME Unused # {}
  PROVE  FirstUnused \in Unused /\ FirstUnused \in File /\ ~files[FirstUnused].in_use
  <1>1. Unused \in SUBSET Nat
    BY FilesAssumption DEF Unused, Pool
  <1>2. IsWellFoundedOn(OpToRel(<, Nat), Nat)
    BY NatLessThanWellFounded
  <1>3. PICK f \in Unused : \A g \in Unused : <<g, f>> \notin OpToRel(<, Nat)
    BY <1>1, <1>2, WFMin, Zenon
  <1>4. \A g \in Unused : ~(g < f) /\ g \in Nat /\ f \in Nat
    BY <1>1, <1>3 DEF OpToRel
  <1>5. \A g \in Unused : f <= g
    BY <1>4
  <1>6. FirstUnused \in Unused
    BY <1>5 DEF FirstUnused
  <1>7. QED
    BY <1>6 DEF Unused, File

LEMMA StreamInvInit == StreamsInit => StreamInv
  <1>1. SUFFICES ASSUME StreamsInit
                 PROVE  StreamInv
    OBVIOUS
  <1>2. PICK std \in [StdFiles -> Stream] :
          /\ \A f, g \in StdFiles : f # g => std[f] # std[g]
          /\ files = [f \in File |-> IF f \in StdFiles
                                     THEN [stream |-> std[f], in_use |-> TRUE]
                                     ELSE [stream |-> NoStream, in_use |-> FALSE]]
          /\ held = [f \in File |-> IF f \in StdFiles THEN std[f] ELSE NoStream]
          /\ open = IF hosted THEN {std[f] : f \in StdFiles} ELSE {}
    BY <1>1 DEF StreamsInit
  <1>3. StreamType
    BY <1>1, <1>2 DEF StreamType, StreamsInit
  <1>4. ASSUME hosted, NEW f \in File, held[f] # NoStream
        PROVE  /\ files[f] = [stream |-> held[f], in_use |-> TRUE]
               /\ held[f] \in open
               /\ \A g \in File \ {f} : held[g] # held[f]
    <2>1. f \in StdFiles /\ held[f] = std[f]
      BY <1>2, <1>4
    <2>2. held[f] \in open
      BY <1>2, <1>4, <2>1
    <2>3. ASSUME NEW g \in File \ {f}
          PROVE  held[g] # held[f]
      <3>1. CASE g \in StdFiles
        BY <1>2, <2>1, <3>1
      <3>2. CASE g \notin StdFiles
        BY <1>2, <1>4, <3>2
      <3>3. QED
        BY <3>1, <3>2
    <2>4. QED
      BY <1>2, <2>1, <2>2, <2>3
  <1>5. ASSUME NEW f \in File, files[f].in_use
        PROVE  held[f] # NoStream
    BY <1>2, <1>5, StreamAssumption
  <1>6. QED
    BY <1>3, <1>4, <1>5 DEF StreamInv, FilesKept

(* The program's FILEs stand for streams of their own. *)
LEMMA OwnStream ==
  ASSUME StreamInv, hosted, NEW f \in File, held[f] # NoStream
  PROVE  /\ files[f].in_use /\ files[f].stream = held[f] /\ held[f] \in open
         /\ \A g \in File \ {f} : held[g] # NoStream => held[g] # held[f] /\ held[g] \in open
  <1>1. /\ files[f] = [stream |-> held[f], in_use |-> TRUE]
        /\ held[f] \in open
        /\ \A g \in File \ {f} : held[g] # held[f]
    BY Zenon DEF StreamInv, FilesKept
  <1>2. \A g \in File \ {f} : held[g] # NoStream => held[g] \in open
    BY Zenon DEF StreamInv, FilesKept
  <1>3. files[f].in_use /\ files[f].stream = held[f]
    BY <1>1
  <1>4. QED
    BY <1>1, <1>2, <1>3, Zenon

(* What stands in the table when FILE f comes to stand for stream id. *)
LEMMA FileTaken ==
  ASSUME StreamInv, NEW f \in File, NEW id \in Stream, UNCHANGED <<hosted, lost>>,
         files' = [files EXCEPT ![f] = [stream |-> id, in_use |-> TRUE]],
         held' = [held EXCEPT ![f] = id],
         open' \subseteq Stream,
         hosted => /\ id \in open'
                   /\ \A g \in File \ {f} : held[g] # NoStream => held[g] # id /\ held[g] \in open'
  PROVE  StreamInv'
  <1>1. StreamType'
    BY DEF StreamInv, StreamType
  <1>2. /\ files'[f] = [stream |-> id, in_use |-> TRUE] /\ held'[f] = id
        /\ \A g \in File \ {f} : files'[g] = files[g] /\ held'[g] = held[g]
    BY DEF StreamInv, StreamType
  <1>3. id # NoStream
    BY StreamAssumption
  <1>4. ASSUME hosted', NEW g \in File, held'[g] # NoStream
        PROVE  /\ files'[g] = [stream |-> held'[g], in_use |-> TRUE]
               /\ held'[g] \in open'
               /\ \A h \in File \ {g} : held'[h] # held'[g]
    <2>1. CASE g = f
      BY <1>2, <1>3, <1>4, <2>1
    <2>2. CASE g # f
      <3>1. /\ files[g] = [stream |-> held[g], in_use |-> TRUE]
            /\ \A h \in File \ {g} : held[h] # held[g]
        BY <1>2, <1>4, <2>2, Zenon DEF StreamInv, FilesKept
      <3>2. held[g] # id /\ held[g] \in open'
        BY <1>2, <1>4, <2>2
      <3>3. QED
        BY <1>2, <2>2, <3>1, <3>2
    <2>3. QED
      BY <2>1, <2>2
  <1>5. ASSUME hosted', NEW g \in File, files'[g].in_use
        PROVE  held'[g] # NoStream \/ g \in lost'
    <2>1. CASE g = f
      BY <1>2, <1>3, <2>1
    <2>2. CASE g # f
      BY <1>2, <1>5, <2>2, Zenon DEF StreamInv, FilesKept
    <2>3. QED
      BY <2>1, <2>2
  <1>6. FilesKept'
    BY <1>4, <1>5, Zenon DEF FilesKept, File, Pool
  <1>7. QED
    BY <1>1, <1>6 DEF StreamInv

(* Nothing is taken: of the program's FILEs at most f is given up, which is *)
(* free then or lost.                                                      *)
LEMMA FileGiven ==
  ASSUME StreamInv, NEW f \in File, UNCHANGED hosted,
         held' = [held EXCEPT ![f] = NoStream],
         \/ files' = [files EXCEPT ![f] = [stream |-> files[f].stream, in_use |-> FALSE]] /\ lost' = lost
         \/ files' = files /\ lost' = lost \cup {f},
         open' \subseteq Stream,
         hosted => \A g \in File \ {f} : held[g] # NoStream => held[g] \in open'
  PROVE  StreamInv'
  <1>1. StreamType'
    <2>1. /\ files \in [File -> [stream : Stream \cup {NoStream}, in_use : BOOLEAN]]
          /\ files[f] \in [stream : Stream \cup {NoStream}, in_use : BOOLEAN]
      BY DEF StreamInv, StreamType
    <2> DEFINE file == [stream |-> files[f].stream, in_use |-> FALSE]
    <2>2. file \in [stream : Stream \cup {NoStream}, in_use : BOOLEAN]
      BY ONLY <2>1
    <2>3. files' = [files EXCEPT ![f] = file] \/ files' = files
      OBVIOUS
    <2> HIDE DEF file
    <2>4. files' \in [File -> [stream : Stream \cup {NoStream}, in_use : BOOLEAN]]
      BY ONLY <2>1, <2>2, <2>3
    <2>5. QED
      BY <2>4 DEF StreamInv, StreamType
  <1>2. /\ held'[f] = NoStream
        /\ files'[f].in_use => f \in lost'
        /\ \A g \in File \ {f} : files'[g] = files[g] /\ held'[g] = held[g]
    BY DEF StreamInv, StreamType
  <1>3. lost \subseteq lost'
    OBVIOUS
  <1>4. FilesKept'
    BY <1>2, <1>3 DEF StreamInv, FilesKept
  <1>5. QED
    BY <1>1, <1>4 DEF StreamInv

LEMMA OpenKeeps ==
  ASSUME StreamInv, NEW op \in Opens, NEW done \in HostDoes, NEW id \in Stream, Open(op, done, id)
  PROVE  StreamInv'
  <1> DEFINE idx == FirstUnused
  <1>1. idx \in File /\ ~files[idx].in_use
    BY FirstUnusedIsUnused DEF Open
  <1>2. hosted => held[idx] = NoStream
    BY <1>1, OwnStream, Zenon
  <1>3. /\ hosted \in BOOLEAN /\ open' \subseteq Stream /\ UNCHANGED <<hosted, lost>>
        /\ open' = IF done THEN open \cup {id} ELSE open
        /\ done => id \notin open
    BY DEF Open, StreamInv, StreamType
  <1>4. hosted => (Reported(op, done) <=> done)
    BY DEF Reported, Opens, NoResult
  <1>5. CASE Reported(op, done)
    <2>1. /\ files' = [files EXCEPT ![idx] = [stream |-> id, in_use |-> TRUE]]
          /\ held' = [held EXCEPT ![idx] = id]
      BY <1>5 DEF Open
    <2>2. ASSUME hosted
          PROVE  /\ id \in open'
                 /\ \A g \in File \ {idx} : held[g] # NoStream => held[g] # id /\ held[g] \in open'
      <3>1. done /\ id \notin open /\ open' = open \cup {id}
        BY <1>3, <1>4, <1>5, <2>2
      <3>2. \A g \in File : held[g] # NoStream => held[g] \in open
        BY <2>2, OwnStream, Zenon
      <3>3. QED
        BY <3>1, <3>2, Zenon
    <2> HIDE DEF idx
    <2>3. QED
      BY <1>1, <1>3, <2>1, <2>2, FileTaken
  <1>6. CASE ~Reported(op, done)
    <2>1. UNCHANGED <<files, held>>
      BY <1>6 DEF Open
    <2>2. hosted => open' = open
      BY <1>3, <1>4, <1>6
    <2>3. QED
      BY <1>3, <2>1, <2>2 DEF StreamInv, StreamType, FilesKept
  <1>7. QED
    BY <1>5, <1>6

LEMMA FcloseKeeps ==
  ASSUME StreamInv, NEW f \in File, Fclose(f)
  PROVE  StreamInv'
  <1>1. /\ held[f] # NoStream /\ UNCHANGED <<hosted, lost>>
        /\ files' = [files EXCEPT ![f] = [stream |-> files[f].stream, in_use |-> FALSE]]
        /\ held' = [held EXCEPT ![f] = NoStream]
        /\ open' = open \/ open' = open \ {files[f].stream}
    BY DEF Fclose
  <1>2. open' \subseteq Stream
    BY <1>1 DEF StreamInv, StreamType
  <1>3. ASSUME hosted
        PROVE  \A g \in File \ {f} : held[g] # NoStream => held[g] \in open'
    BY <1>1, <1>3, OwnStream
  <1>4. QED
    BY <1>1, <1>2, <1>3, FileGiven

LEMMA FreopenKeeps ==
  ASSUME StreamInv, NEW f \in File, NEW done \in HostDoes, NEW id \in Stream, Freopen(f, done, id)
  PROVE  StreamInv'
  <1> DEFINE closed == open \ {files[f].stream}
  <1>1. /\ held[f] # NoStream /\ UNCHANGED hosted
        /\ done => id \notin closed
        /\ open' = IF done THEN closed \cup {id} ELSE closed
    BY DEF Freopen
  <1>2. open' \subseteq Stream
    BY <1>1 DEF StreamInv, StreamType
  <1>3. ASSUME hosted
        PROVE  \A g \in File \ {f} : held[g] # NoStream => held[g] \in closed
    BY <1>1, <1>3, OwnStream
  <1>4. hosted => (Reported("freopen", done) <=> done)
    BY DEF Reported, NoResult
  <1>5. CASE Reported("freopen", done)
    <2>1. /\ files' = [files EXCEPT ![f] = [stream |-> id, in_use |-> TRUE]]
          /\ held' = [held EXCEPT ![f] = id] /\ UNCHANGED lost
      BY <1>5 DEF Freopen
    <2>2. ASSUME hosted
          PROVE  /\ id \in open'
                 /\ \A g \in File \ {f} : held[g] # NoStream => held[g] # id /\ held[g] \in open'
      BY <1>1, <1>3, <1>4, <1>5, <2>2
    <2>3. QED
      BY <1>1, <1>2, <2>1, <2>2, FileTaken
  <1>6. CASE ~Reported("freopen", done)
    <2>1. held' = [held EXCEPT ![f] = NoStream] /\ lost' = lost \cup {f} /\ UNCHANGED files
      BY <1>6 DEF Freopen
    <2>2. ASSUME hosted
          PROVE  \A g \in File \ {f} : held[g] # NoStream => held[g] \in open'
      BY <1>1, <1>3, <2>2
    <2>3. QED
      BY <1>1, <1>2, <2>1, <2>2, FileGiven
  <1>7. QED
    BY <1>5, <1>6

LEMMA StreamInvNext ==
  ASSUME StreamInv, [StreamsNext]_streamVars
  PROVE  StreamInv'
  <1>1. ASSUME UNCHANGED <<hosted, files, open, held, lost>>
        PROVE  StreamInv'
    BY <1>1 DEF StreamInv, StreamType, FilesKept
  <1>2. ASSUME NEW f, NEW op, Use(f, op)
        PROVE  StreamInv'
    BY <1>1, <1>2 DEF Use
  <1>3. ASSUME NEW op, UseHost(op) \/ TableFull(op)
        PROVE  StreamInv'
    BY <1>1, <1>3 DEF UseHost, TableFull
  <1>4. ASSUME NEW f, FcloseAgain(f)
        PROVE  StreamInv'
    BY <1>1, <1>4 DEF FcloseAgain
  <1>5. CASE UNCHANGED streamVars
    BY <1>1, <1>5 DEF streamVars
  <1>6. QED
    BY <1>2, <1>3, <1>4, <1>5, OpenKeeps, FcloseKeeps, FreopenKeeps DEF StreamsNext

(* With a host, whichever calls fail: every FILE the program has stands     *)
(* for its own open stream, and none is in use for nobody but those that a *)
(* failed freopen took (stdio.c), for a table of any size.                 *)
THEOREM StreamsCorrect == StreamsSpec => []FilesKept
  <1>1. StreamInv => FilesKept
    BY DEF StreamInv
  <1>2. QED
    BY <1>1, StreamInvInit, StreamInvNext, PTL DEF StreamsSpec
=============================================================================
