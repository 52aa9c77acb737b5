----------------------------- MODULE HeapProofs -----------------------------
(***************************************************************************)
(* Proofs about Heap, for every size of the pool and any sizes a program   *)
(* asks for that do not wrap in malloc (SizesAssumption): the parts of the *)
(* heap agree in every step, what is handed out is disjoint, the heap      *)
(* implements an allocator, and malloc's loops end.                        *)
(*                                                                         *)
(* malloc changes the heap in up to three ways at once: it splits a chunk, *)
(* reserves it and frees another.  The lemmas are about each of these, for *)
(* any heads h, links n and p, chunks C and runs held H.                   *)
(***************************************************************************)
EXTENDS Heap, TLAPS

FreeOf(h, C) == {c \in C : c # sentinel /\ ~h[c].reserved}
ListOf(h, C) == FreeOf(h, C) \cup {sentinel}

Links == [Places -> Places \cup {User, Null}]

Typed(h, n, p) == h \in [Places -> Heads \cup {User}] /\ n \in Links /\ p \in Links

(* Tiled, and no block is left out. *)
Shaped(h, C) ==
  /\ C \subseteq Places /\ {0, sentinel} \subseteq C
  /\ h[sentinel] = Head(TRUE, 0)
  /\ \A c \in C \ {sentinel} :
       /\ h[c] \in Heads
       /\ h[c].length > 0
       /\ c + h[c].length \in C
       /\ \A d \in C : d <= c \/ d >= c + h[c].length
  /\ \A b \in Alloc!Blocks : \E c \in C \ {sentinel} : c <= b /\ b < c + h[c].length

(* The links make one list: who follows them from the sentinel sees all.   *)
OneCycle(S, f) == \A U \in SUBSET S : sentinel \in U /\ (\A c \in U : f[c] \in U) => U = S

Listing(S, f, g) == Linking(S, f, g) /\ OneCycle(S, f)

(* HeldIsReserved, for a run and for all. *)
RunOwned(h, n, p, C, run) ==
  /\ run.at \in C /\ h[run.at] = Head(TRUE, run.size)
  /\ n[run.at] = User /\ p[run.at] = User
  /\ \A b \in run.at + 1 .. run.at + run.size - 1 : h[b] = User /\ n[b] = User /\ p[b] = User

Owned(h, n, p, C, H) ==
  /\ H \subseteq Alloc!Run
  /\ \A run \in H : RunOwned(h, n, p, C, run)
  /\ \A c \in C \ {sentinel} : h[c].reserved => [at |-> c, size |-> h[c].length] \in H

Sound(h, n, p, C, H) ==
  /\ Typed(h, n, p)
  /\ Shaped(h, C)
  /\ Listing(ListOf(h, C), n, p)
  /\ Owned(h, n, p, C, H)

-----------------------------------------------------------------------------
LEMMA PlacesAre ==
  sentinel \in Places /\ \A b \in Places : b \in Nat /\ b <= sentinel
  BY NrOfBlocksAssumption DEF Places, sentinel

LEMMA HeadsAre ==
  \A x \in Heads : x.length \in Nat /\ x.length <= sentinel /\ x.reserved \in BOOLEAN
  BY NrOfBlocksAssumption DEF Heads, sentinel

\* What taking out and putting in do to a doubly linked list.

LEMMA UnlinkedLinks ==
  ASSUME NEW S \in SUBSET Places, NEW f \in Links, NEW g \in Links, NEW x \in S, Linking(S, f, g)
  PROVE  Linking(S \ {x}, NextUnlinked(f, g, x), PrevUnlinked(f, g, x))
  <1> DEFINE n == NextUnlinked(f, g, x)
             p == PrevUnlinked(f, g, x)
  <1>1. f[x] \in S /\ g[x] \in S /\ g[f[x]] = x /\ f[g[x]] = x
    BY DEF Linking
  <1> SUFFICES ASSUME NEW c \in S \ {x}
               PROVE  n[c] \in S \ {x} /\ p[c] \in S \ {x} /\ p[n[c]] = c /\ n[p[c]] = c
    BY DEF Linking
  <1>2. f[c] \in S /\ g[c] \in S /\ g[f[c]] = c /\ f[g[c]] = c
    BY DEF Linking
  <1>3. \A d \in S : n[d] = IF d = g[x] THEN f[x] ELSE f[d]
    BY DEF NextUnlinked, Links
  <1>4. \A d \in S : p[d] = IF d = f[x] THEN g[x] ELSE g[d]
    BY DEF PrevUnlinked, Links
  <1> HIDE DEF n, p
  <1>5. n[c] \in S \ {x} /\ p[n[c]] = c
    BY <1>1, <1>2, <1>3, <1>4
  <1>6. p[c] \in S \ {x} /\ n[p[c]] = c
    BY <1>1, <1>2, <1>3, <1>4
  <1>7. QED
    BY <1>5, <1>6

LEMMA InsertedLinks ==
  ASSUME NEW S \in SUBSET Places, NEW f \in Links, NEW g \in Links, NEW a \in S, NEW b \in Places \ S,
         Linking(S, f, g)
  PROVE  Linking(S \cup {b}, NextInserted(f, a, b), PrevInserted(f, g, a, b))
  <1> DEFINE n == NextInserted(f, a, b)
             p == PrevInserted(f, g, a, b)
  <1>1. f[a] \in S /\ g[f[a]] = a
    BY DEF Linking
  <1> SUFFICES ASSUME NEW c \in S \cup {b}
               PROVE  n[c] \in S \cup {b} /\ p[c] \in S \cup {b} /\ p[n[c]] = c /\ n[p[c]] = c
    BY DEF Linking
  <1>2. \A d \in S : f[d] \in S /\ g[d] \in S /\ g[f[d]] = d /\ f[g[d]] = d
    BY DEF Linking
  <1>3. \A d \in S \cup {b} : n[d] = IF d = a THEN b ELSE IF d = b THEN f[a] ELSE f[d]
    BY DEF NextInserted, Links
  <1>4. \A d \in S \cup {b} : p[d] = IF d = b THEN a ELSE IF d = f[a] THEN b ELSE g[d]
    BY <1>1 DEF PrevInserted, Links
  <1> HIDE DEF n, p
  <1>5. CASE c = b
    BY <1>1, <1>2, <1>3, <1>4, <1>5
  <1>6. CASE c \in S
    BY <1>1, <1>2, <1>3, <1>4, <1>6
  <1>7. QED
    BY <1>5, <1>6

\* Links of other blocks do not matter.
LEMMA SameLinks ==
  ASSUME NEW S, NEW f, NEW g, NEW n, NEW p, Linking(S, f, g),
         \A c \in S : n[c] = f[c] /\ p[c] = g[c]
  PROVE  Linking(S, n, p)
  BY DEF Linking

LEMMA UnlinkedCycle ==
  ASSUME NEW S \in SUBSET Places, NEW f \in Links, NEW g \in Links, NEW x \in S \ {sentinel}, Listing(S, f, g)
  PROVE  OneCycle(S \ {x}, NextUnlinked(f, g, x))
  <1> SUFFICES ASSUME NEW U \in SUBSET (S \ {x}), sentinel \in U,
                      \A c \in U : NextUnlinked(f, g, x)[c] \in U
               PROVE  U = S \ {x}
    BY DEF OneCycle
  <1>1. \A c \in S : f[c] \in S /\ g[c] \in S /\ g[f[c]] = c /\ f[g[c]] = c
    BY DEF Listing, Linking
  <1>2. \A c \in S : NextUnlinked(f, g, x)[c] = IF c = g[x] THEN f[x] ELSE f[c]
    BY <1>1 DEF NextUnlinked, Links
  <1>3. CASE g[x] \in U
    <2>1. \A c \in U \cup {x} : f[c] \in U \cup {x}
      BY <1>1, <1>2, <1>3
    <2>2. U \cup {x} \in SUBSET S /\ sentinel \in U \cup {x}
      OBVIOUS
    <2>3. U \cup {x} = S
      BY <2>1, <2>2 DEF Listing, OneCycle
    <2>4. QED
      BY <2>3
  <1>4. CASE g[x] \notin U
    <2>1. \A c \in U : f[c] \in U
      BY <1>1, <1>2, <1>4
    <2>2. U = S
      BY <2>1 DEF Listing, OneCycle
    <2>3. QED
      BY <2>2
  <1>5. QED
    BY <1>3, <1>4

LEMMA InsertedCycle ==
  ASSUME NEW S \in SUBSET Places, NEW f \in Links, NEW g \in Links,
         sentinel \in S, NEW b \in Places \ S, Listing(S, f, g)
  PROVE  OneCycle(S \cup {b}, NextInserted(f, sentinel, b))
  <1> SUFFICES ASSUME NEW U \in SUBSET (S \cup {b}), sentinel \in U,
                      \A c \in U : NextInserted(f, sentinel, b)[c] \in U
               PROVE  U = S \cup {b}
    BY DEF OneCycle
  <1>1. \A c \in S : f[c] \in S
    BY DEF Listing, Linking
  <1>2. \A c \in S \cup {b} : NextInserted(f, sentinel, b)[c] =
                              IF c = sentinel THEN b ELSE IF c = b THEN f[sentinel] ELSE f[c]
    BY DEF NextInserted, Links
  <1>3. b \in U /\ f[sentinel] \in U
    BY <1>2
  <1>4. \A c \in U \ {b} : f[c] \in U \ {b}
    BY <1>1, <1>2, <1>3
  <1>5. U \ {b} = S
    BY <1>4 DEF Listing, OneCycle
  <1>6. QED
    BY <1>3, <1>5

\* The three together, for a list with the sentinel.
LEMMA Unlinked ==
  ASSUME NEW S \in SUBSET Places, NEW f \in Links, NEW g \in Links, NEW x \in S \ {sentinel}, Listing(S, f, g)
  PROVE  Listing(S \ {x}, NextUnlinked(f, g, x), PrevUnlinked(f, g, x))
  BY UnlinkedLinks, UnlinkedCycle DEF Listing

LEMMA Inserted ==
  ASSUME NEW S \in SUBSET Places, NEW f \in Links, NEW g \in Links,
         sentinel \in S, NEW b \in Places \ S, Listing(S, f, g)
  PROVE  Listing(S \cup {b}, NextInserted(f, sentinel, b), PrevInserted(f, g, sentinel, b))
  BY InsertedLinks, InsertedCycle DEF Listing

LEMMA SameListing ==
  ASSUME NEW S, NEW f, NEW g, NEW n, NEW p, Listing(S, f, g),
         \A c \in S : n[c] = f[c] /\ p[c] = g[c]
  PROVE  Listing(S, n, p)
  BY DEF Listing, Linking, OneCycle

-----------------------------------------------------------------------------
\* What a sound heap says of the blocks of a run that is held.

Separate(h, C, H, run) ==
  /\ run.at \in C \ {sentinel} /\ run.size \in 1 .. NrOfBlocks /\ h[run.at] = Head(TRUE, run.size)
  /\ run.at + run.size \in C
  /\ \A b \in Alloc!Extent(run) :
       /\ b \in Places /\ b \notin ListOf(h, C) /\ (b \in C => b = run.at)
       /\ \A c \in FreeOf(h, C) : b < c \/ b >= c + h[c].length
  /\ \A other \in H : other.at = run.at => other = run

LEMMA Apart ==
  ASSUME NEW h, NEW n, NEW p, NEW C, NEW H, Sound(h, n, p, C, H), NEW run \in H
  PROVE  Separate(h, C, H, run)
  <1>1. NrOfBlocks \in Nat /\ C \subseteq Places
    BY NrOfBlocksAssumption DEF Sound, Shaped
  <1>2. run \in Alloc!Run /\ run.at \in 0 .. NrOfBlocks - 1 /\ run.size \in 1 .. NrOfBlocks
    BY DEF Sound, Owned, Alloc!Run, Alloc!Blocks
  <1>3. run.at \in C \ {sentinel} /\ h[run.at] = Head(TRUE, run.size)
    <2>1. RunOwned(h, n, p, C, run)
      BY DEF Sound, Owned
    <2>2. run.at # sentinel
      BY <1>1, <1>2 DEF sentinel
    <2>3. QED
      BY <2>1, <2>2 DEF RunOwned
  <1>4. h[run.at].reserved /\ h[run.at].length = run.size
    BY <1>3 DEF Head
  <1>5. run.at + run.size \in C /\ \A d \in C : d <= run.at \/ d >= run.at + run.size
    BY <1>3, <1>4 DEF Sound, Shaped
  <1>6. ASSUME NEW b \in Alloc!Extent(run)
        PROVE  /\ b \in Places /\ b \notin ListOf(h, C) /\ (b \in C => b = run.at)
               /\ \A c \in FreeOf(h, C) : b < c \/ b >= c + h[c].length
    <2>1. b \in Int /\ run.at <= b /\ b < run.at + run.size
      BY <1>1, <1>2 DEF Alloc!Extent
    <2>2. b \in Places /\ b < sentinel
      BY <1>1, <1>2, <1>5, <2>1 DEF Places, sentinel
    <2>3. b \in C => b = run.at
      BY <1>1, <1>2, <1>5, <2>1 DEF Places
    <2>4. b \notin ListOf(h, C)
      BY <1>4, <2>2, <2>3, NrOfBlocksAssumption DEF ListOf, FreeOf, sentinel
    <2>5. ASSUME NEW c \in FreeOf(h, C) PROVE b < c \/ b >= c + h[c].length
      <3>1. c \in C \ {sentinel} /\ ~h[c].reserved /\ c # run.at
        BY <1>4 DEF FreeOf
      <3>2. h[c] \in Heads /\ \A d \in C : d <= c \/ d >= c + h[c].length
        BY <3>1 DEF Sound, Shaped
      <3>3. c \in Int /\ h[c].length \in Int
        BY <1>1, <3>1, <3>2 DEF Places, Heads
      <3>4. QED
        BY <1>2, <1>3, <1>5, <2>1, <3>1, <3>2, <3>3
    <2>6. QED
      BY <2>2, <2>3, <2>4, <2>5
  <1>7. ASSUME NEW other \in H, other.at = run.at PROVE other = run
    <2>1. other \in Alloc!Run /\ h[other.at] = Head(TRUE, other.size)
      BY DEF Sound, Owned, RunOwned
    <2>2. other.size = run.size
      BY <1>7, <1>4, <2>1 DEF Head
    <2>3. QED
      BY <1>2, <1>7, <2>1, <2>2 DEF Alloc!Run
  <1>8. QED
    BY <1>2, <1>3, <1>5, <1>6, <1>7 DEF Separate

\* A heap that says the same of the blocks of the runs that are held.
LEMMA StillOwned ==
  ASSUME NEW h, NEW n, NEW p, NEW C, NEW H, Sound(h, n, p, C, H), NEW run \in H,
         NEW h2, NEW n2, NEW p2, NEW C2, run.at \in C2,
         \A b \in Alloc!Extent(run) : h2[b] = h[b] /\ n2[b] = n[b] /\ p2[b] = p[b]
  PROVE  RunOwned(h2, n2, p2, C2, run)
  <1>1. run.at \in Int /\ run.size \in Int /\ run.size > 0
    BY NrOfBlocksAssumption DEF Sound, Owned, Alloc!Run, Alloc!Blocks
  <1>2. run.at \in Alloc!Extent(run) /\ run.at + 1 .. run.at + run.size - 1 \subseteq Alloc!Extent(run)
    BY <1>1 DEF Alloc!Extent
  <1>3. QED
    BY <1>2 DEF Sound, Owned, RunOwned

-----------------------------------------------------------------------------
\* A chunk that is free is split in two.

LEMMA SplitSound ==
  ASSUME NEW h, NEW n, NEW p, NEW C, NEW H, Sound(h, n, p, C, H),
         NEW c \in FreeOf(h, C), NEW s \in Nat, 0 < s, s < h[c].length
  PROVE  /\ c + s \in Places \ C
         /\ Sound([h EXCEPT ![c + s] = Head(FALSE, h[c].length - s), ![c] = Head(FALSE, s)],
                  NextInserted(n, sentinel, c + s), PrevInserted(n, p, sentinel, c + s), C \cup {c + s}, H)
  <1> DEFINE l  == h[c].length
             k  == c + s
             h2 == [h EXCEPT ![k] = Head(FALSE, l - s), ![c] = Head(FALSE, s)]
             n2 == NextInserted(n, sentinel, k)
             p2 == PrevInserted(n, p, sentinel, k)
             C2 == C \cup {k}
  <1> USE NrOfBlocksAssumption
  <1>1. c \in C \ {sentinel} /\ ~h[c].reserved /\ C \subseteq Places /\ {0, sentinel} \subseteq C
    BY DEF FreeOf, Sound, Shaped
  <1>2. h[c] \in Heads /\ c + l \in C /\ \A d \in C : d <= c \/ d >= c + l
    BY <1>1 DEF Sound, Shaped
  <1>3. c \in Nat /\ l \in Nat /\ l - s \in 1 .. NrOfBlocks /\ s \in 1 .. NrOfBlocks /\ c + l <= sentinel
    <2>1. c \in Nat /\ l \in Nat /\ l <= sentinel /\ c + l <= sentinel
      BY <1>1, <1>2, PlacesAre, HeadsAre
    <2>2. QED
      BY <2>1 DEF sentinel
  <1>4. k \in Places /\ k \notin C /\ k # c /\ k # sentinel /\ k < sentinel
    BY <1>1, <1>2, <1>3 DEF Places, sentinel
  <1>5. Typed(h2, n2, p2)
    <2>1. Head(FALSE, l - s) \in Heads /\ Head(FALSE, s) \in Heads
      BY <1>3 DEF Head, Heads, sentinel
    <2>2. n[sentinel] \in Places \cup {User, Null} /\ sentinel \in Places /\ c \in Places
      BY <1>1 DEF Sound, Typed, Links
    <2>3. QED
      BY <1>4, <2>1, <2>2 DEF Sound, Typed, Links, NextInserted, PrevInserted
  <1>6. /\ h2[c] = Head(FALSE, s) /\ h2[k] = Head(FALSE, l - s)
        /\ \A d \in Places \ {c, k} : h2[d] = h[d]
    BY <1>1, <1>4 DEF Sound, Typed
  <1>7. /\ h2[c].length = s /\ ~h2[c].reserved /\ h2[c] \in Heads
        /\ h2[k].length = l - s /\ ~h2[k].reserved /\ h2[k] \in Heads
    <2>1. /\ Head(FALSE, s).length = s /\ ~Head(FALSE, s).reserved /\ Head(FALSE, s) \in Heads
          /\ Head(FALSE, l - s).length = l - s /\ ~Head(FALSE, l - s).reserved
          /\ Head(FALSE, l - s) \in Heads
      BY <1>3 DEF Head, Heads, sentinel
    <2> HIDE DEF h2
    <2>2. QED
      BY <1>6, <2>1
  <1> HIDE DEF h2
  <1>8. Shaped(h2, C2)
    <2>1. C2 \subseteq Places /\ {0, sentinel} \subseteq C2 /\ h2[sentinel] = Head(TRUE, 0)
      BY <1>1, <1>4, <1>6 DEF Sound, Shaped, Places, sentinel
    <2>2. ASSUME NEW e \in C2 \ {sentinel}
          PROVE  /\ h2[e] \in Heads /\ h2[e].length > 0 /\ e + h2[e].length \in C2
                 /\ \A d \in C2 : d <= e \/ d >= e + h2[e].length
      <3>1. CASE e = c
        <4>1. \A d \in C2 : d <= c \/ d >= c + s
          <5>1. \A d \in C : d \in Nat
            BY <1>1, PlacesAre
          <5>2. QED
            BY <1>2, <1>3, <5>1
        <4>2. QED
          BY <1>3, <1>7, <3>1, <4>1
      <3>2. CASE e = k
        <4>1. k + (l - s) = c + l
          BY <1>3
        <4>2. \A d \in C2 : d <= k \/ d >= c + l
          <5>1. \A d \in C : d \in Nat
            BY <1>1, PlacesAre
          <5>2. QED
            BY <1>2, <1>3, <5>1
        <4>3. QED
          BY <1>2, <1>3, <1>7, <3>2, <4>1, <4>2
      <3>3. CASE e \in C \ {c, sentinel}
        <4>1. h2[e] = h[e]
          BY <1>1, <1>4, <1>6, <3>3
        <4>2. h[e] \in Heads /\ h[e].length > 0 /\ e + h[e].length \in C
              /\ \A d \in C : d <= e \/ d >= e + h[e].length
          BY <3>3 DEF Sound, Shaped
        <4>3. e \in Nat /\ h[e].length \in Nat
          BY <1>1, <3>3, <4>2, PlacesAre, HeadsAre
        <4>4. k <= e \/ k >= e + h[e].length
          BY <1>1, <1>2, <1>3, <3>3, <4>2, <4>3
        <4>5. QED
          BY <4>1, <4>2, <4>4
      <3>4. QED
        BY <3>1, <3>2, <3>3
    <2>3. ASSUME NEW b \in Alloc!Blocks
          PROVE  \E e \in C2 \ {sentinel} : e <= b /\ b < e + h2[e].length
      <3>1. PICK e \in C \ {sentinel} : e <= b /\ b < e + h[e].length
        BY DEF Sound, Shaped
      <3>2. CASE e # c
        BY <1>1, <1>4, <1>6, <3>1, <3>2
      <3>3. CASE e = c /\ b < k
        BY <1>1, <1>7, <3>1, <3>3
      <3>4. CASE e = c /\ b >= k
        <4>1. b < k + (l - s)
          BY <1>3, <3>1, <3>4 DEF Alloc!Blocks
        <4>2. QED
          BY <1>4, <1>7, <3>4, <4>1
      <3>5. QED
        BY <1>3, <3>2, <3>3, <3>4 DEF Alloc!Blocks
    <2>4. QED
      BY <2>1, <2>2, <2>3 DEF Shaped
  <1>9. ListOf(h2, C2) = ListOf(h, C) \cup {k} /\ k \notin ListOf(h, C) /\ ListOf(h, C) \subseteq Places
    <2>1. FreeOf(h2, C2) = FreeOf(h, C) \cup {k}
      BY <1>1, <1>4, <1>6, <1>7 DEF FreeOf
    <2>2. QED
      BY <1>1, <1>4, <2>1 DEF ListOf, FreeOf
  <1>10. Listing(ListOf(h2, C2), n2, p2)
    <2>1. sentinel \in ListOf(h, C)
      BY DEF ListOf
    <2>2. Listing(ListOf(h, C), n, p) /\ n \in Links /\ p \in Links
      BY DEF Sound, Typed
    <2>3. k \in Places \ ListOf(h, C) /\ ListOf(h, C) \in SUBSET Places
      BY <1>4, <1>9
    <2>4. Listing(ListOf(h, C) \cup {k}, n2, p2)
      BY <2>1, <2>2, <2>3, Inserted
    <2>5. QED
      BY <1>9, <2>4
  <1>11. Owned(h2, n2, p2, C2, H)
    <2>1. ASSUME NEW run \in H
          PROVE  RunOwned(h2, n2, p2, C2, run)
      <3>1. ASSUME NEW b \in Alloc!Extent(run) PROVE h2[b] = h[b] /\ n2[b] = n[b] /\ p2[b] = p[b]
        <4>1. b \in Places /\ b \notin ListOf(h, C) /\ (b < c \/ b >= c + l)
          BY Apart, ZenonT(30) DEF Separate
        <4>2. b # c /\ b # sentinel /\ b # k
          BY <1>3, <4>1 DEF ListOf
        <4>3. n[sentinel] \in ListOf(h, C)
          BY DEF Sound, Listing, Linking, ListOf
        <4>4. QED
          BY <1>6, <4>1, <4>2, <4>3 DEF NextInserted, PrevInserted, Sound, Typed, Links
      <3>2. run.at \in C2
        BY Apart DEF Separate
      <3>3. QED
        BY <3>1, <3>2, StillOwned
    <2>2. ASSUME NEW d \in C2 \ {sentinel}, h2[d].reserved
          PROVE  [at |-> d, size |-> h2[d].length] \in H
      <3>1. d \in C \ {sentinel} /\ h2[d] = h[d]
        BY <1>1, <1>6, <1>7, <2>2
      <3>2. QED
        BY <2>2, <3>1 DEF Sound, Owned
    <2>3. QED
      BY <2>1, <2>2 DEF Owned, Sound
  <1>12. QED
    BY <1>4, <1>5, <1>8, <1>10, <1>11 DEF Sound, h2

\* A chunk that is free is given away as a whole.
Given(f, c, s, x) ==
  [b \in Places |-> IF b = c THEN x ELSE IF b \in c + 1 .. c + s - 1 THEN User ELSE f[b]]

LEMMA ReserveSound ==
  ASSUME NEW h, NEW n, NEW p, NEW C, NEW H, Sound(h, n, p, C, H), NEW c \in FreeOf(h, C),
         NEW s, s = h[c].length
  PROVE  Sound(Given(h, c, s, Head(TRUE, s)), Given(NextUnlinked(n, p, c), c, s, User),
               Given(PrevUnlinked(n, p, c), c, s, User), C, H \cup {[at |-> c, size |-> s]})
  <1> DEFINE new == [at |-> c, size |-> s]
             I   == c + 1 .. c + s - 1
             h2  == Given(h, c, s, Head(TRUE, s))
             n2  == Given(NextUnlinked(n, p, c), c, s, User)
             p2  == Given(PrevUnlinked(n, p, c), c, s, User)
  <1> USE NrOfBlocksAssumption
  <1>1. c \in C \ {sentinel} /\ ~h[c].reserved /\ C \subseteq Places /\ {0, sentinel} \subseteq C
    BY DEF FreeOf, Sound, Shaped
  <1>2. h[c] \in Heads /\ s > 0 /\ c + s \in C /\ \A d \in C : d <= c \/ d >= c + s
    BY <1>1 DEF Sound, Shaped
  <1>3. c \in 0 .. NrOfBlocks - 1 /\ s \in 1 .. NrOfBlocks
    <2>1. c \in Nat /\ c <= sentinel /\ c # sentinel /\ s \in Nat /\ s <= sentinel
      BY <1>1, <1>2, PlacesAre, HeadsAre
    <2>2. QED
      BY <1>2, <2>1 DEF sentinel
  <1>4. I \cap C = {} /\ I \cap ListOf(h, C) = {} /\ c \notin I
    BY <1>1, <1>2, <1>3 DEF Places, ListOf, FreeOf
  <1>5. ListOf(h, C) \subseteq Places /\ c \in ListOf(h, C)
    BY <1>1 DEF ListOf, FreeOf
  <1>6. \A b \in Places :
          /\ h2[b] = IF b = c THEN Head(TRUE, s) ELSE IF b \in I THEN User ELSE h[b]
          /\ n2[b] = IF b \in I \cup {c} THEN User ELSE NextUnlinked(n, p, c)[b]
          /\ p2[b] = IF b \in I \cup {c} THEN User ELSE PrevUnlinked(n, p, c)[b]
    BY DEF Given
  <1>7. Typed(h2, n2, p2)
    <2>1. NextUnlinked(n, p, c) \in Links /\ PrevUnlinked(n, p, c) \in Links
      BY <1>1 DEF NextUnlinked, PrevUnlinked, Sound, Typed, Links
    <2>2. Head(TRUE, s) \in Heads /\ h \in [Places -> Heads \cup {User}]
      BY <1>3 DEF Head, Heads, sentinel, Sound, Typed
    <2>3. QED
      BY <2>1, <2>2 DEF Typed, Links, Given
  <1> HIDE DEF h2, n2, p2, I
  <1>8. \A d \in C \ {c} : h2[d] = h[d]
    BY <1>6, <1>1, <1>4
  <1>9. h2[c] = Head(TRUE, s) /\ h2[c].length = s /\ h2[c].reserved /\ h2[c] \in Heads
    <2>1. Head(TRUE, s).length = s /\ Head(TRUE, s).reserved /\ Head(TRUE, s) \in Heads
      BY <1>3 DEF Head, Heads
    <2>2. h2[c] = Head(TRUE, s)
      BY <1>1, <1>6
    <2>3. QED
      BY <2>1, <2>2
  <1>10. Shaped(h2, C)
    <2>1. \A d \in C : h2[d].length = h[d].length
      BY <1>8, <1>9
    <2>2. h2[sentinel] = Head(TRUE, 0)
      BY <1>1, <1>8 DEF Sound, Shaped
    <2>3. \A d \in C \ {sentinel} : h2[d] \in Heads
      BY <1>8, <1>9 DEF Sound, Shaped
    <2>4. QED
      BY <1>1, <2>1, <2>2, <2>3 DEF Sound, Shaped
  <1>11. ListOf(h2, C) = ListOf(h, C) \ {c}
    BY <1>1, <1>8, <1>9 DEF ListOf, FreeOf
  <1>12. Listing(ListOf(h2, C), n2, p2)
    <2>1. Listing(ListOf(h, C) \ {c}, NextUnlinked(n, p, c), PrevUnlinked(n, p, c))
      <3>1. ListOf(h, C) \in SUBSET Places /\ c \in ListOf(h, C) \ {sentinel}
        BY <1>1, <1>5
      <3>2. Listing(ListOf(h, C), n, p) /\ n \in Links /\ p \in Links
        BY DEF Sound, Typed
      <3>3. QED
        BY <3>1, <3>2, Unlinked
    <2>2. \A d \in ListOf(h, C) \ {c} :
            n2[d] = NextUnlinked(n, p, c)[d] /\ p2[d] = PrevUnlinked(n, p, c)[d]
      BY <1>6, <1>4, <1>5
    <2>3. Listing(ListOf(h, C) \ {c}, n2, p2)
      BY <2>1, <2>2, SameListing
    <2>4. QED
      BY <1>11, <2>3
  <1>13. Owned(h2, n2, p2, C, H \cup {new})
    <2>1. ASSUME NEW run \in H
          PROVE  RunOwned(h2, n2, p2, C, run)
      <3>1. ASSUME NEW b \in Alloc!Extent(run) PROVE h2[b] = h[b] /\ n2[b] = n[b] /\ p2[b] = p[b]
        <4>1. b \in Places /\ b \notin ListOf(h, C) /\ (b < c \/ b >= c + s)
          BY Apart DEF Separate
        <4>2. b # c /\ b \notin I
          BY <1>3, <1>5, <4>1 DEF I
        <4>3. n[c] \in ListOf(h, C) /\ p[c] \in ListOf(h, C)
          BY <1>5 DEF Sound, Listing, Linking
        <4>4. NextUnlinked(n, p, c)[b] = n[b] /\ PrevUnlinked(n, p, c)[b] = p[b]
          BY <4>1, <4>3 DEF NextUnlinked, PrevUnlinked, Sound, Typed, Links
        <4>5. QED
          BY <1>6, <4>1, <4>2, <4>4
      <3>2. run.at \in C
        BY Apart DEF Separate
      <3>3. QED
        BY <3>1, <3>2, StillOwned
    <2>2. RunOwned(h2, n2, p2, C, new)
      <3>1. I \subseteq Places /\ c \in Places
        BY <1>1, <1>2, <1>3 DEF Places, I
      <3>2. /\ n2[c] = User /\ p2[c] = User
            /\ \A b \in I : h2[b] = User /\ n2[b] = User /\ p2[b] = User
        BY <1>6, <1>4, <3>1
      <3>3. new.at = c /\ new.size = s
        OBVIOUS
      <3> HIDE DEF new
      <3>4. QED
        BY <1>1, <1>9, <3>2, <3>3 DEF RunOwned, I
    <2>3. ASSUME NEW d \in C \ {sentinel}, h2[d].reserved
          PROVE  [at |-> d, size |-> h2[d].length] \in H \cup {new}
      BY <1>8, <1>9, <2>3 DEF Sound, Owned
    <2>4. new \in Alloc!Run /\ H \subseteq Alloc!Run
      BY <1>3 DEF Alloc!Run, Alloc!Blocks, Sound, Owned
    <2> HIDE DEF new
    <2>5. QED
      BY <2>1, <2>2, <2>3, <2>4 DEF Owned
  <1>14. QED
    BY <1>7, <1>10, <1>12, <1>13 DEF Sound, h2, n2, p2, new

\* A run that is held goes back to the list.
LEMMA FreeSound ==
  ASSUME NEW h, NEW n, NEW p, NEW C, NEW H, Sound(h, n, p, C, H), NEW run \in H
  PROVE  Sound(FreedHead(h, run.at), NextInserted(n, sentinel, run.at),
               PrevInserted(n, p, sentinel, run.at), C, H \ {run})
  <1> DEFINE a  == run.at
             h2 == FreedHead(h, a)
             n2 == NextInserted(n, sentinel, a)
             p2 == PrevInserted(n, p, sentinel, a)
  <1> USE NrOfBlocksAssumption
  <1>1. a \in C \ {sentinel} /\ h[a] = Head(TRUE, run.size) /\ C \subseteq Places /\ {0, sentinel} \subseteq C
    <2>1. Separate(h, C, H, run)
      BY Apart
    <2>2. QED
      BY <2>1 DEF Separate, Sound, Shaped
  <1>2. a \in Places /\ sentinel \in Places /\ run.size \in 1 .. NrOfBlocks
    BY <1>1, PlacesAre, Apart DEF Separate
  <1>3. h2 = [h EXCEPT ![a] = Head(FALSE, run.size)]
    <2>1. h[a].length = run.size
      BY <1>1 DEF Head
    <2>2. QED
      BY <2>1 DEF FreedHead
  <1> HIDE DEF h2
  <1>4. h2[a] = Head(FALSE, run.size) /\ \A d \in Places \ {a} : h2[d] = h[d]
    BY <1>2, <1>3 DEF Sound, Typed
  <1>5. h2[a].length = h[a].length /\ ~h2[a].reserved /\ h2[a] \in Heads
    <2>1. Head(FALSE, run.size).length = run.size /\ Head(TRUE, run.size).length = run.size
          /\ ~Head(FALSE, run.size).reserved /\ Head(FALSE, run.size) \in Heads
      BY <1>2 DEF Head, Heads, sentinel
    <2>2. QED
      BY <1>1, <1>4, <2>1
  <1>6. Typed(h2, n2, p2)
    <2>1. n[sentinel] \in Places \cup {User, Null}
      BY <1>2 DEF Sound, Typed, Links
    <2>2. Head(FALSE, run.size) \in Heads
      BY <1>4, <1>5
    <2>3. QED
      BY <1>2, <1>3, <2>1, <2>2 DEF Sound, Typed, Links, NextInserted, PrevInserted
  <1>7. Shaped(h2, C)
    <2>1. \A d \in C : h2[d].length = h[d].length
      BY <1>1, <1>4, <1>5
    <2>2. h2[sentinel] = Head(TRUE, 0)
      BY <1>1, <1>4 DEF Sound, Shaped
    <2>3. \A d \in C \ {sentinel} : h2[d] \in Heads
      BY <1>1, <1>4, <1>5 DEF Sound, Shaped
    <2>4. QED
      BY <1>1, <2>1, <2>2, <2>3 DEF Sound, Shaped
  <1>8. ListOf(h2, C) = ListOf(h, C) \cup {a} /\ a \notin ListOf(h, C) /\ ListOf(h, C) \subseteq Places
    <2>1. h[a].reserved
      BY <1>1 DEF Head
    <2>2. QED
      BY <1>1, <1>4, <1>5, <2>1 DEF ListOf, FreeOf
  <1>9. Listing(ListOf(h2, C), n2, p2)
    <2>1. /\ sentinel \in ListOf(h, C) /\ a \in Places \ ListOf(h, C)
          /\ ListOf(h, C) \in SUBSET Places
      BY <1>2, <1>8 DEF ListOf
    <2>2. Listing(ListOf(h, C), n, p) /\ n \in Links /\ p \in Links
      BY DEF Sound, Typed
    <2>3. Listing(ListOf(h, C) \cup {a}, n2, p2)
      BY <2>1, <2>2, Inserted
    <2>4. QED
      BY <1>8, <2>3
  <1>10. Owned(h2, n2, p2, C, H \ {run})
    <2>1. ASSUME NEW other \in H \ {run}
          PROVE  RunOwned(h2, n2, p2, C, other)
      <3>0. other \in H /\ Separate(h, C, H, other) /\ Separate(h, C, H, run)
        BY Apart
      <3>1. ASSUME NEW b \in Alloc!Extent(other) PROVE h2[b] = h[b] /\ n2[b] = n[b] /\ p2[b] = p[b]
        <4>1. b \in Places /\ b \notin ListOf(h, C) /\ (b \in C => b = other.at)
          BY <3>0 DEF Separate
        <4>2. other.at # a
          BY <3>0 DEF Separate
        <4>3. b # a /\ b # sentinel
          BY <1>1, <4>1, <4>2 DEF ListOf
        <4>4. n[sentinel] \in ListOf(h, C)
          BY DEF Sound, Listing, Linking, ListOf
        <4>5. QED
          BY <1>4, <4>1, <4>3, <4>4 DEF NextInserted, PrevInserted, Sound, Typed, Links
      <3>2. other.at \in C
        BY <3>0 DEF Separate
      <3>3. QED
        BY <3>0, <3>1, <3>2, StillOwned
    <2>2. ASSUME NEW d \in C \ {sentinel}, h2[d].reserved
          PROVE  [at |-> d, size |-> h2[d].length] \in H \ {run}
      <3>1. d # a /\ h2[d] = h[d]
        BY <1>1, <1>4, <1>5, <2>2
      <3>2. QED
        BY <2>2, <3>1 DEF Sound, Owned
    <2>3. QED
      BY <2>1, <2>2 DEF Owned, Sound
  <1>11. QED
    BY <1>6, <1>7, <1>9, <1>10 DEF Sound, h2

\* A free chunk takes in a free one behind it.
LEMMA JoinSound ==
  ASSUME NEW h, NEW n, NEW p, NEW C, NEW H, Sound(h, n, p, C, H), NEW c \in FreeOf(h, C),
         NEW k, k = c + h[c].length, ~h[k].reserved
  PROVE  /\ k \in FreeOf(h, C) \ {c} /\ h[c].length + h[k].length \in 0 .. NrOfBlocks
         /\ Sound([h EXCEPT ![c] = Head(FALSE, h[c].length + h[k].length)],
                  NextUnlinked(n, p, k), PrevUnlinked(n, p, k), C \ {k}, H)
  <1> DEFINE l  == h[c].length
             m  == h[k].length
             h2 == [h EXCEPT ![c] = Head(FALSE, l + m)]
             n2 == NextUnlinked(n, p, k)
             p2 == PrevUnlinked(n, p, k)
             C2 == C \ {k}
  <1> USE NrOfBlocksAssumption
  <1>1. c \in C \ {sentinel} /\ ~h[c].reserved /\ C \subseteq Places /\ {0, sentinel} \subseteq C
    BY DEF FreeOf, Sound, Shaped
  <1>2. h[c] \in Heads /\ l > 0 /\ k \in C /\ \A d \in C : d <= c \/ d >= k
    BY <1>1 DEF Sound, Shaped
  <1>3. k # sentinel
    BY DEF Sound, Shaped, Head
  <1>4. h[k] \in Heads /\ m > 0 /\ k + m \in C /\ \A d \in C : d <= k \/ d >= k + m
    BY <1>2, <1>3 DEF Sound, Shaped
  <1>5. c \in Nat /\ l \in Nat /\ m \in Nat /\ k \in Nat /\ k # 0 /\ c # k /\ k + m <= NrOfBlocks
    BY <1>1, <1>2, <1>4 DEF Heads, Places
  <1>6. l + m \in 1 .. NrOfBlocks /\ c + (l + m) = k + m
    BY <1>2, <1>5
  <1>7. Head(FALSE, l + m) \in Heads
    BY <1>6 DEF Head, Heads, sentinel
  <1>8. Typed(h2, n2, p2)
    BY <1>1, <1>2, <1>7 DEF Sound, Typed, Links, NextUnlinked, PrevUnlinked
  <1>9. h2[c] = Head(FALSE, l + m) /\ \A d \in Places \ {c} : h2[d] = h[d]
    BY <1>1 DEF Sound, Typed
  <1>10. h2[c].length = l + m /\ ~h2[c].reserved /\ h2[c] \in Heads
    <2>1. Head(FALSE, l + m).length = l + m /\ ~Head(FALSE, l + m).reserved
      BY <1>6 DEF Head, Heads, sentinel
    <2>2. QED
      BY <1>7, <1>9, <2>1
  <1> HIDE DEF h2
  <1>11. Shaped(h2, C2)
    <2>1. C2 \subseteq Places /\ {0, sentinel} \subseteq C2 /\ h2[sentinel] = Head(TRUE, 0)
      BY <1>1, <1>3, <1>5, <1>9 DEF Sound, Shaped
    <2>2. ASSUME NEW e \in C2 \ {sentinel}
          PROVE  /\ h2[e] \in Heads /\ h2[e].length > 0 /\ e + h2[e].length \in C2
                 /\ \A d \in C2 : d <= e \/ d >= e + h2[e].length
      <3>1. CASE e = c
        <4>1. \A d \in C2 : d <= c \/ d >= k + m
          BY <1>1, <1>2, <1>4, <1>5 DEF Places
        <4>2. k + m \in C2
          BY <1>4, <1>5
        <4>3. QED
          BY <1>6, <1>10, <3>1, <4>1, <4>2
      <3>2. CASE e # c
        <4>1. h2[e] = h[e]
          BY <1>1, <1>9, <3>2
        <4>2. h[e] \in Heads /\ h[e].length > 0 /\ e + h[e].length \in C
              /\ \A d \in C : d <= e \/ d >= e + h[e].length
          BY DEF Sound, Shaped
        <4>3. e \in Nat /\ h[e].length \in Nat
          BY <1>1, <4>2, PlacesAre, HeadsAre
        <4>4. e + h[e].length # k
          BY <1>1, <1>2, <1>5, <3>2, <4>2, <4>3
        <4>5. QED
          BY <4>1, <4>2, <4>4
      <3>3. QED
        BY <3>1, <3>2
    <2>3. ASSUME NEW b \in Alloc!Blocks
          PROVE  \E e \in C2 \ {sentinel} : e <= b /\ b < e + h2[e].length
      <3>1. PICK e \in C \ {sentinel} : e <= b /\ b < e + h[e].length
        BY DEF Sound, Shaped
      <3>2. CASE e \notin {c, k}
        BY <1>1, <1>9, <3>1, <3>2
      <3>3. CASE e \in {c, k}
        <4>1. c <= b /\ b < c + (l + m)
          BY <1>5, <1>6, <3>1, <3>3 DEF Alloc!Blocks
        <4>2. QED
          BY <1>1, <1>5, <1>10, <4>1
      <3>4. QED
        BY <3>2, <3>3
    <2>4. QED
      BY <2>1, <2>2, <2>3 DEF Shaped
  <1>12. k \in FreeOf(h, C) /\ ListOf(h2, C2) = ListOf(h, C) \ {k}
    BY <1>1, <1>2, <1>3, <1>5, <1>9, <1>10 DEF ListOf, FreeOf
  <1>13. Listing(ListOf(h2, C2), n2, p2)
    <2>1. ListOf(h, C) \subseteq Places /\ k \in ListOf(h, C) \ {sentinel}
      BY <1>1, <1>3, <1>12 DEF ListOf, FreeOf
    <2>2. Listing(ListOf(h, C), n, p) /\ n \in Links /\ p \in Links
      BY DEF Sound, Typed
    <2>3. Listing(ListOf(h, C) \ {k}, n2, p2)
      BY <2>1, <2>2, Unlinked
    <2>4. QED
      BY <1>12, <2>3
  <1>14. Owned(h2, n2, p2, C2, H)
    <2>1. ASSUME NEW run \in H
          PROVE  RunOwned(h2, n2, p2, C2, run)
      <3>1. ASSUME NEW b \in Alloc!Extent(run) PROVE h2[b] = h[b] /\ n2[b] = n[b] /\ p2[b] = p[b]
        <4>1. b \in Places /\ b \notin ListOf(h, C)
          BY Apart, ZenonT(30) DEF Separate
        <4>2. b # c /\ k \in ListOf(h, C)
          BY <1>12, <4>1 DEF ListOf
        <4>3. n[k] \in ListOf(h, C) /\ p[k] \in ListOf(h, C)
          BY <4>2 DEF Sound, Listing, Linking
        <4>4. QED
          BY <1>9, <4>1, <4>2, <4>3 DEF NextUnlinked, PrevUnlinked, Sound, Typed, Links
      <3>2. run.at \in C2
        <4>0. Separate(h, C, H, run)
          BY Apart
        <4>1. run.at \in C /\ h[run.at] = Head(TRUE, run.size)
          BY <4>0 DEF Separate
        <4>2. h[run.at].reserved
          BY <4>1 DEF Head
        <4>3. QED
          BY <4>1, <4>2
      <3>3. QED
        BY <3>1, <3>2, StillOwned
    <2>2. ASSUME NEW d \in C2 \ {sentinel}, h2[d].reserved
          PROVE  [at |-> d, size |-> h2[d].length] \in H
      <3>1. d # c /\ h2[d] = h[d]
        BY <1>1, <1>9, <1>10, <2>2
      <3>2. QED
        BY <2>2, <3>1 DEF Sound, Owned
    <2>3. QED
      BY <2>1, <2>2 DEF Owned, Sound
  <1>15. QED
    BY <1>5, <1>6, <1>8, <1>11, <1>12, <1>13, <1>14, SMTT(30) DEF Sound, h2

-----------------------------------------------------------------------------
\* What a sound heap says of the blocks that are not held.

LEMMA FitIsFree ==
  ASSUME NEW h, NEW n, NEW p, NEW C, NEW H, Sound(h, n, p, C, H),
         NEW c \in FreeOf(h, C), NEW s \in Nat \ {0}, s <= h[c].length
  PROVE  LET run == [at |-> c, size |-> s]
         IN  /\ run \in Alloc!Run /\ c + s <= NrOfBlocks
             /\ \A other \in H : Alloc!Extent(run) \cap Alloc!Extent(other) = {} /\ other.at # c
  <1>1. c \in C \ {sentinel} /\ C \subseteq Places
    BY DEF FreeOf, Sound, Shaped
  <1>2. h[c] \in Heads /\ c + h[c].length \in C
    BY <1>1 DEF Sound, Shaped
  <1>3. c \in Nat /\ h[c].length \in Nat /\ c + h[c].length <= sentinel
    BY <1>1, <1>2, PlacesAre, HeadsAre
  <1>4. c \in 0 .. NrOfBlocks - 1 /\ s \in 1 .. NrOfBlocks /\ c + s <= NrOfBlocks
    BY <1>3, NrOfBlocksAssumption DEF sentinel
  <1>5. [at |-> c, size |-> s] \in Alloc!Run
    BY <1>4 DEF Alloc!Run, Alloc!Blocks
  <1>6. Alloc!Extent([at |-> c, size |-> s]) = c .. c + s - 1
    BY DEF Alloc!Extent
  <1>7. ASSUME NEW other \in H
        PROVE  (c .. c + s - 1) \cap Alloc!Extent(other) = {} /\ other.at # c
    <2>1. Separate(h, C, H, other)
      BY Apart
    <2>2. other.at \in Nat /\ other.size \in Nat \ {0}
      BY <1>1, <2>1, PlacesAre DEF Separate
    <2>3. \A b \in Alloc!Extent(other) : b \in Int /\ (b < c \/ b >= c + h[c].length)
      BY <2>1, PlacesAre DEF Separate
    <2>4. other.at \in Alloc!Extent(other)
      BY <2>2 DEF Alloc!Extent
    <2>5. QED
      BY <1>3, <2>3, <2>4
  <1>8. QED
    BY <1>4, <1>5, <1>6, <1>7

LEMMA NoFitNoneFree ==
  ASSUME NEW h, NEW n, NEW p, NEW C, NEW H, Sound(h, n, p, C, H), NEW s \in Nat \ {0},
         \A c \in FreeOf(h, C) : h[c].length < s /\ h[c + h[c].length].reserved,
         NEW run \in Alloc!Run, run.size = s, run.at + s <= NrOfBlocks
  PROVE  \E other \in H : Alloc!Extent(run) \cap Alloc!Extent(other) # {}
  <1>1. run.at \in Alloc!Blocks /\ run.at \in Nat
    BY NrOfBlocksAssumption DEF Alloc!Run, Alloc!Blocks
  <1>2. PICK c \in C \ {sentinel} : c <= run.at /\ run.at < c + h[c].length
    BY <1>1 DEF Sound, Shaped
  <1>3. h[c] \in Heads /\ c + h[c].length \in C /\ C \subseteq Places
    BY DEF Sound, Shaped
  <1>4. c \in Nat /\ h[c].length \in Nat
    BY <1>3, PlacesAre, HeadsAre
  <1>5. ASSUME NEW d \in C \ {sentinel}, h[d].reserved, NEW b \in Nat,
               d <= b, b < d + h[d].length, run.at <= b, b < run.at + s
        PROVE  \E other \in H : Alloc!Extent(run) \cap Alloc!Extent(other) # {}
    <2>1. [at |-> d, size |-> h[d].length] \in H
      BY <1>5 DEF Sound, Owned
    <2>2. d \in Nat /\ h[d].length \in Nat
      BY <1>3, PlacesAre, HeadsAre DEF Sound, Shaped
    <2>3. b \in Alloc!Extent([at |-> d, size |-> h[d].length])
      BY <1>5, <2>2 DEF Alloc!Extent
    <2>4. b \in Alloc!Extent(run)
      BY <1>1, <1>5 DEF Alloc!Extent
    <2>5. QED
      BY <2>1, <2>3, <2>4
  <1>6. CASE h[c].reserved
    BY <1>1, <1>2, <1>4, <1>5, <1>6
  <1>7. CASE ~h[c].reserved
    <2> DEFINE d == c + h[c].length
    <2>1. h[c].length < s /\ h[d].reserved
      BY <1>2, <1>7 DEF FreeOf
    <2>2. d \in Nat /\ run.at < d /\ d < run.at + s /\ d # sentinel
      BY <1>1, <1>2, <1>4, <2>1, NrOfBlocksAssumption DEF sentinel
    <2>3. d \in C \ {sentinel} /\ h[d] \in Heads /\ h[d].length > 0
      BY <1>3, <2>2 DEF Sound, Shaped
    <2>4. h[d].length \in Nat
      BY <2>3, HeadsAre
    <2>5. d < d + h[d].length
      BY <2>2, <2>3, <2>4
    <2> HIDE DEF d
    <2>6. QED
      BY <1>1, <1>5, <2>1, <2>2, <2>3, <2>5
  <1>8. QED
    BY <1>6, <1>7

-----------------------------------------------------------------------------
\* The inductive invariant.

(* The chunks malloc has walked past are V: one leads to the next up to    *)
(* the candidate, and none of them is long enough.                         *)
Passed(V) ==
  /\ {sentinel, ptr} \subseteq V
  /\ \A v \in V : v # ptr => next[v] \in V
  /\ \A v \in V \ {sentinel} :
       \/ pc = "merge" /\ v = ptr
       \/ length(v) < request.size /\ is_reserved(v + length(v))

Structure ==
  /\ ready \in BOOLEAN
  /\ Typed(head, next, prev)
  /\ ready => Sound(head, next, prev, chunks, held)
  /\ ~ready => chunks = {} /\ held = {}

Locals ==
  /\ pc \in {"idle", "walk", "merge"}
  /\ ptr \in Places \cup {Null}
  /\ len \in 0 .. NrOfBlocks
  /\ request \in Alloc!Requests \cup {Alloc!NoRequest}
  /\ Candidate

IInv ==
  /\ Structure
  /\ Locals
  /\ pc # "idle" => \E V \in SUBSET ListOf(head, chunks) : Passed(V)

LEMMA IInvImplies ==
  ASSUME IInv PROVE HeapConsistent
  <1>1. TypeOK
    <2>1. chunks \subseteq Places /\ held \subseteq Alloc!Run
      BY DEF IInv, Structure, Sound, Shaped, Owned
    <2>2. QED
      BY <2>1 DEF IInv, Structure, Locals, Typed, Links, TypeOK, Alloc!TypeOK
  <1>2. Tiled
    BY DEF IInv, Structure, Sound, Shaped, Tiled, length
  <1>3. Linked
    BY DEF IInv, Structure, Sound, Listing, ListOf, FreeOf, Linked, FreeChunks, is_reserved
  <1>4. HeldIsReserved
    <2>1. CASE ready
      BY <2>1 DEF IInv, Structure, Sound, Owned, RunOwned, HeldIsReserved, is_reserved, length
    <2>2. CASE ~ready
      BY <2>2 DEF IInv, Structure, HeldIsReserved
    <2>3. QED
      BY <2>1, <2>2
  <1>5. QED
    BY <1>1, <1>2, <1>3, <1>4 DEF IInv, Locals, HeapConsistent

\* What the invariant says of malloc in its loops.
LEMMA InLoop ==
  ASSUME IInv, pc # "idle"
  PROVE  /\ ready /\ Sound(head, next, prev, chunks, held)
         /\ ptr \in ListOf(head, chunks)
         /\ request \in Alloc!Requests /\ request.size \in Nat \ {0}
         /\ request.old \in held \cup {Alloc!None}
         /\ pc = "merge" => ptr \in FreeOf(head, chunks) /\ len = head[ptr].length
  <1>1. ready /\ request # Alloc!NoRequest /\ ptr \in FreeChunks \cup {sentinel}
    BY DEF IInv, Locals, Candidate
  <1>2. FreeChunks = FreeOf(head, chunks)
    BY DEF FreeChunks, FreeOf, is_reserved
  <1>3. request \in Alloc!Requests
    BY <1>1 DEF IInv, Locals
  <1>4. request.size \in Nat \ {0}
    BY <1>3 DEF Alloc!Requests
  <1>5. QED
    BY <1>1, <1>2, <1>3, <1>4 DEF IInv, Structure, Locals, Candidate, ListOf, length

LEMMA Started ==
  ASSUME Init PROVE IInv /\ Alloc!Init
  <1> USE NrOfBlocksAssumption
  <1>1. Structure
    <2>1. Head(FALSE, 0) \in Heads
      BY DEF Head, Heads
    <2>2. QED
      BY <2>1 DEF Init, Structure, Typed, Links
  <1>2. Locals
    <2>1. request.old = Alloc!None
      BY DEF Init, Alloc!NoRequest
    <2>2. QED
      BY <2>1 DEF Init, Locals, Candidate
  <1>3. QED
    BY <1>1, <1>2 DEF Init, IInv, Alloc!Init

LEMMA PoolSound ==
  ASSUME IInv, InitPool, ~ready PROVE Sound(head', next', prev', chunks', held)
  <1> USE NrOfBlocksAssumption
  <1>1. 0 \in Places /\ sentinel \in Places /\ sentinel # 0
    BY DEF Places, sentinel
  <1>2. Head(FALSE, NrOfBlocks) \in Heads /\ Head(TRUE, 0) \in Heads
        /\ Head(FALSE, NrOfBlocks).length = NrOfBlocks /\ ~Head(FALSE, NrOfBlocks).reserved
    BY DEF Head, Heads
  <1>3. Typed(head, next, prev) /\ held = {}
    BY DEF IInv, Structure
  <1>4. head'[0] = Head(FALSE, NrOfBlocks) /\ head'[sentinel] = Head(TRUE, 0)
        /\ chunks' = {0, sentinel}
    BY <1>1, <1>3 DEF InitPool, Typed
  <1>5. /\ next'[0] = sentinel /\ next'[sentinel] = 0
        /\ prev'[0] = sentinel /\ prev'[sentinel] = 0
    BY <1>1, <1>3 DEF InitPool, Typed, Links
  <1>6. Typed(head', next', prev')
    BY <1>1, <1>2, <1>3 DEF InitPool, Typed, Links
  <1>7. Shaped(head', chunks')
    <2>1. head'[0].length = NrOfBlocks /\ head'[0] \in Heads
      BY <1>2, <1>4
    <2>2. \A b \in Alloc!Blocks : 0 <= b /\ b < sentinel
      BY DEF Alloc!Blocks, sentinel
    <2>3. chunks' \subseteq Places /\ {0, sentinel} \subseteq chunks' /\ chunks' \ {sentinel} = {0}
      BY <1>1, <1>4
    <2>4. 0 + NrOfBlocks = sentinel /\ NrOfBlocks > 0
      BY DEF sentinel
    <2>5. \A d \in chunks' : d <= 0 \/ d >= sentinel
      BY <1>4, <2>4 DEF sentinel
    <2>6. ASSUME NEW c \in chunks' \ {sentinel}
          PROVE  /\ head'[c] \in Heads /\ head'[c].length > 0
                 /\ c + head'[c].length \in chunks'
                 /\ \A d \in chunks' : d <= c \/ d >= c + head'[c].length
      <3>1. c = 0 /\ c + head'[c].length = sentinel
        BY <2>1, <2>3, <2>4
      <3>2. QED
        BY <2>1, <2>3, <2>4, <2>5, <3>1
    <2>7. \A b \in Alloc!Blocks : \E c \in chunks' \ {sentinel} : c <= b /\ b < c + head'[c].length
      BY <2>1, <2>2, <2>3, <2>4
    <2>8. QED
      BY <1>4, <2>3, <2>6, <2>7 DEF Shaped
  <1>8. ListOf(head', chunks') = {0, sentinel} /\ FreeOf(head', chunks') = {0}
    BY <1>1, <1>2, <1>4 DEF ListOf, FreeOf
  <1>9. Listing({0, sentinel}, next', prev')
    <2>1. Linking({0, sentinel}, next', prev')
      BY <1>5 DEF Linking
    <2>2. OneCycle({0, sentinel}, next')
      BY <1>5 DEF OneCycle
    <2>3. QED
      BY <2>1, <2>2 DEF Listing
  <1>10. Owned(head', next', prev', chunks', held)
    BY <1>1, <1>2, <1>3, <1>4 DEF Owned
  <1>11. QED
    BY <1>6, <1>7, <1>8, <1>9, <1>10 DEF Sound

\* A size that does not wrap gets the fewest blocks that hold it and the head.
LEMMA BlocksExact ==
  ASSUME NEW bytes \in Sizes
  PROVE  /\ BlocksFor(bytes) \in Nat \ {0}
         /\ BlocksFor(bytes) * BlockBytes - WordBytes >= bytes
         /\ (BlocksFor(bytes) - 1) * BlockBytes - WordBytes < bytes
  <1>1. /\ SIZE_MAX \in Nat /\ bytes \in Nat
        /\ Overhead = 19 /\ bytes + Overhead <= SIZE_MAX
    BY SizesAssumption DEF Overhead, WordBytes, BlockBytes
  <1>2. (bytes + Overhead) % (SIZE_MAX + 1) = bytes + Overhead
    BY <1>1
  <1>3. BlocksFor(bytes) = (bytes + 19) \div 16
    BY <1>1, <1>2 DEF BlocksFor, BlockBytes
  <1>4. QED
    BY <1>1, <1>3 DEF BlockBytes, WordBytes

\* A call asks: a run for the bytes, in place of the one realloc names.
LEMMA CallStep ==
  ASSUME IInv, NEW bytes \in Sizes, NEW old \in held \cup {Alloc!None}, Call(bytes, old)
  PROVE  IInv' /\ Alloc!Ask
  <1>1. BlocksFor(bytes) \in Nat \ {0}
    BY BlocksExact
  <1>2. Sound(head', next', prev', chunks', held') /\ ready'
    <2>1. CASE ready
      BY <2>1 DEF IInv, Structure, Call, structure
    <2>2. CASE ~ready
      BY <2>2, PoolSound DEF Call, InitPool
    <2>3. QED
      BY <2>1, <2>2
  <1>3. held \subseteq Alloc!Run
    BY DEF IInv, Structure, Sound, Owned
  <1>4. request' \in Alloc!Requests /\ request'.size = BlocksFor(bytes) /\ request'.old = old
    BY <1>1, <1>3 DEF Call, Alloc!Requests
  <1>5. request' # Alloc!NoRequest
    BY <1>1, <1>4 DEF Alloc!NoRequest
  <1>6. Locals'
    BY <1>2, <1>4, <1>5, PlacesAre DEF IInv, Locals, Candidate, Call, FreeChunks
  <1>7. Structure'
    BY <1>2 DEF Structure, Sound
  <1>8. \E V \in SUBSET ListOf(head, chunks)' : Passed(V)'
    <2>1. Passed({sentinel})'
      BY DEF Passed, Call
    <2>2. {sentinel} \in SUBSET ListOf(head, chunks)'
      BY DEF ListOf
    <2>3. QED
      BY <2>1, <2>2
  <1>9. request = Alloc!NoRequest /\ held' = held
    BY DEF IInv, Locals, Candidate, Call
  <1>10. QED
    BY <1>4, <1>6, <1>7, <1>8, <1>9 DEF IInv, Alloc!Ask

\* A walk that comes back to the sentinel has seen every free chunk.
LEMMA WalkStep ==
  ASSUME IInv, Walk
  PROVE  IInv' /\ (Alloc!Refuse \/ UNCHANGED Alloc!vars)
  <1> USE DEF length, is_reserved
  <1>1. /\ pc = "walk" /\ ready /\ Sound(head, next, prev, chunks, held)
        /\ ptr \in ListOf(head, chunks)
        /\ request \in Alloc!Requests /\ request.size \in Nat \ {0}
        /\ request.old \in held \cup {Alloc!None}
    BY InLoop DEF Walk
  <1>2. PICK V \in SUBSET ListOf(head, chunks) : Passed(V)
    BY <1>1 DEF IInv
  <1>3. \A v \in V \ {sentinel} : head[v].length < request.size /\ head[v + head[v].length].reserved
    BY <1>1, <1>2 DEF Passed
  <1>4. ptr' = next[ptr] /\ ptr' \in ListOf(head, chunks) /\ ptr \in V /\ sentinel \in V
    BY <1>1, <1>2 DEF Walk, Passed, Sound, Listing, Linking
  <1>5. /\ UNCHANGED <<ready, head, next, prev, chunks, held>>
    BY DEF Walk, structure
  <1>6. Structure'
    BY <1>5 DEF IInv, Structure
  <1>7. ptr' \in Places
    BY <1>1, <1>4, PlacesAre DEF ListOf, FreeOf, Sound, Shaped
  <1>8. CASE ptr' = sentinel
    <2>1. pc' = "idle" /\ request' = Alloc!NoRequest /\ len' = len
      BY <1>8 DEF Walk
    <2>2. V = ListOf(head, chunks)
      <3>1. \A v \in V : next[v] \in V
        BY <1>2, <1>4, <1>8 DEF Passed
      <3>2. QED
        BY <1>1, <1>4, <3>1 DEF Sound, Listing, OneCycle
    <2>3. \A c \in FreeOf(head, chunks) : head[c].length < request.size /\ head[c + head[c].length].reserved
      BY <1>3, <2>2 DEF ListOf, FreeOf
    <2>4. Alloc!FreeRuns(request.size) = {}
      BY <1>1, <2>3, NoFitNoneFree DEF Alloc!FreeRuns
    <2>5. request # Alloc!NoRequest
      BY <1>1 DEF IInv, Locals, Candidate
    <2>6. Alloc!Refuse
      BY <1>5, <2>1, <2>4, <2>5 DEF Alloc!Refuse
    <2>7. request'.old = Alloc!None
      BY <2>1 DEF Alloc!NoRequest
    <2>8. Locals'
      BY <1>7, <2>1, <2>7 DEF IInv, Locals, Candidate
    <2>9. QED
      BY <1>6, <2>1, <2>6, <2>8 DEF IInv
  <1>9. CASE ptr' # sentinel
    <2>1. pc' = "merge" /\ request' = request /\ len' = head[ptr'].length
      BY <1>9 DEF Walk
    <2>2. ptr' \in FreeOf(head, chunks)
      BY <1>4, <1>9 DEF ListOf
    <2>3. len' \in 0 .. NrOfBlocks
      <3>1. head[ptr'] \in Heads
        BY <1>1, <2>2 DEF FreeOf, Sound, Shaped
      <3>2. QED
        BY <2>1, <3>1, HeadsAre DEF sentinel
    <2>4. Locals'
      BY <1>1, <1>5, <1>7, <1>9, <2>1, <2>2, <2>3 DEF IInv, Locals, Candidate, FreeChunks, FreeOf
    <2>5. PICK c \in ListOf(head, chunks) : c = ptr'
      BY <1>4
    <2>6. Passed(V \cup {c})'
      BY <1>2, <1>3, <1>4, <1>5, <2>1, <2>5 DEF Passed
    <2>7. V \cup {c} \in SUBSET ListOf(head, chunks)'
      BY <1>5
    <2>8. \E U \in SUBSET ListOf(head, chunks)' : Passed(U)'
      BY <2>6, <2>7
    <2>9. QED
      BY <1>5, <1>6, <2>1, <2>4, <2>8 DEF IInv, Alloc!vars
  <1>10. QED
    BY <1>8, <1>9

LEMMA MergeStep ==
  ASSUME IInv, Merge
  PROVE  IInv' /\ UNCHANGED Alloc!vars
  <1> USE DEF length, is_reserved
  <1>0. PICK k : k = ptr + len
    OBVIOUS
  <1>1. /\ pc = "merge" /\ ready /\ Sound(head, next, prev, chunks, held)
        /\ ptr \in FreeOf(head, chunks) /\ len = head[ptr].length
        /\ request \in Alloc!Requests /\ request.old \in held \cup {Alloc!None}
    BY InLoop DEF Merge
  <1>2. /\ ~head[k].reserved /\ len' = len + head[k].length
        /\ next' = NextUnlinked(next, prev, k) /\ prev' = PrevUnlinked(next, prev, k)
        /\ head' = [head EXCEPT ![ptr] = Head(FALSE, len')]
        /\ chunks' = chunks \ {k} /\ UNCHANGED <<ready, pc, ptr, held, request>>
    BY <1>0 DEF Merge
  <1>3. k = ptr + head[ptr].length
    BY <1>0, <1>1
  <1>4. /\ k \in FreeOf(head, chunks) \ {ptr} /\ len' \in 0 .. NrOfBlocks
        /\ Sound(head', next', prev', chunks', held)
    BY <1>1, <1>2, <1>3, JoinSound
  <1>5. Structure'
    BY <1>1, <1>2, <1>4 DEF Structure, Sound
  <1>6. ptr \in chunks \ {sentinel} /\ chunks \subseteq Places
    BY <1>1 DEF FreeOf, Sound, Shaped
  <1>7. head'[ptr] = Head(FALSE, len') /\ \A d \in Places \ {ptr} : head'[d] = head[d]
    BY <1>1, <1>2, <1>6 DEF Sound, Typed
  <1>8. head'[ptr].length = len' /\ ~head'[ptr].reserved
    BY <1>7 DEF Head
  <1>9. Locals'
    BY <1>1, <1>2, <1>4, <1>6, <1>8 DEF IInv, Locals, Candidate, FreeChunks
  <1>10. PICK V \in SUBSET ListOf(head, chunks) : Passed(V)
    BY <1>1 DEF IInv
  <1>11. V \ {k} \in SUBSET ListOf(head, chunks)'
    BY <1>1, <1>2, <1>6, <1>7, <1>8 DEF ListOf, FreeOf
  <1>12. Passed(V \ {k})'
    <2>1. {sentinel, ptr} \subseteq V \ {k}
      BY <1>4, <1>10 DEF Passed, FreeOf
    <2>2. ASSUME NEW v \in V \ {k}, v # ptr PROVE next'[v] \in V \ {k}
      <3>1. /\ \A c \in ListOf(head, chunks) : prev[next[c]] = c /\ next[prev[c]] = c
            /\ v \in ListOf(head, chunks) /\ k \in ListOf(head, chunks) /\ v \in Places
        BY <1>1, <1>4, <1>6, PlacesAre DEF Sound, Listing, Linking, ListOf, FreeOf
      <3>2. next'[v] = IF v = prev[k] THEN next[k] ELSE next[v]
        BY <1>1, <1>2, <3>1 DEF NextUnlinked, Sound, Typed, Links
      <3>3. next[v] \in V /\ (next[v] = k => v = prev[k])
        BY <1>10, <2>2, <3>1 DEF Passed
      <3>4. CASE v = prev[k]
        <4>1. next[v] = k
          BY <3>1, <3>4
        <4>2. next[k] \in V
          BY <1>4, <1>10, <3>3, <4>1 DEF Passed
        <4>3. next[k] # k
          BY <3>1, <3>4
        <4>4. QED
          BY <3>2, <3>4, <4>2, <4>3
      <3>5. CASE v # prev[k]
        BY <3>1, <3>2, <3>3, <3>5
      <3>6. QED
        BY <3>4, <3>5
    <2>3. ASSUME NEW v \in (V \ {k}) \ {sentinel}, v # ptr
          PROVE  head'[v].length < request.size /\ head'[v + head'[v].length].reserved
      <3>1. head[v].length < request.size /\ head[v + head[v].length].reserved
        BY <1>10, <2>3 DEF Passed
      <3>2. v \in chunks \ {sentinel}
        BY DEF ListOf, FreeOf
      <3>3. v + head[v].length \in chunks /\ v + head[v].length # ptr
        BY <1>1, <3>1, <3>2 DEF Sound, Shaped, FreeOf
      <3>4. head'[v] = head[v] /\ head'[v + head[v].length] = head[v + head[v].length]
        BY <1>6, <1>7, <2>3, <3>2, <3>3
      <3>5. QED
        BY <3>1, <3>4
    <2>4. QED
      BY <1>1, <1>2, <2>1, <2>2, <2>3 DEF Passed
  <1>13. \E U \in SUBSET ListOf(head, chunks)' : Passed(U)'
    BY <1>11, <1>12
  <1>14. QED
    BY <1>2, <1>5, <1>9, <1>13 DEF IInv, Alloc!vars

LEMMA TooShortStep ==
  ASSUME IInv, TooShort
  PROVE  IInv' /\ UNCHANGED Alloc!vars
  <1> USE DEF length, is_reserved
  <1>1. /\ pc = "merge" /\ ready
        /\ ptr \in FreeOf(head, chunks) /\ len = head[ptr].length
        /\ head[ptr + len].reserved /\ len < request.size
    BY InLoop DEF TooShort
  <1>2. pc' = "walk" /\ UNCHANGED <<ready, head, next, prev, chunks, ptr, len, held, request>>
    BY DEF TooShort, structure
  <1>3. PICK V \in SUBSET ListOf(head, chunks) : Passed(V)
    BY <1>1 DEF IInv
  <1>4. Passed(V)'
    BY <1>1, <1>2, <1>3 DEF Passed
  <1>5. Structure'
    BY <1>2 DEF IInv, Structure
  <1>6. Locals'
    BY <1>1, <1>2 DEF IInv, Locals, Candidate, FreeChunks
  <1>7. V \in SUBSET ListOf(head, chunks)'
    BY <1>2
  <1>8. \E U \in SUBSET ListOf(head, chunks)' : Passed(U)'
    BY <1>4, <1>7
  <1>9. QED
    BY <1>2, <1>5, <1>6, <1>8 DEF IInv, Alloc!vars

\* The run taken is free; the one it replaces is freed after it.
LEMMA TakeStep ==
  ASSUME IInv, Take
  PROVE  IInv' /\ Alloc!Grant
  <1> DEFINE s   == request.size
             old == request.old
             run == [at |-> ptr, size |-> s]
             h   == Given(Split(s).head, ptr, s, Head(TRUE, s))
             n   == Given(NextUnlinked(Split(s).next, Split(s).prev, ptr), ptr, s, User)
             p   == Given(PrevUnlinked(Split(s).next, Split(s).prev, ptr), ptr, s, User)
             C   == chunks \cup Split(s).new
  <1> USE NrOfBlocksAssumption
  <1>1. /\ pc = "merge" /\ ready /\ Sound(head, next, prev, chunks, held)
        /\ ptr \in FreeOf(head, chunks) /\ len = head[ptr].length
        /\ request \in Alloc!Requests /\ s \in Nat \ {0} /\ old \in held \cup {Alloc!None}
    BY InLoop DEF Take
  <1>2. ptr \in chunks \ {sentinel} /\ chunks \subseteq Places /\ head[ptr] \in Heads
    BY <1>1 DEF FreeOf, Sound, Shaped
  <1>3. len \in Nat /\ len >= s /\ ptr \in Nat
    BY <1>1, <1>2, HeadsAre, PlacesAre DEF Take
  <1>4. Sound(h, n, p, C, held \cup {run})
    <2>1. CASE len > s
      <3> DEFINE k  == ptr + s
                 h1 == [head EXCEPT ![k] = Head(FALSE, len - s), ![ptr] = Head(FALSE, s)]
      <3>1. /\ Split(s).head = [head EXCEPT ![k] = Head(FALSE, len - s)]
            /\ Split(s).next = NextInserted(next, sentinel, k)
            /\ Split(s).prev = PrevInserted(next, prev, sentinel, k)
            /\ Split(s).new = {k}
        BY <2>1 DEF Split
      <3>2. k \in Places \ chunks /\ Sound(h1, Split(s).next, Split(s).prev, C, held)
        <4>1. s \in Nat /\ 0 < s /\ s < head[ptr].length
          BY <1>1, <1>3, <2>1
        <4>2. /\ ptr + s \in Places \ chunks
              /\ Sound([head EXCEPT ![ptr + s] = Head(FALSE, head[ptr].length - s), ![ptr] = Head(FALSE, s)],
                       NextInserted(next, sentinel, ptr + s), PrevInserted(next, prev, sentinel, ptr + s),
                       chunks \cup {ptr + s}, held)
          BY <1>1, <4>1, SplitSound
        <4>3. QED
          BY <1>1, <3>1, <4>2
      <3>3. h1[ptr] = Head(FALSE, s) /\ \A b \in Places \ {ptr} : h1[b] = Split(s).head[b]
        BY <1>1, <1>2, <3>1, <3>2 DEF Sound, Typed
      <3>4. ptr \in FreeOf(h1, C) /\ h1[ptr].length = s
        BY <1>2, <3>3 DEF FreeOf, Head
      <3>5. Given(h1, ptr, s, Head(TRUE, s)) = h
        BY <3>3 DEF Given
      <3> HIDE DEF h1, h, n, p, C
      <3>6. Sound(Given(h1, ptr, s, Head(TRUE, s)), n, p, C, held \cup {run})
        BY <3>2, <3>4, ReserveSound DEF n, p
      <3>7. QED
        BY <3>5, <3>6
    <2>2. CASE ~(len > s)
      <3>1. len = s
        BY <1>1, <1>3, <2>2
      <3>2. Split(s).head = head /\ Split(s).next = next /\ Split(s).prev = prev /\ Split(s).new = {}
        BY <2>2 DEF Split
      <3>3. C = chunks
        BY <3>2
      <3>4. Sound(Given(head, ptr, s, Head(TRUE, s)), Given(NextUnlinked(next, prev, ptr), ptr, s, User),
                  Given(PrevUnlinked(next, prev, ptr), ptr, s, User), chunks, held \cup {run})
        BY <1>1, <3>1, ReserveSound
      <3>5. QED
        BY <3>2, <3>3, <3>4
    <2>3. QED
      BY <2>1, <2>2
  <1>5. run \in Alloc!FreeRuns(s) /\ \A other \in held : other.at # ptr
    <2>1. /\ run \in Alloc!Run /\ ptr + s <= NrOfBlocks
          /\ \A other \in held : Alloc!Extent(run) \cap Alloc!Extent(other) = {} /\ other.at # ptr
      BY <1>1, <1>3, FitIsFree
    <2>2. run.at = ptr /\ run.size = s
      OBVIOUS
    <2> HIDE DEF run
    <2>3. QED
      BY <2>1, <2>2 DEF Alloc!FreeRuns
  <1>6. held' = (held \ {old}) \cup {run} /\ chunks' = C /\ pc' = "idle"
        /\ request' = Alloc!NoRequest /\ UNCHANGED <<ready, ptr, len>>
    BY DEF Take
  <1>7. Sound(head', next', prev', chunks', held')
    <2>1. held \subseteq Alloc!Run
      BY <1>1 DEF Sound, Owned
    <2>2. CASE old = Alloc!None
      <3>1. head' = h /\ next' = n /\ prev' = p
        BY <2>2 DEF Take, Given
      <3>2. Alloc!None \notin held
        BY <2>1 DEF Alloc!None, Alloc!Run, Alloc!Blocks
      <3>3. held' = held \cup {run}
        BY <1>6, <2>2, <3>2
      <3>4. QED
        BY <1>4, <1>6, <3>1, <3>3
    <2>3. CASE old # Alloc!None
      <3>1. /\ head' = FreedHead(h, old.at)
            /\ next' = NextInserted(n, sentinel, old.at)
            /\ prev' = PrevInserted(n, p, sentinel, old.at)
        BY <2>3 DEF Take, Given
      <3>2. old \in held /\ old # run
        BY <1>1, <1>5, <2>3
      <3>3. held' = (held \cup {run}) \ {old}
        BY <1>6, <3>2
      <3> HIDE DEF h, n, p, C, run
      <3>4. old \in held \cup {run}
        BY <3>2
      <3>5. Sound(FreedHead(h, old.at), NextInserted(n, sentinel, old.at),
                  PrevInserted(n, p, sentinel, old.at), C, (held \cup {run}) \ {old})
        BY <1>4, <3>4, FreeSound
      <3>6. QED
        BY <1>6, <3>1, <3>3, <3>5
    <2>4. QED
      BY <2>2, <2>3
  <1>8. Structure'
    BY <1>1, <1>6, <1>7 DEF Structure, Sound
  <1>9. Locals'
    <2>1. request'.old = Alloc!None
      BY <1>6 DEF Alloc!NoRequest
    <2>2. QED
      BY <1>6, <2>1 DEF IInv, Locals, Candidate
  <1>10. Alloc!Grant
    <2>1. request # Alloc!NoRequest
      BY <1>1 DEF IInv, Locals, Candidate
    <2>2. QED
      BY <1>5, <1>6, <2>1 DEF Alloc!Grant
  <1>11. QED
    BY <1>6, <1>8, <1>9, <1>10 DEF IInv

LEMMA FreeStep ==
  ASSUME IInv, NEW run \in held, Free(run)
  PROVE  IInv' /\ Alloc!Release(run)
  <1>1. ready /\ Sound(head, next, prev, chunks, held) /\ pc = "idle"
    BY DEF IInv, Structure, Free
  <1>2. request = Alloc!NoRequest
    BY <1>1 DEF IInv, Locals, Candidate
  <1>3. /\ head' = FreedHead(head, run.at)
        /\ next' = NextInserted(next, sentinel, run.at)
        /\ prev' = PrevInserted(next, prev, sentinel, run.at)
        /\ held' = held \ {run}
        /\ UNCHANGED <<ready, pc, ptr, len, chunks, request>>
    BY DEF Free
  <1>4. Sound(head', next', prev', chunks', held')
    BY <1>1, <1>3, FreeSound
  <1>5. Structure'
    BY <1>1, <1>3, <1>4 DEF Structure, Sound
  <1>6. Locals'
    <2>1. request'.old = Alloc!None
      BY <1>2, <1>3 DEF Alloc!NoRequest
    <2>2. QED
      BY <1>1, <1>2, <1>3, <2>1 DEF IInv, Locals, Candidate
  <1>7. QED
    BY <1>1, <1>2, <1>3, <1>5, <1>6 DEF IInv, Alloc!Release

\* Every step keeps the invariant and is a step of the allocator, or none.
LEMMA Steps ==
  ASSUME IInv, [Next]_vars
  PROVE  IInv' /\ [Alloc!Next]_Alloc!vars
  <1>1. ASSUME NEW bytes \in Sizes, Malloc(bytes) PROVE IInv' /\ Alloc!Next
    BY <1>1, CallStep DEF Malloc, Alloc!Next
  <1>2. ASSUME NEW run \in held, NEW bytes \in Sizes, Realloc(run, bytes) PROVE IInv' /\ Alloc!Next
    BY <1>2, CallStep DEF Realloc, Alloc!Next
  <1>3. ASSUME NEW run \in held, Free(run) PROVE IInv' /\ Alloc!Next
    BY <1>3, FreeStep DEF Alloc!Next
  <1>4. CASE Walk
    BY <1>4, WalkStep DEF Alloc!Next
  <1>5. CASE Merge
    BY <1>5, MergeStep
  <1>6. CASE TooShort
    BY <1>6, TooShortStep
  <1>7. CASE Take
    BY <1>7, TakeStep DEF Alloc!Next
  <1>8. CASE UNCHANGED vars
    <2>1. Structure'
      BY <1>8 DEF IInv, Structure, vars
    <2>2. Locals'
      BY <1>8 DEF IInv, Locals, Candidate, FreeChunks, is_reserved, length, vars
    <2>3. ListOf(head, chunks)' = ListOf(head, chunks) /\ \A V : Passed(V)' <=> Passed(V)
      BY <1>8 DEF Passed, is_reserved, length, vars
    <2>4. QED
      BY <1>8, <2>1, <2>2, <2>3 DEF IInv, Alloc!vars, vars
  <1>9. QED
    BY <1>1, <1>2, <1>3, <1>4, <1>5, <1>6, <1>7, <1>8 DEF Next

-----------------------------------------------------------------------------

(* The chunks tile the pool, the list has the free ones and only those,    *)
(* the reserved ones are what the program holds, at every turn of malloc's *)
(* loops (malloc.c:156-172).                                               *)
THEOREM HeapCorrect == Spec => []HeapConsistent
  <1>1. Init => IInv
    BY Started
  <1>2. IInv /\ [Next]_vars => IInv'
    BY Steps
  <1>3. IInv => HeapConsistent
    BY IInvImplies
  <1>4. QED
    BY <1>1, <1>2, <1>3, PTL DEF Spec

(* No block is handed out twice: the runs a program holds are disjoint     *)
(* (malloc.c:173-187).                                                     *)
THEOREM StorageDisjoint == Spec => []Alloc!HeldDisjoint
  <1>1. Init => IInv
    BY Started
  <1>2. IInv /\ [Next]_vars => IInv'
    BY Steps
  <1>3. ASSUME IInv PROVE Alloc!HeldDisjoint
    <2>1. SUFFICES ASSUME NEW run \in held, NEW other \in held, run # other
                   PROVE  Alloc!Extent(run) \cap Alloc!Extent(other) = {}
      BY DEF Alloc!HeldDisjoint
    <2>2. Sound(head, next, prev, chunks, held)
      BY <1>3, <2>1 DEF IInv, Structure
    <2>3. Separate(head, chunks, held, run) /\ Separate(head, chunks, held, other)
      BY <2>2, Apart
    <2>4. chunks \subseteq Places
      BY <2>2 DEF Sound, Shaped
    <2>5. run.at \in Nat /\ run.size \in Nat /\ other.at \in Nat /\ other.size \in Nat /\ run.at # other.at
      BY <2>1, <2>3, <2>4, PlacesAre DEF Separate
    <2>6. run.at \notin Alloc!Extent(other) /\ other.at \notin Alloc!Extent(run)
      BY <2>3, <2>5 DEF Separate
    <2>7. QED
      BY <2>5, <2>6, <2>3 DEF Alloc!Extent, Separate
  <1>4. QED
    BY <1>1, <1>2, <1>3, PTL DEF Spec

(* The heap implements the allocator, for every pool: malloc hands out what *)
(* is free, and gives up only when no run of free blocks is long enough,    *)
(* however the free chunks lie and in whatever order they are on the list   *)
(* (malloc.c:144-187).                                                      *)
THEOREM Implements == Spec => ImplementsAllocator
  <1>1. Init => IInv /\ Alloc!Init
    BY Started
  <1>2. IInv /\ [Next]_vars => IInv' /\ [Alloc!Next]_Alloc!vars
    BY Steps
  <1>3. QED
    BY <1>1, <1>2, PTL DEF Spec, ImplementsAllocator, Alloc!Spec

-----------------------------------------------------------------------------
(* The chunks that one who walks along f from the sentinel up to p has not *)
(* come past.                                                              *)
Ahead(S, f, p) ==
  {c \in S : \E U \in SUBSET S : sentinel \in U /\ (\A v \in U : v # p => f[v] \in U) /\ c \notin U}

\* The next chunk is ahead, and is not when it is the candidate.
LEMMA AheadLess ==
  ASSUME NEW S, sentinel \in S, NEW f, NEW g, Listing(S, f, g), NEW p \in S, f[p] # sentinel
  PROVE  Ahead(S, f, f[p]) \subseteq Ahead(S, f, p) \ {f[p]} /\ f[p] \in Ahead(S, f, p)
  <1> DEFINE x == f[p]
  <1>1. x \in S /\ \A v \in S : f[v] \in S /\ (f[v] = x => v = p)
    BY DEF Listing, Linking
  <1>2. x \in Ahead(S, f, p)
    <2>1. sentinel \in S \ {x} /\ \A v \in S \ {x} : v # p => f[v] \in S \ {x}
      BY <1>1
    <2>2. QED
      BY <1>1, <2>1 DEF Ahead
  <1>3. ASSUME NEW c \in Ahead(S, f, x)
        PROVE  c \in Ahead(S, f, p) /\ c # x
    <2>1. PICK U \in SUBSET S : sentinel \in U /\ (\A v \in U : v # x => f[v] \in U) /\ c \notin U
      BY <1>3 DEF Ahead
    <2>2. c \in S
      BY <1>3 DEF Ahead
    <2>3. sentinel \in U \ {x} /\ (\A v \in U \ {x} : v # p => f[v] \in U \ {x}) /\ c \notin U \ {x}
      BY <1>1, <2>1
    <2>4. c \in Ahead(S, f, p)
      BY <2>2, <2>3 DEF Ahead
    <2>5. ASSUME c = x
          PROVE  FALSE
      <3>1. \A v \in U : f[v] \in U
        BY <2>1, <2>5
      <3>2. U = S
        BY <2>1, <3>1 DEF Listing, OneCycle
      <3>3. QED
        BY <1>1, <2>1, <2>5, <3>2
    <2>6. QED
      BY <2>4, <2>5
  <1>4. QED
    BY <1>2, <1>3

(* What is left of a walk, and that a turn leaves less: chunks have left   *)
(* the list, or it is the same and less of it is ahead, or it is the same  *)
(* candidate, to walk on from.  All are sets of blocks of the pool, so     *)
(* that this cannot go on for ever.                                        *)
InList == ListOf(head, chunks)
Unseen == Ahead(InList, next, ptr)

Shrinks(S, T) == T \subseteq S /\ T # S

LessToWalk ==
  /\ InList' \subseteq Places /\ Unseen' \subseteq InList'
  /\ \/ Shrinks(InList, InList')
     \/ InList' = InList /\ Shrinks(Unseen, Unseen')
     \/ InList' = InList /\ Unseen' = Unseen /\ pc = "merge" /\ pc' = "walk"

LEMMA ListInPool ==
  ASSUME IInv, pc # "idle"
  PROVE  InList \subseteq Places /\ Unseen \subseteq InList
  <1>1. InList \subseteq Places
    BY InLoop, PlacesAre DEF InList, ListOf, FreeOf, Sound, Shaped
  <1>2. Unseen \subseteq InList
    BY DEF Unseen, Ahead
  <1>3. QED
    BY <1>1, <1>2

LEMMA WalkLessens ==
  ASSUME IInv, Walk, pc' # "idle"
  PROVE  LessToWalk
  <1>1. pc = "walk" /\ Sound(head, next, prev, chunks, held) /\ ptr \in InList
    BY InLoop DEF Walk, InList
  <1>2. ptr' = next[ptr] /\ next[ptr] # sentinel /\ UNCHANGED <<head, next, chunks>>
    BY DEF Walk, structure
  <1>3. sentinel \in InList /\ Listing(InList, next, prev)
    BY <1>1 DEF InList, ListOf, Sound
  <1>4. /\ Ahead(InList, next, next[ptr]) \subseteq Unseen \ {next[ptr]}
        /\ next[ptr] \in Unseen
    BY <1>1, <1>2, <1>3, AheadLess DEF Unseen
  <1>5. InList' = InList /\ Unseen' = Ahead(InList, next, next[ptr])
    BY <1>2 DEF InList, Unseen
  <1>6. InList \subseteq Places /\ Unseen \subseteq InList
    BY <1>1, ListInPool
  <1>7. Unseen' \subseteq InList' /\ Shrinks(Unseen, Unseen')
    BY <1>4, <1>5, <1>6 DEF Shrinks
  <1>8. QED
    BY <1>5, <1>6, <1>7 DEF LessToWalk

LEMMA MergeLessens ==
  ASSUME IInv, Merge
  PROVE  LessToWalk
  <1> USE DEF length, is_reserved
  <1>0. PICK k : k = ptr + len
    OBVIOUS
  <1>1. /\ pc = "merge" /\ Sound(head, next, prev, chunks, held)
        /\ ptr \in FreeOf(head, chunks) /\ len = head[ptr].length
    BY InLoop DEF Merge
  <1>2. /\ ~head[k].reserved /\ len' = len + head[k].length
        /\ next' = NextUnlinked(next, prev, k) /\ prev' = PrevUnlinked(next, prev, k)
        /\ head' = [head EXCEPT ![ptr] = Head(FALSE, len')]
        /\ chunks' = chunks \ {k} /\ pc' = pc
    BY <1>0 DEF Merge
  <1>3. k \in FreeOf(head, chunks) \ {ptr}
    BY <1>0, <1>1, <1>2, JoinSound
  <1>4. k \in InList /\ k # sentinel
    BY <1>3 DEF InList, ListOf, FreeOf
  <1>5. ptr \in Places /\ chunks \subseteq Places
    BY <1>1 DEF FreeOf, Sound, Shaped
  <1>6. \A d \in Places \ {ptr} : head'[d] = head[d]
    BY <1>1, <1>2, <1>5 DEF Sound, Typed
  <1>7. InList' \subseteq InList \ {k}
    BY <1>1, <1>2, <1>4, <1>5, <1>6 DEF InList, ListOf, FreeOf
  <1>8. InList \subseteq Places
    BY <1>1, ListInPool
  <1>9. InList' \subseteq Places /\ Shrinks(InList, InList')
    BY <1>4, <1>7, <1>8 DEF Shrinks
  <1>10. Unseen' \subseteq InList'
    BY DEF Unseen, Ahead
  <1>11. QED
    BY <1>9, <1>10 DEF LessToWalk

LEMMA TooShortLessens ==
  ASSUME IInv, TooShort
  PROVE  LessToWalk
  <1>1. pc = "merge" /\ pc' = "walk" /\ UNCHANGED <<head, next, chunks, ptr>>
    BY DEF TooShort, structure
  <1>2. InList' = InList /\ Unseen' = Unseen
    BY <1>1 DEF InList, Unseen
  <1>3. QED
    BY <1>1, <1>2, ListInPool DEF LessToWalk

(* malloc ends for every pool, although it changes the list that it walks: *)
(* each turn of its loops returns or leaves less to walk, in a well-founded *)
(* order (malloc.c:156-172).                                                *)
THEOREM LoopsEnd == Spec => [][pc # "idle" => pc' = "idle" \/ LessToWalk]_vars
  <1>1. Init => IInv
    BY Started
  <1>2. IInv /\ [Next]_vars => IInv'
    BY Steps
  <1>3. ASSUME IInv, [Next]_vars
        PROVE  [pc # "idle" => pc' = "idle" \/ LessToWalk]_vars
    <2>1. CASE Walk
      BY <1>3, <2>1, WalkLessens
    <2>2. CASE Merge
      BY <1>3, <2>2, MergeLessens
    <2>3. CASE TooShort
      BY <1>3, <2>3, TooShortLessens
    <2>4. CASE Take
      BY <2>4 DEF Take
    <2>5. ASSUME NEW bytes \in Sizes, Malloc(bytes)
          PROVE  pc = "idle"
      BY <2>5 DEF Malloc, Call
    <2>6. ASSUME NEW run \in held, NEW bytes \in Sizes, Realloc(run, bytes)
          PROVE  pc = "idle"
      BY <2>6 DEF Realloc, Call
    <2>7. ASSUME NEW run \in held, Free(run)
          PROVE  pc = "idle"
      BY <2>7 DEF Free
    <2>8. CASE UNCHANGED vars
      BY <2>8
    <2>9. QED
      BY <1>3, <2>1, <2>2, <2>3, <2>4, <2>5, <2>6, <2>7, <2>8 DEF Next
  <1>4. QED
    BY <1>1, <1>2, <1>3, PTL DEF Spec
=============================================================================
