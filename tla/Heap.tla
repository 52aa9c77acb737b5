-------------------------------- MODULE Heap --------------------------------
(***************************************************************************)
(* The heap of the run-time library (runtime/src/malloc.c).  The pool is an *)
(* array of blocks; a chunk is a run of blocks whose first one starts with  *)
(* a head: its length in blocks and whether it is reserved.  Chunks that    *)
(* are not reserved are on a doubly linked list, whose links are in the     *)
(* words a reserved chunk gives to the program.  free only puts its chunk   *)
(* on the list; malloc joins neighbouring chunks while it walks the list    *)
(* for the first one that is long enough.  The block behind the pool is the *)
(* sentinel of the list, and a reserved successor of the last chunk.        *)
(*                                                                          *)
(* A call of malloc is a step for each turn of its two loops.               *)
(***************************************************************************)
EXTENDS Integers

CONSTANTS
  NrOfBlocks,   \* nr_of_blocks, 16384 in the source
  SIZE_MAX,     \* the largest size_t, 2^32 - 1 in the source
  Sizes,        \* the sizes in bytes a program asks for
  User,         \* what is in a word the program may have written to
  Null          \* the null pointer

ASSUME NrOfBlocksAssumption == NrOfBlocks \in Nat \ {0}
VARIABLES
  ready,      \* sentinel # 0: init has run
  head,       \* of each block, the first word of MBlock_
  next, prev, \* of each block, u.link
  pc, ptr,    \* where malloc is, and its local variable
  len,        \* its local variable
  chunks,     \* history: the blocks at which a chunk begins, and the sentinel
  held,       \* the runs the program holds: what it asked for and was given
  request     \* the call under way

structure == <<ready, head, next, prev, chunks>>
vars == <<ready, head, next, prev, pc, ptr, len, chunks, held, request>>

Alloc == INSTANCE Allocator

sentinel == NrOfBlocks

Places == 0 .. NrOfBlocks

Heads == [reserved : BOOLEAN, length : 0 .. NrOfBlocks]

ASSUME UserAssumption == User # Null /\ User \notin Places \cup Heads /\ Null \notin Places

BlockBytes == 16   \* sizeof(MBlock_)
WordBytes == 4     \* sizeof(word_type)

(* What malloc adds to a size before it divides. *)
Overhead == WordBytes + BlockBytes - 1

(* malloc has "no guard against excessive values of `bytes'": for the last *)
(* 19 of them the sum wraps, malloc takes a chunk of no blocks, or of one, *)
(* and the list is lost.  So a program is assumed not to ask for these.    *)
(* What calloc asks for is its product, which must not have wrapped.       *)
ASSUME SizesAssumption ==
  /\ SIZE_MAX \in Nat
  /\ Sizes \subseteq Nat
  /\ \A bytes \in Sizes : bytes + Overhead <= SIZE_MAX

(* The blocks for a number of bytes and the head word, in size_t. *)
BlocksFor(bytes) == ((bytes + Overhead) % (SIZE_MAX + 1)) \div BlockBytes

length(b) == head[b].length
is_reserved(b) == head[b].reserved
Head(res, n) == [reserved |-> res, length |-> n]

(* b is put behind a: the links of a list f (next) and g (prev).           *)
(* The neighbour that a has now may be a itself.                           *)
NextInserted(f, a, b) == [f EXCEPT ![b] = f[a], ![a] = b]
PrevInserted(f, g, a, b) == [[g EXCEPT ![f[a]] = b] EXCEPT ![b] = a]

(* Fault: the chunk behind the one taken out keeps it as its predecessor. *)
PrevNotUnlinked(f, g, a) == g

NextUnlinked(f, g, a) == [f EXCEPT ![g[a]] = f[a]]
PrevUnlinked(f, g, a) == [g EXCEPT ![f[a]] = g[a]]

Init ==
  /\ ready = FALSE
  /\ head = [b \in Places |-> Head(FALSE, 0)]
  /\ next = [b \in Places |-> Null]
  /\ prev = [b \in Places |-> Null]
  /\ pc = "idle"
  /\ ptr = Null
  /\ len = 0
  /\ chunks = {}
  /\ held = {}
  /\ request = Alloc!NoRequest

(* init: the pool is one chunk, alone on the list. *)
InitPool ==
  /\ ready' = TRUE
  /\ head' = [head EXCEPT ![sentinel] = Head(TRUE, 0), ![0] = Head(FALSE, NrOfBlocks)]
  /\ next' = [next EXCEPT ![sentinel] = 0, ![0] = sentinel]
  /\ prev' = [prev EXCEPT ![sentinel] = 0, ![0] = sentinel]
  /\ chunks' = {0, sentinel}

(* malloc, up to its loop; realloc calls it for a new run in place of old. *)
Call(bytes, old) ==
  /\ pc = "idle"
  /\ IF ready THEN UNCHANGED structure ELSE InitPool
  /\ request' = [size |-> BlocksFor(bytes), old |-> old]
  /\ ptr' = sentinel
  /\ pc' = "walk"
  /\ UNCHANGED <<len, held>>

Malloc(bytes) == Call(bytes, Alloc!None)

(* A size of zero is free's business. *)
Realloc(run, bytes) == bytes # 0 /\ Call(bytes, run)

(* The step to the next chunk of the list; at its end the call fails. *)
Walk ==
  /\ pc = "walk"
  /\ ptr' = next[ptr]
  /\ IF ptr' = sentinel
     THEN /\ pc' = "idle"
          /\ request' = Alloc!NoRequest
          /\ UNCHANGED len
     ELSE /\ pc' = "merge"
          /\ len' = length(ptr')
          /\ UNCHANGED request
  /\ UNCHANGED <<structure, held>>

(* The candidate takes in its successor, which leaves the list. *)
Merge ==
  LET successor == ptr + len
  IN  /\ pc = "merge"
      /\ ~is_reserved(successor)
      /\ len' = len + length(successor)
      /\ next' = NextUnlinked(next, prev, successor)
      /\ prev' = PrevUnlinked(next, prev, successor)
      /\ head' = [head EXCEPT ![ptr] = Head(FALSE, len')]
      /\ chunks' = chunks \ {successor}
      /\ UNCHANGED <<ready, pc, ptr, held, request>>

(* Fault: the walk goes on from a candidate that is too short so far. *)
TooShortUnjoined ==
  /\ pc = "merge"
  /\ len < request.size
  /\ pc' = "walk"
  /\ UNCHANGED <<structure, ptr, len, held, request>>

(* Fault: the walk starts again behind a candidate that took something in. *)
TooShortAgain ==
  /\ pc = "merge"
  /\ is_reserved(ptr + len)
  /\ len < request.size
  /\ pc' = "walk"
  /\ ptr' = sentinel
  /\ UNCHANGED <<structure, len, held, request>>

(* Nothing more to take in, and still too short: on to the next one. *)
TooShort ==
  /\ pc = "merge"
  /\ is_reserved(ptr + len)
  /\ len < request.size
  /\ pc' = "walk"
  /\ UNCHANGED <<structure, ptr, len, held, request>>

(* What is too much becomes a chunk of its own at the front of the list.   *)
Split(blocks) ==
  LET new_block == ptr + blocks
  IN  IF len > blocks
      THEN [head |-> [head EXCEPT ![new_block] = Head(FALSE, len - blocks)],
            next |-> NextInserted(next, sentinel, new_block),
            prev |-> PrevInserted(next, prev, sentinel, new_block),
            new  |-> {new_block}]
      ELSE [head |-> head, next |-> next, prev |-> prev, new |-> {}]

(* A chunk goes back to the list: free behind its test of the pointer.     *)
FreedHead(h, b) == [h EXCEPT ![b] = Head(FALSE, h[b].length)]

(* The candidate is split, reserved and taken off the list; its blocks are *)
(* the program's from here on.  realloc then copies and frees the old run. *)
Take ==
  LET blocks == request.size
      old    == request.old
      s      == Split(blocks)
      run    == [at |-> ptr, size |-> blocks]
      inside == ptr + 1 .. ptr + blocks - 1
      h      == [b \in Places |-> IF b = ptr THEN Head(TRUE, blocks)
                                  ELSE IF b \in inside THEN User ELSE s.head[b]]
      n1     == NextUnlinked(s.next, s.prev, ptr)
      p1     == PrevUnlinked(s.next, s.prev, ptr)
      n      == [b \in Places |-> IF b \in inside \cup {ptr} THEN User ELSE n1[b]]
      p      == [b \in Places |-> IF b \in inside \cup {ptr} THEN User ELSE p1[b]]
  IN  /\ pc = "merge"
      /\ is_reserved(ptr + len)
      /\ len >= blocks
      /\ IF old = Alloc!None
         THEN head' = h /\ next' = n /\ prev' = p
         ELSE /\ head' = FreedHead(h, old.at)
              /\ next' = NextInserted(n, sentinel, old.at)
              /\ prev' = PrevInserted(n, p, sentinel, old.at)
      /\ chunks' = chunks \cup s.new
      /\ held' = (held \ {old}) \cup {run}
      /\ pc' = "idle"
      /\ request' = Alloc!NoRequest
      /\ UNCHANGED <<ready, ptr, len>>

Free(run) ==
  /\ pc = "idle"
  /\ head' = FreedHead(head, run.at)
  /\ next' = NextInserted(next, sentinel, run.at)
  /\ prev' = PrevInserted(next, prev, sentinel, run.at)
  /\ held' = held \ {run}
  /\ UNCHANGED <<ready, pc, ptr, len, chunks, request>>

Next ==
  \/ \E bytes \in Sizes : Malloc(bytes)
  \/ \E run \in held, bytes \in Sizes : Realloc(run, bytes)
  \/ \E run \in held : Free(run)
  \/ Walk
  \/ Merge
  \/ TooShort
  \/ Take

Spec == Init /\ [][Next]_vars /\ WF_vars(Walk \/ Merge \/ TooShort \/ Take)

-----------------------------------------------------------------------------

(* The chunks on the list. *)
FreeChunks == {c \in chunks : c # sentinel /\ ~is_reserved(c)}

TypeOK ==
  /\ ready \in BOOLEAN
  /\ head \in [Places -> Heads \cup {User}]
  /\ next \in [Places -> Places \cup {User, Null}]
  /\ prev \in [Places -> Places \cup {User, Null}]
  /\ pc \in {"idle", "walk", "merge"}
  /\ ptr \in Places \cup {Null}
  /\ len \in 0 .. NrOfBlocks
  /\ chunks \subseteq Places
  /\ Alloc!TypeOK

(* The chunks lie one behind the other from the start of the pool to the   *)
(* sentinel: no block is in two chunks or in none.                         *)
Tiled ==
  ready =>
    /\ {0, sentinel} \subseteq chunks
    /\ head[sentinel] = Head(TRUE, 0)
    /\ \A c \in chunks \ {sentinel} :
         /\ head[c] \in Heads
         /\ length(c) > 0
         /\ c + length(c) \in chunks
         /\ \A d \in chunks : d <= c \/ d >= c + length(c)

(* The links f and g lead from S to S, and each back from the other.       *)
Linking(S, f, g) ==
  \A c \in S : f[c] \in S /\ g[c] \in S /\ g[f[c]] = c /\ f[g[c]] = c

(* The chunks that are not reserved, and only they, are on the list.       *)
Linked == ready => Linking(FreeChunks \cup {sentinel}, next, prev)

(* The reserved chunks are what the program holds, in the length it asked  *)
(* for, and the heap has not written to the words it handed out.           *)
HeldIsReserved ==
  /\ \A run \in held :
       /\ ready /\ run.at \in chunks /\ head[run.at] = Head(TRUE, run.size)
       /\ next[run.at] = User /\ prev[run.at] = User
       /\ \A b \in run.at + 1 .. run.at + run.size - 1 :
            head[b] = User /\ next[b] = User /\ prev[b] = User
  /\ \A c \in chunks \ {sentinel} :
       is_reserved(c) => [at |-> c, size |-> length(c)] \in held

(* malloc's local variables: the candidate is on the list and as long as   *)
(* it says.                                                                *)
Candidate ==
  /\ pc # "idle" => ready /\ request # Alloc!NoRequest /\ ptr \in FreeChunks \cup {sentinel}
  /\ pc = "merge" => ptr # sentinel /\ len = length(ptr)
  /\ pc = "idle" <=> request = Alloc!NoRequest
  /\ request.old = Alloc!None \/ request.old \in held

(* The parts of the heap agree with each other in every step of a walk     *)
(* that changes the list under itself (malloc.c:156-172).                  *)
HeapConsistent == TypeOK /\ Tiled /\ Linked /\ HeldIsReserved /\ Candidate

(* The heap is an allocator: what malloc hands out is free, and it gives   *)
(* up only when no run is long enough, although free joins nothing         *)
(* (malloc.c:144-187).                                                     *)
ImplementsAllocator == Alloc!Spec

(* Every call returns: joining chunks does not keep the walk from getting  *)
(* round to the sentinel (malloc.c:158).                                   *)
CallReturns == (pc # "idle") ~> (pc = "idle")

=============================================================================
