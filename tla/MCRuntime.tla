------------------------------ MODULE MCRuntime ------------------------------
(***************************************************************************)
(* The run-time library for TLC: the life of a program, the streams, and   *)
(* the functions on numbers, arrays and strings.  They share nothing, so   *)
(* that each behaviour is of one part of it.                               *)
(***************************************************************************)
EXTENDS Startup, Stdio, Numbers, Qsort, Strings

VARIABLE part   \* which of them

\* Values for Digit: texts of four digits and letters.
Values == [c \in {"0", "1", "7", "x"} |->
             CASE c = "0" -> 0 [] c = "1" -> 1 [] c = "7" -> 7 [] OTHER -> 33]

Words(C, n) == UNION {[1 .. k -> C] : k \in 0 .. n}

StreamsIdle ==
  /\ hosted = FALSE /\ files = <<>> /\ errno = "none" /\ result = "ok"
  /\ open = {} /\ held = <<>> /\ lost = {}

MCInit ==
  /\ StartupInit
  /\ NumbersInit
  /\ QsortInit
  /\ StringsInit
  /\ \/ part \in {"life", "numbers", "sort", "strings"} /\ StreamsIdle
     \/ part = "streams" /\ StreamsInit

MCNumbersNext ==
  \/ /\ number = NoNumber
     /\ \E spaces \in {<<>>, <<"space">>}, sign \in {<<>>, <<"+">>, <<"-">>},
          text \in Words(DOMAIN Digit, 5) \cup {<<"1", "other">>}, base \in {0, 2, 8, 10, 16, 36} :
          Convert(spaces, sign, text, base)
  \/ Returned

(* The arrays: three keys, and two in the longest. *)
Arrays == UNION {[0 .. n - 1 -> 1 .. 3] : n \in 0 .. 7} \cup [0 .. 8 -> 1 .. 2]

MCQsortNext == (\E b \in Arrays : Qsort(b, Cardinality(DOMAIN b))) \/ Turn

(* Two strings with other characters around them. *)
Placed(t1, t2) ==
  [r \in 0 .. 12 |->
     CASE r \in 1 .. Len(t1) -> t1[r]
       [] r \in 9 .. 8 + Len(t2) -> t2[r - 8]
       [] r \in {1 + Len(t1), 9 + Len(t2)} -> 0
       [] OTHER -> 9]

(* The calls begin where strtok has been left without a pointer. *)
MCCalls ==
  /\ scan = NoScan /\ last = null
  /\ \/ \E s1, s2, n \in 0 .. 5, c \in {0, 3} : CallBlocks([r \in 0 .. 9 |-> r], s1, s2, n, c)
     \/ \E s1, s2 \in {0, 3}, n \in 0 .. 3, m \in [0 .. 5 -> 0 .. 1] : CallBlocks(m, s1, s2, n, 1)
     \/ \E t1, t2 \in Words({1, 2}, 3), n \in 0 .. 5, c \in 0 .. 2 :
          CallTexts(Placed(t1, t2), 1, 9, t1, t2, n, c)

MCStringsNext ==
  \/ MCCalls
  \/ StringsReturn
  \/ /\ strings = NoStrings
     /\ \/ \E t1 \in Words({1, 2, 3}, 5), t2 \in Words({1, 2}, 2) : FirstToken(Placed(t1, t2), 1, 9, t1, t2)
        \/ NextToken
        \/ TextDone

MCNext ==
  \/ part = "life" /\ StartupNext /\ UNCHANGED <<part, streamVars, number, sortVars, stringVars>>
  \/ part = "streams" /\ StreamsNext /\ UNCHANGED <<part, startupVars, number, sortVars, stringVars>>
  \/ part = "numbers" /\ MCNumbersNext /\ UNCHANGED <<part, startupVars, streamVars, sortVars, stringVars>>
  \/ part = "sort" /\ MCQsortNext /\ UNCHANGED <<part, startupVars, streamVars, number, stringVars>>
  \/ part = "strings" /\ MCStringsNext /\ UNCHANGED <<part, startupVars, streamVars, number, sortVars>>

(* Only the program's life ends of itself. *)
MCVars == <<startupVars, part, streamVars, number, sortVars, stringVars>>

MCSpec ==
  /\ MCInit
  /\ [][MCNext]_MCVars
  /\ WF_MCVars(part = "life" /\ Progress /\ UNCHANGED <<part, streamVars, number, sortVars, stringVars>>)
=============================================================================
