------------------------------- MODULE Strings -------------------------------
(***************************************************************************)
(* The functions on memory and on strings of the run-time library          *)
(* (runtime/src/string.c).  The memory m is a function from addresses to   *)
(* unsigned characters; a function that writes gives the memory it leaves. *)
(* strtok keeps a pointer between its calls.                               *)
(***************************************************************************)
EXTENDS Integers, Sequences, FiniteSets

CONSTANT UCHAR_MAX

ASSUME CharAssumption == UCHAR_MAX \in Nat \ {0}

VARIABLES
  strings,   \* what a program has called these functions with
  memory,    \* the memory in which it calls strtok
  last,      \* the pointer of strtok
  answer,    \* what strtok has returned
  scan,      \* history: the call of strtok that began with a new text
  tokens     \* history: the tokens since then

Char == 0 .. UCHAR_MAX

null == -1

(* The loops.  One that goes on to a character of C, *)
Scan(m, s, C) == CHOOSE r \in DOMAIN m : r >= s /\ m[r] \in C /\ \A q \in s .. r - 1 : m[q] \notin C

(* the same for at most n characters, *)
Within(m, s, n, C) ==
  CHOOSE i \in 0 .. n : (i = n \/ m[s + i] \in C) /\ \A k \in 0 .. i - 1 : m[s + k] \notin C

(* and one that compares at most n characters, until they differ or are in C. *)
Differs(m, s1, s2, n, C) ==
  CHOOSE i \in 0 .. n :
    /\ i = n \/ m[s1 + i] # m[s2 + i] \/ m[s1 + i] \in C
    /\ \A k \in 0 .. i - 1 : m[s1 + k] = m[s2 + k] /\ m[s1 + k] \notin C

Size(m) == Cardinality(DOMAIN m)

memcpy(m, s1, s2, n) ==
  LET up[i \in 0 .. n] == IF i = 0 THEN m ELSE [up[i - 1] EXCEPT ![s1 + i - 1] = up[i - 1][s2 + i - 1]]
  IN  up[n]

CopyDown(m, s1, s2, n) ==
  LET down[i \in 0 .. n] == IF i = 0 THEN m ELSE [down[i - 1] EXCEPT ![s1 + n - i] = down[i - 1][s2 + n - i]]
  IN  down[n]

memmove(m, s1, s2, n) == IF s1 <= s2 THEN memcpy(m, s1, s2, n) ELSE CopyDown(m, s1, s2, n)

memset(m, s, c, n) == [r \in DOMAIN m |-> IF r \in s .. s + n - 1 THEN c ELSE m[r]]

strlen(m, s) == Scan(m, s, {0}) - s

strcpy(m, s1, s2) == memcpy(m, s1, s2, strlen(m, s2) + 1)

strncpy(m, s1, s2, n) ==
  LET k == Within(m, s2, n, {0}) IN memset(memcpy(m, s1, s2, k), s1 + k, 0, n - k)

strcat(m, s1, s2) == strcpy(m, s1 + strlen(m, s1), s2)

strncat(m, s1, s2, n) ==
  LET end == s1 + strlen(m, s1)
      k   == Within(m, s2, n, {0})
  IN  [memcpy(m, end, s2, k) EXCEPT ![end + k] = 0]

memcmp(m, s1, s2, n) ==
  LET i == Differs(m, s1, s2, n, {}) IN IF i = n THEN 0 ELSE m[s1 + i] - m[s2 + i]

strncmp(m, s1, s2, n) ==
  LET i == Differs(m, s1, s2, n, {0}) IN IF i = n THEN 0 ELSE m[s1 + i] - m[s2 + i]

strcmp(m, s1, s2) ==
  LET i == Differs(m, s1, s2, Size(m), {0}) IN m[s1 + i] - m[s2 + i]

(* The length it would need, and the copy if that was less than n. *)
strxfrm(m, s1, s2, n) ==
  LET k == strlen(m, s2)
  IN  [size |-> k, m |-> IF k < n THEN memcpy(m, s1, s2, k + 1) ELSE m]

memchr(m, s, c, n) == LET i == Within(m, s, n, {c}) IN IF i = n THEN null ELSE s + i

strchr(m, s, c) == LET r == Scan(m, s, {c, 0}) IN IF m[r] = c THEN r ELSE null

(* The loop goes on behind an occurrence, up to the zero. *)
strrchr(m, s, c) ==
  LET n == strlen(m, s) + 1
      found[i \in 0 .. n] == IF i = 0 THEN null ELSE IF m[s + i - 1] = c THEN s + i - 1 ELSE found[i - 1]
  IN  found[n]

(* The inner loop of the next four: c is a character of s2, or its zero. *)
Belongs(m, c, s2) == m[Scan(m, s2, {c, 0})] = c

Members(m, s2) == {c \in Char : Belongs(m, c, s2)}

strcspn(m, s1, s2) == Scan(m, s1, Members(m, s2)) - s1

strpbrk(m, s1, s2) ==
  LET r == Scan(m, s1, {0} \cup Members(m, s2)) IN IF m[r] = 0 THEN null ELSE r

strspn(m, s1, s2) == Scan(m, s1, {0} \cup (Char \ Members(m, s2))) - s1

(* Whether the string s2 is at s. *)
Here(m, s, s2) == m[s2 + Differs(m, s2, s, Size(m), {0})] = 0

strstr(m, s1, s2) ==
  LET r == CHOOSE r \in DOMAIN m :
             /\ r >= s1
             /\ Here(m, r, s2) \/ m[r] = 0
             /\ \A q \in s1 .. r - 1 : ~Here(m, q, s2) /\ m[q] # 0
  IN  IF Here(m, r, s2) THEN r ELSE null

(* Fault: the pointer is left at the zero that ended the token. *)
strtokAtEnd(m, place, s1, s2) ==
  LET s     == IF s1 = null THEN place ELSE s1
      start == s + strspn(m, s, s2)
      end   == start + 1 + strcspn(m, start + 1, s2)
  IN  CASE s = null -> [m |-> m, last |-> place, token |-> null]
        [] s # null /\ m[start] = 0 -> [m |-> m, last |-> null, token |-> null]
        [] OTHER -> [m |-> [m EXCEPT ![end] = 0], last |-> end, token |-> start]

(* strtok: the token, and the pointer behind it for the next call. *)
strtok(m, place, s1, s2) ==
  LET s     == IF s1 = null THEN place ELSE s1
      start == s + strspn(m, s, s2)
      end   == start + 1 + strcspn(m, start + 1, s2)
  IN  CASE s = null -> [m |-> m, last |-> place, token |-> null]
        [] s # null /\ m[start] = 0 -> [m |-> m, last |-> null, token |-> null]
        [] OTHER -> [m |-> [m EXCEPT ![end] = 0],
                     last |-> IF m[end] = 0 THEN null ELSE end + 1,
                     token |-> start]
-----------------------------------------------------------------------------
(* What a program may call them with.                                      *)

Memory == UNION {[0 .. size - 1 -> Char] : size \in Nat}
CStrings == Seq(1 .. UCHAR_MAX)

\* A block of n characters, and a string, at s.
InMemory(m, s, n) == s \in Nat /\ s + n <= Size(m)

Holds(m, s, text) ==
  /\ InMemory(m, s, Len(text) + 1)
  /\ \A i \in 1 .. Len(text) : m[s + i - 1] = text[i]
  /\ m[s + Len(text)] = 0

Apart(s1, n1, s2, n2) == s1 + n1 <= s2 \/ s2 + n2 <= s1

NoStrings == [kind |-> "none"]
NoScan == <<>>

StringsInit ==
  /\ strings = NoStrings
  /\ memory = <<>> /\ last = null /\ answer = null
  /\ scan = NoScan /\ tokens = <<>>

tokenVars == <<memory, last, answer, scan, tokens>>
stringVars == <<strings, tokenVars>>

CallBlocks(m, s1, s2, n, c) ==
  /\ strings = NoStrings
  /\ InMemory(m, s1, n) /\ InMemory(m, s2, n)
  /\ strings' = [kind |-> "blocks", m |-> m, s1 |-> s1, s2 |-> s2, n |-> n, c |-> c]
  /\ UNCHANGED tokenVars

CallTexts(m, s1, s2, t1, t2, n, c) ==
  /\ strings = NoStrings
  /\ Holds(m, s1, t1) /\ Holds(m, s2, t2)
  /\ strings' = [kind |-> "texts", m |-> m, s1 |-> s1, s2 |-> s2, t1 |-> t1, t2 |-> t2, n |-> n, c |-> c]
  /\ UNCHANGED tokenVars

StringsReturn ==
  /\ strings # NoStrings
  /\ strings' = NoStrings
  /\ UNCHANGED tokenVars

Answered(r) ==
  /\ memory' = r.m /\ last' = r.last /\ answer' = r.token
  /\ UNCHANGED strings

FirstToken(m, s1, s2, t1, t2) ==
  /\ scan = NoScan
  /\ Holds(m, s1, t1) /\ Holds(m, s2, t2) /\ Apart(s1, Len(t1) + 1, s2, Len(t2) + 1)
  /\ scan' = [m |-> m, s1 |-> s1, s2 |-> s2, t1 |-> t1, t2 |-> t2]
  /\ Answered(strtok(m, last, s1, s2))
  /\ tokens' = IF answer' = null THEN <<>> ELSE <<answer'>>

NextToken ==
  /\ scan # NoScan
  /\ Answered(strtok(memory, last, null, scan.s2))
  /\ tokens' = IF answer' = null THEN tokens ELSE Append(tokens, answer')
  /\ UNCHANGED scan

(* The program does with the text what it likes. *)
TextDone ==
  /\ scan # NoScan
  /\ scan' = NoScan /\ memory' = <<>> /\ tokens' = <<>>
  /\ answer' = null
  /\ UNCHANGED <<strings, last>>

StringsNext ==
  \/ \E m \in Memory, s1, s2, n \in Nat, c \in Char : CallBlocks(m, s1, s2, n, c)
  \/ \E m \in Memory, s1, s2, n \in Nat, t1, t2 \in CStrings, c \in Char : CallTexts(m, s1, s2, t1, t2, n, c)
  \/ StringsReturn
  \/ \E m \in Memory, s1, s2 \in Nat, t1, t2 \in CStrings : FirstToken(m, s1, s2, t1, t2)
  \/ NextToken
  \/ TextDone

StringsSpec == StringsInit /\ [][StringsNext]_stringVars
-----------------------------------------------------------------------------
(* m and q agree except for the characters from s on, which are those of text. *)
Written(m, q, s, text) ==
  q = [r \in DOMAIN m |-> IF r \in s .. s + Len(text) - 1 THEN text[r - s + 1] ELSE m[r]]

Prefix(text, n) == SubSeq(text, 1, IF n < Len(text) THEN n ELSE Len(text))

Block(m, s, n) == [i \in 1 .. n |-> m[s + i - 1]]

Zeros(n) == [i \in 1 .. n |-> 0]

CopiesExact(m, s1, s2, t1, t2, n) ==
  /\ Written(m, strcpy(m, s1, s2), s1, Append(t2, 0))
  /\ Written(m, strncpy(m, s1, s2, n), s1, Prefix(t2 \o Zeros(n), n))
  /\ Written(m, strcat(m, s1, s2), s1, Append(t1 \o t2, 0))
  /\ Written(m, strncat(m, s1, s2, n), s1, Append(t1 \o Prefix(t2, n), 0))
  /\ Written(m, strxfrm(m, s1, s2, n).m, s1, IF Len(t2) < n THEN Append(t2, 0) ELSE <<>>)

Signum(x) == CASE x < 0 -> -1 [] x = 0 -> 0 [] OTHER -> 1

(* The order of the dictionary: u has less where v differs, or ends there. *)
Precedes(u, v) ==
  \E k \in 1 .. Len(v) :
    /\ \A j \in 1 .. k - 1 : j <= Len(u) /\ u[j] = v[j]
    /\ k <= Len(u) => u[k] < v[k]

Order(u, v) == CASE u = v -> 0 [] Precedes(u, v) -> -1 [] OTHER -> 1

ComparisonsExact(m, s1, s2, t1, t2, n) ==
  /\ Signum(strcmp(m, s1, s2)) = Order(t1, t2)
  /\ Signum(strncmp(m, s1, s2, n)) = Order(Prefix(t1, n), Prefix(t2, n))

(* Where the characters of C are in a text, and the first or last of them. *)
Places(text, C) == {i \in DOMAIN text : text[i] \in C}

Lowest(S, none) == IF S = {} THEN none ELSE CHOOSE i \in S : \A j \in S : i <= j
Highest(S, none) == IF S = {} THEN none ELSE CHOOSE i \in S : \A j \in S : i >= j

CharsOf(text) == {text[i] : i \in DOMAIN text}

Pointer(s, i) == IF i = null THEN null ELSE s + i - 1

SearchesExact(m, s1, s2, t1, t2, c) ==
  LET u == Append(t1, 0)
      C == CharsOf(t2)
      finds == {i \in 1 .. Len(u) : i + Len(t2) <= Len(u) /\ SubSeq(t1, i, i + Len(t2) - 1) = t2}
  IN  /\ strlen(m, s1) = Len(t1)
      /\ strchr(m, s1, c) = Pointer(s1, Lowest(Places(u, {c}), null))
      /\ strrchr(m, s1, c) = Pointer(s1, Highest(Places(u, {c}), null))
      /\ strcspn(m, s1, s2) = Lowest(Places(u, C \cup {0}), null) - 1
      /\ strpbrk(m, s1, s2) = Pointer(s1, Lowest(Places(t1, C), null))
      /\ strspn(m, s1, s2) = Lowest(Places(u, Char \ C), null) - 1
      /\ strstr(m, s1, s2) = Pointer(s1, Lowest(finds, null))

(* Memory that is moved arrives as it was, however the two blocks overlap. *)
BlocksExact(m, s1, s2, n, c) ==
  /\ Written(m, memmove(m, s1, s2, n), s1, Block(m, s2, n))
  /\ Apart(s1, n, s2, n) => Written(m, memcpy(m, s1, s2, n), s1, Block(m, s2, n))
  /\ Signum(memcmp(m, s1, s2, n)) = Order(Block(m, s1, n), Block(m, s2, n))
  /\ memchr(m, s1, c, n) = Pointer(s1, Lowest(Places(Block(m, s1, n), {c}), null))

(* The tokens of a text: characters that are in C on neither side, or the  *)
(* ends of the text.                                                       *)
Runs(text, C) ==
  {r \in (DOMAIN text) \X (DOMAIN text) :
     /\ \A i \in r[1] .. r[2] : text[i] \notin C
     /\ r[1] <= r[2]
     /\ r[1] = 1 \/ text[r[1] - 1] \in C
     /\ r[2] = Len(text) \/ text[r[2] + 1] \in C}

TokensExact ==
  scan # NoScan =>
    LET C == CharsOf(scan.t2)
        runs == Runs(scan.t1, C)
        At(r) == scan.s1 + r[1] - 1
        Given(r, n) == \E k \in 1 .. n : tokens[k] = At(r)
    IN  /\ \A k \in DOMAIN tokens : \E r \in runs :
             /\ tokens[k] = At(r)
             /\ Holds(memory, tokens[k], SubSeq(scan.t1, r[1], r[2]))
             /\ \A q \in runs : Given(q, k - 1) <=> q[1] < r[1]
        /\ answer = null => \A r \in runs : Given(r, Len(tokens))
        /\ DOMAIN memory = DOMAIN scan.m
        /\ \A p \in DOMAIN memory : memory[p] # scan.m[p] =>
             memory[p] = 0 /\ p - scan.s1 + 1 \in Places(scan.t1, C)

(* The functions on memory and strings write what they should, only there, *)
(* and find what is first or last, at every length and overlap; the calls  *)
(* of strtok give the tokens in turn, each a string of its own, and then   *)
(* none (string.c:23-340).                                                 *)
StringsExact ==
  /\ strings.kind = "blocks" => BlocksExact(strings.m, strings.s1, strings.s2, strings.n, strings.c)
  /\ strings.kind = "texts" =>
       LET s == strings
           room == IF Len(s.t1) + Len(s.t2) + 1 > s.n THEN Len(s.t1) + Len(s.t2) + 1 ELSE s.n
       IN  /\ ComparisonsExact(s.m, s.s1, s.s2, s.t1, s.t2, s.n)
           /\ SearchesExact(s.m, s.s1, s.s2, s.t1, s.t2, s.c)
           /\ strxfrm(s.m, s.s1, s.s2, s.n).size = Len(s.t2)
           /\ InMemory(s.m, s.s1, room) /\ Apart(s.s1, room, s.s2, Len(s.t2) + 1) =>
                CopiesExact(s.m, s.s1, s.s2, s.t1, s.t2, s.n)
  /\ TokensExact
=============================================================================
