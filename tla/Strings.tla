------------------------------ MODULE Strings -------------------------------
(***************************************************************************)
(* The byte and string functions of the kernel (string.c), of the library  *)
(* of the programs (libc/string.c) and the conversion of numbers in        *)
(* vksprintf and vsprintf, on a memory of a few cells in which arguments   *)
(* may overlap.  One call is made on any memory; `last' keeps it with its  *)
(* result.  Addresses are 1 .. Cells; a string ends at a cell with 0.      *)
(***************************************************************************)
EXTENDS Integers, Sequences, SequencesExt

CONSTANTS Cells,   \* bound: size of the memory
          Bytes,   \* bound: what a cell holds, with 0
          Half,    \* 2^31: an int is -Half .. Half - 1, a long of twice its bits
          Base     \* 10 for %d and %u, 16 for %x

StringsConstants == 0 \in Bytes /\ Bytes \subseteq Nat /\ Half \in Nat \ {0} /\ Base > 1

VARIABLES mem, last

stringVars == <<mem, last>>

Null == 0
None == [call |-> "none"]
At   == 1 .. Cells

Init == mem \in [At -> Bytes] /\ last = None

----------------------------------------------------------------------------
(* Bytes are copied one after the other, so a source that is written while *)
(* it is read gives what was written.                                      *)
CopyInOrder(m, d, s, order) ==
  FoldLeft(LAMBDA now, i : [now EXCEPT ![d + i] = now[s + i]], m, order)
Upward(n)   == [i \in 1 .. n |-> i - 1]
Downward(n) == [i \in 1 .. n |-> n - i]

\* rep movsb leaves its destination register after the last byte, and the kernel
\* returns that register.
memcpy(m, d, s, n)      == [mem |-> CopyInOrder(m, d, s, Upward(n)), result |-> d + n]
user_memcpy(m, d, s, n) == [mem |-> CopyInOrder(m, d, s, Upward(n)), result |-> d]
\* Mutated form of memmove: always from the first byte.
memmoveUp(m, d, s, n) == [mem |-> CopyInOrder(m, d, s, Upward(n)), result |-> d]
memmove(m, d, s, n) ==
  [mem |-> IF d = s THEN m ELSE CopyInOrder(m, d, s, IF d < s THEN Upward(n) ELSE Downward(n)),
   result |-> d]
memset(m, d, c, n) == [mem |-> [a \in At |-> IF a \in d .. d + n - 1 THEN c ELSE m[a]], result |-> d]

Ends(m, p)   == \E a \in p .. Cells : m[a] = 0
strlen(m, p) == (CHOOSE a \in p .. Cells : m[a] = 0 /\ \A b \in p .. a - 1 : m[b] # 0) - p

\* Where the loop of a comparison stops: at n, at the end of the first string or where they differ.
StopsAt(m, p, q, n) ==
  CHOOSE i \in 0 .. n :
    /\ i = n \/ m[p + i] = 0 \/ m[p + i] # m[q + i]
    /\ \A j \in 0 .. i - 1 : m[p + j] # 0 /\ m[p + j] = m[q + j]
strcmp(m, p, q) == LET i == StopsAt(m, p, q, Cells) IN m[p + i] - m[q + i]
strncmp(m, p, q, n) == LET i == StopsAt(m, p, q, n) IN IF i = n THEN 0 ELSE m[p + i] - m[q + i]
memcmp(m, p, q, n) ==
  IF \A i \in 0 .. n - 1 : m[p + i] = m[q + i] THEN 0
  ELSE LET i == CHOOSE i \in 0 .. n - 1 :
                  m[p + i] # m[q + i] /\ \A j \in 0 .. i - 1 : m[p + j] = m[q + j]
       IN m[p + i] - m[q + i]

\* What strncpy and the copies of the library read and write, one byte after the other.
strncpy(m, d, s, n) ==
  [mem |-> FoldLeft(LAMBDA now, i : IF i < now.k /\ now.mem[s + i] # 0
                                    THEN [now EXCEPT !.mem[d + i] = now.mem[s + i]]
                                    ELSE [mem |-> [now.mem EXCEPT ![d + i] = 0], k |-> 0],
                    [mem |-> m, k |-> n], Upward(n)).mem,
   result |-> d]
strcpy(m, d, s) == [mem |-> CopyInOrder(m, d, s, Upward(strlen(m, s) + 1)), result |-> d]
strcat(m, d, s) == [mem |-> strcpy(m, d + strlen(m, d), s).mem, result |-> d]

\* The kernel's strchr tests for the character before the end, the library's after it, so
\* that both find the terminator.
Places(m, p, c) == {a \in p .. p + strlen(m, p) : m[a] = c}
strchr(m, p, c)  == IF Places(m, p, c) = {} THEN Null
                    ELSE CHOOSE a \in Places(m, p, c) : \A b \in Places(m, p, c) : a <= b
strrchr(m, p, c) == IF Places(m, p, c) = {} THEN Null
                    ELSE CHOOSE a \in Places(m, p, c) : \A b \in Places(m, p, c) : b <= a

\* For each start the longest common run, until the needle is used up; the empty rest of the
\* haystack is no start.
Run(m, h, n) == CHOOSE i \in 0 .. strlen(m, n) :
  /\ i = strlen(m, n) \/ m[h + i] = 0 \/ m[h + i] # m[n + i]
  /\ \A j \in 0 .. i - 1 : m[h + j] # 0 /\ m[h + j] = m[n + j]
strstr(m, h, n) ==
  LET starts == {a \in h .. h + strlen(m, h) - 1 : Run(m, a, n) = strlen(m, n)} IN
  IF m[n] = 0 THEN h ELSE IF starts = {} THEN Null
  ELSE CHOOSE a \in starts : \A b \in starts : a <= b

----------------------------------------------------------------------------
(* The conversions.  An argument that is an int is widened to 64 bits with *)
(* its sign, for %u too; one that is a long is taken as it is.             *)
Wide == 4 * Half * Half                     \* 2^64
Unsigned(v) == v % Wide
digits[v \in Nat] == IF v < Base THEN <<v>> ELSE Append(digits[v \div Base], v % Base)
Padded(s, width) == [i \in 1 .. (IF width > Len(s) THEN width - Len(s) ELSE 0) |-> 0] \o s

\* vksprintf: the sign comes before the padding, which does not count it.
Convert(kind, pad, v) ==
  IF kind = "d" /\ v < 0
  THEN [sign |-> TRUE,  text |-> Padded(digits[-v], pad)]
  ELSE [sign |-> FALSE, text |-> Padded(digits[IF kind = "x" THEN v % (2 * Half) ELSE Unsigned(v)], pad)]
\* vsprintf of the library is the same code.
UserConvert(kind, pad, v) == Convert(kind, pad, v)

----------------------------------------------------------------------------
(* One call.  A caller gives ranges inside the memory and strings that end.*)
Fits(p, n) == p + n - 1 <= Cells
Copies == {"memcpy", "user_memcpy", "memmove", "strncpy"}
CallCopy(f, d, s, n) ==
  /\ last = None /\ Fits(d, n) /\ Fits(s, n)
  /\ LET r == CASE f = "memcpy" -> memcpy(mem, d, s, n)
                [] f = "user_memcpy" -> user_memcpy(mem, d, s, n)
                [] f = "memmove" -> memmove(mem, d, s, n)
                [] f = "strncpy" -> strncpy(mem, d, s, n)
     IN mem' = r.mem /\ last' = [call |-> f, was |-> mem, d |-> d, s |-> s, n |-> n, r |-> r.result]

CallSet(d, c, n) ==
  /\ last = None /\ Fits(d, n)
  /\ mem' = memset(mem, d, c, n).mem
  /\ last' = [call |-> "memset", was |-> mem, d |-> d, c |-> c, n |-> n]

\* strcpy and strcat need room for the result, apart from the source.
CallJoin(f, d, s) ==
  /\ last = None /\ Ends(mem, s) /\ (f = "strcat" => Ends(mem, d))
  /\ LET from == IF f = "strcat" THEN d + strlen(mem, d) ELSE d IN
     /\ Fits(from, strlen(mem, s) + 1)
     /\ from + strlen(mem, s) < s \/ s + strlen(mem, s) < d
  /\ mem' = (IF f = "strcat" THEN strcat(mem, d, s) ELSE strcpy(mem, d, s)).mem
  /\ last' = [call |-> f, was |-> mem, d |-> d, s |-> s]

CallCompare(p, q, n) ==
  /\ last = None /\ Ends(mem, p) /\ Ends(mem, q) /\ Fits(p, n) /\ Fits(q, n)
  /\ last' = [call |-> "compare", p |-> p, q |-> q, n |-> n, cmp |-> strcmp(mem, p, q),
              ncmp |-> strncmp(mem, p, q, n), bytes |-> memcmp(mem, p, q, n)]
  /\ UNCHANGED mem

CallSearch(p, q, c) ==
  /\ last = None /\ Ends(mem, p) /\ Ends(mem, q)
  /\ last' = [call |-> "search", p |-> p, q |-> q, c |-> c, first |-> strchr(mem, p, c),
              final |-> strrchr(mem, p, c), found |-> strstr(mem, p, q)]
  /\ UNCHANGED mem

\* The memory plays no part.
CallConvert(kind, pad, v) ==
  /\ last = None /\ \A a \in At : mem[a] = 0
  /\ last' = [call |-> "convert", kind |-> kind, pad |-> pad, v |-> v,
              out |-> Convert(kind, pad, v), user |-> UserConvert(kind, pad, v)]
  /\ UNCHANGED mem

\* One call, from any memory.
Returned == last # None /\ UNCHANGED stringVars

Next ==
  \/ Returned
  \/ \E f \in Copies, d \in At, s \in At, n \in 0 .. Cells : CallCopy(f, d, s, n)
  \/ \E d \in At, c \in Bytes, n \in 0 .. Cells : CallSet(d, c, n)
  \/ \E f \in {"strcpy", "strcat"}, d \in At, s \in At : CallJoin(f, d, s)
  \/ \E p \in At, q \in At, n \in 0 .. Cells : CallCompare(p, q, n)
  \/ \E p \in At, q \in At, c \in Bytes : CallSearch(p, q, c)
  \/ \E k \in {"d", "u", "x"}, pad \in 0 .. 3, v \in -Half .. Half - 1 : CallConvert(k, pad, v)

Spec == Init /\ [][Next]_stringVars

----------------------------------------------------------------------------
TypeOK == mem \in [At -> Bytes]

\* Text(m, p) is the string at p as a sequence.
Text(m, p) == SubSeq(m, p, p + strlen(m, p) - 1)
Before(s, t) == \E i \in 1 .. Len(t) :
  /\ \A j \in 1 .. i - 1 : j <= Len(s) /\ s[j] = t[j]
  /\ i > Len(s) \/ s[i] < t[i]
\* The relation of two sequences, as the sign of a difference.
Order(s, t) == IF s = t THEN 0 ELSE IF Before(s, t) THEN -1 ELSE 1
Sign(i) == IF i = 0 THEN 0 ELSE IF i < 0 THEN -1 ELSE 1

\* memmove moves what was there before whatever overlaps; the others do when nothing does;
\* nothing outside the destination changes (string.c:6-41).
MovesTrue == last.call \in Copies \cup {"memset"} =>
  LET apart == last.d + last.n <= last.s \/ last.s + last.n <= last.d
      end == {i \in 0 .. last.n - 1 : last.was[last.s + i] = 0} IN
  \A a \in At :
    IF a \notin last.d .. last.d + last.n - 1 THEN mem[a] = last.was[a]
    ELSE LET i == a - last.d IN
      CASE last.call = "memset" -> mem[a] = last.c
        [] last.call = "strncpy" ->
             apart => mem[a] = (IF \E j \in end : j <= i THEN 0 ELSE last.was[last.s + i])
        [] OTHER -> (apart \/ last.call = "memmove") => mem[a] = last.was[last.s + i]

\* A copied or joined string is the text of its parts (libc/string.c:32-45).
JoinsTrue == last.call \in {"strcpy", "strcat"} =>
  Text(mem, last.d) = (IF last.call = "strcat" THEN Text(last.was, last.d) ELSE <<>>)
                      \o Text(last.was, last.s)

\* The comparisons order strings as sequences, and agree with one another (string.c:57-74,
\* libc/string.c:19-30).
ComparesTrue == last.call = "compare" =>
  LET p == Text(mem, last.p) q == Text(mem, last.q)
      Cut(s) == SubSeq(s, 1, IF Len(s) < last.n THEN Len(s) ELSE last.n) IN
  /\ Sign(last.cmp) = Order(p, q)
  /\ Sign(last.ncmp) = Order(Cut(p), Cut(q))
  /\ Sign(last.bytes) = Order(SubSeq(mem, last.p, last.p + last.n - 1),
                              SubSeq(mem, last.q, last.q + last.n - 1))

\* A search finds the first or the last place there is, and the terminator counts as one
\* (string.c:85-102, libc/string.c:47-91).
SearchesTrue == last.call = "search" =>
  LET p == Text(mem, last.p) q == Text(mem, last.q)
      Holds(i) == Append(p, 0)[i] = last.c
      Has(i) == i + Len(q) - 1 <= Len(p) /\ SubSeq(p, i, i + Len(q) - 1) = q
      Least(P(_)) == IF \E i \in 1 .. Len(p) + 1 : P(i)
                     THEN last.p - 1 + CHOOSE i \in 1 .. Len(p) + 1 :
                            P(i) /\ \A j \in 1 .. i - 1 : ~P(j)
                     ELSE Null IN
  /\ last.first = Least(Holds)
  /\ last.final # Null =>
       /\ Holds(last.final - last.p + 1)
       /\ \A i \in last.final - last.p + 2 .. Len(p) + 1 : ~Holds(i)
  /\ (last.final = Null) = (last.first = Null)
  /\ last.found = (IF q = <<>> THEN last.p ELSE Least(Has))

\* A printed number reads back as the argument and is as wide as asked: %d always, %x as the 32
\* bits, %u for an int that is not negative (string.c:207-277, kyroolib.h:117-186).
NumbersTrue == last.call = "convert" =>
  LET s == last.out.text
      value == FoldLeft(LAMBDA n, d : n * Base + d, 0, s) IN
  /\ last.out = last.user
  /\ Len(s) >= last.pad
  /\ Len(s) > last.pad => s = <<0>> \/ s[1] # 0
  /\ CASE last.kind = "d" -> (IF last.out.sign THEN -value ELSE value) = last.v
       [] last.kind = "x" -> value = last.v % (2 * Half)
       [] OTHER -> last.v >= 0 => value = last.v

StringsTrue == MovesTrue /\ JoinsTrue /\ ComparesTrue /\ SearchesTrue /\ NumbersTrue
=============================================================================
