----------------------------- MODULE ListFacts -----------------------------
(***************************************************************************)
(* What the lists and rings of the kernel do, whatever is in them.  A       *)
(* linked list: an item is put at the head, searched from the head, and    *)
(* unlinked where it is found first.  A ring: an item is put behind the    *)
(* last one and taken from the front, the places counted modulo its size.  *)
(***************************************************************************)
EXTENDS Naturals, Sequences, SequencesExt, TLAPS, SequenceTheorems, WellFoundedInduction

(* A search of a list that finds something returns the place of one. *)
LEMMA SearchLemma ==
  ASSUME NEW n \in Nat, NEW I \in SUBSET (1 .. n), I # {}
  PROVE  Min(I) \in I
<1> DEFINE less == OpToRel(<, Nat)
<1>1. IsWellFoundedOn(less, Nat)
  BY NatLessThanWellFounded
<1>2. PICK p \in I : \A q \in I : <<q, p>> \notin less
  <2>1. I \subseteq Nat
    OBVIOUS
  <2> HIDE DEF less
  <2> QED BY <1>1, <2>1, WFMin
<1>3. ASSUME NEW q \in I PROVE p <= q
  <2>1. <<q, p>> \in Nat \X Nat
    OBVIOUS
  <2>2. <<q, p>> \notin {ss \in Nat \X Nat : ss[1] < ss[2]}
    BY <1>2 DEF OpToRel
  <2> QED BY <2>1, <2>2
<1> QED BY <1>3 DEF Min

(* A new head moves every other item up by one place. *)
LEMMA ConsItems ==
  ASSUME NEW S, NEW q \in Seq(S), NEW e \in S
  PROVE  LET r == <<e>> \o q IN
         /\ r \in Seq(S) /\ Len(q) \in Nat /\ Len(r) = Len(q) + 1
         /\ r[1] = e
         /\ \A i \in 2 .. Len(r) : r[i] = q[i - 1]
         /\ \A i \in 1 .. Len(q) : r[i + 1] = q[i]
<1> DEFINE r == <<e>> \o q
<1>1. /\ Len(q) \in Nat /\ <<e>> \in Seq(S) /\ Len(<<e>>) = 1 /\ <<e>>[1] = e
  BY LenProperties
<1>2. /\ r \in Seq(S) /\ Len(r) = 1 + Len(q)
      /\ \A i \in 1 .. 1 + Len(q) : r[i] = IF i <= 1 THEN <<e>>[i] ELSE q[i - 1]
  BY <1>1, ConcatProperties
<1> HIDE DEF r
<1>3. r[1] = e /\ \A i \in 2 .. Len(r) : r[i] = q[i - 1]
  BY <1>1, <1>2
<1>4. \A i \in 1 .. Len(q) : i + 1 \in 2 .. Len(r) /\ (i + 1) - 1 = i
  BY <1>1, <1>2
<1> QED BY <1>1, <1>2, <1>3, <1>4 DEF r

(* Unlinking an item moves those behind it down by one place. *)
LEMMA RemoveFirstItems ==
  ASSUME NEW S, NEW q \in Seq(S), NEW e, Contains(q, e)
  PROVE  LET r == RemoveFirst(q, e) IN
         /\ r \in Seq(S) /\ Len(q) \in Nat /\ Len(r) = Len(q) - 1
         /\ \E k \in 1 .. Len(q) :
              /\ q[k] = e
              /\ \A i \in 1 .. Len(r) : r[i] = q[IF i < k THEN i ELSE i + 1]
<1> DEFINE r == RemoveFirst(q, e)
           n == Len(q)
           I == {i \in 1 .. n : q[i] = e}
           k == Min(I)
<1>1. n \in Nat /\ \A i \in 1 .. n : q[i] \in S
  BY LenProperties, ElementOfSeq
<1>2. I # {} /\ r = SubSeq(q, 1, k - 1) \o SubSeq(q, k + 1, n)
  BY DEF Contains, RemoveFirst, RemoveAt, SelectInSeq
<1>3. k \in 1 .. n /\ q[k] = e
  <2>1. k \in I
    <3> HIDE DEF I
    <3>1. I \in SUBSET (1 .. n)
      BY DEF I
    <3> QED BY <1>1, <1>2, <3>1, SearchLemma
  <2> QED BY <2>1
<1> HIDE DEF r, n, k, I
<1> DEFINE a == SubSeq(q, 1, k - 1)
           b == SubSeq(q, k + 1, n)
<1>4. /\ a \in Seq(S) /\ Len(a) = k - 1
      /\ \A i \in 1 .. k - 1 : a[i] = q[i]
  <2>1. 1 \in Int /\ k - 1 \in Int /\ \A i \in 1 .. k - 1 : q[i] \in S
    BY <1>1, <1>3
  <2>2. /\ SubSeq(q, 1, k - 1) \in Seq(S)
        /\ Len(SubSeq(q, 1, k - 1)) = IF 1 <= k - 1 THEN k - 1 - 1 + 1 ELSE 0
        /\ \A i \in 1 .. k - 1 - 1 + 1 : SubSeq(q, 1, k - 1)[i] = q[1 + i - 1]
    BY <2>1, SubSeqProperties
  <2> QED BY <1>1, <1>3, <2>2
<1>5. /\ b \in Seq(S) /\ Len(b) = n - k
      /\ \A i \in 1 .. n - k : b[i] = q[k + i]
  <2>1. k + 1 \in Int /\ n \in Int /\ \A i \in k + 1 .. n : q[i] \in S
    BY <1>1, <1>3
  <2>2. /\ SubSeq(q, k + 1, n) \in Seq(S)
        /\ Len(SubSeq(q, k + 1, n)) = IF k + 1 <= n THEN n - (k + 1) + 1 ELSE 0
        /\ \A i \in 1 .. n - (k + 1) + 1 : SubSeq(q, k + 1, n)[i] = q[(k + 1) + i - 1]
    BY <2>1, SubSeqProperties
  <2> QED BY <1>1, <1>3, <2>2
<1> HIDE DEF a, b
<1>6. /\ a \o b \in Seq(S) /\ Len(a \o b) = Len(a) + Len(b)
      /\ \A i \in 1 .. Len(a) + Len(b) :
           (a \o b)[i] = IF i <= Len(a) THEN a[i] ELSE b[i - Len(a)]
  BY <1>4, <1>5, ConcatProperties
<1>7. r = a \o b
  BY <1>2 DEF a, b
<1>8. Len(r) = n - 1
  BY <1>1, <1>3, <1>4, <1>5, <1>6, <1>7
<1>9. ASSUME NEW i \in 1 .. n - 1 PROVE r[i] = q[IF i < k THEN i ELSE i + 1]
  <2>1. CASE i < k
    BY <1>1, <1>3, <1>4, <1>5, <1>6, <1>7, <2>1
  <2>2. CASE ~(i < k)
    <3>1. i - (k - 1) \in 1 .. n - k /\ k + (i - (k - 1)) = i + 1
      BY <1>1, <1>3, <2>2
    <3>2. r[i] = b[i - (k - 1)]
      <4>1. i \in 1 .. Len(a) + Len(b) /\ ~(i <= Len(a)) /\ Len(a) = k - 1
        BY <1>1, <1>3, <1>4, <1>5, <2>2
      <4> QED BY <1>6, <1>7, <4>1
    <3> QED BY <1>5, <2>2, <3>1, <3>2
  <2> QED BY <2>1, <2>2
<1> QED BY <1>1, <1>3, <1>6, <1>7, <1>8, <1>9 DEF r, n

(* An item that is put at the head is in the list, with all that were there. *)
LEMMA ConsMembers ==
  ASSUME NEW S, NEW q \in Seq(S), NEW e \in S, NEW u
  PROVE  Contains(<<e>> \o q, u) <=> Contains(q, u) \/ u = e
<1> DEFINE r == <<e>> \o q
<1>1. /\ Len(q) \in Nat /\ Len(r) = Len(q) + 1 /\ r[1] = e
      /\ \A i \in 2 .. Len(r) : r[i] = q[i - 1]
      /\ \A i \in 1 .. Len(q) : r[i + 1] = q[i]
  BY ConsItems
<1> HIDE DEF r
<1>2. ASSUME NEW i \in 1 .. Len(q), q[i] = u PROVE \E j \in 1 .. Len(r) : r[j] = u
  <2>1. i + 1 \in 1 .. Len(r) /\ r[i + 1] = u
    BY <1>1, <1>2
  <2> QED BY <2>1
<1>3. ASSUME NEW j \in 1 .. Len(r), r[j] = u, u # e PROVE \E i \in 1 .. Len(q) : q[i] = u
  <2>1. j - 1 \in 1 .. Len(q) /\ q[j - 1] = u
    BY <1>1, <1>3
  <2> QED BY <2>1
<1>4. ASSUME u = e PROVE \E j \in 1 .. Len(r) : r[j] = u
  <2>1. 1 \in 1 .. Len(r)
    BY <1>1
  <2> QED BY <1>1, <1>4, <2>1
<1> QED BY <1>2, <1>3, <1>4 DEF Contains, r

(* Unlinking an item leaves all others in the list. *)
LEMMA RemoveFirstMembers ==
  ASSUME NEW S, NEW q \in Seq(S), NEW e, Contains(q, e), NEW u, u # e
  PROVE  Contains(RemoveFirst(q, e), u) <=> Contains(q, u)
<1> DEFINE r == RemoveFirst(q, e)
           n == Len(q)
<1>1. /\ n \in Nat /\ Len(r) = n - 1
      /\ \E k \in 1 .. n :
           /\ q[k] = e
           /\ \A i \in 1 .. Len(r) : r[i] = q[IF i < k THEN i ELSE i + 1]
  BY RemoveFirstItems
<1>2. PICK k \in 1 .. n : /\ q[k] = e
                          /\ \A i \in 1 .. Len(r) : r[i] = q[IF i < k THEN i ELSE i + 1]
  BY <1>1
<1> HIDE DEF r, n
<1>3. ASSUME NEW i \in 1 .. Len(r), r[i] = u PROVE \E j \in 1 .. n : q[j] = u
  <2>1. (IF i < k THEN i ELSE i + 1) \in 1 .. n
    BY <1>1, <1>2
  <2> QED BY <1>2, <1>3, <2>1
<1>4. ASSUME NEW j \in 1 .. n, q[j] = u PROVE \E i \in 1 .. Len(r) : r[i] = u
  <2>1. j # k
    BY <1>2, <1>4
  <2>2. CASE j < k
    <3>1. j \in 1 .. Len(r)
      BY <1>1, <1>2, <2>2
    <3> QED BY <1>2, <1>4, <2>2, <3>1
  <2>3. CASE k < j
    <3>1. j - 1 \in 1 .. Len(r) /\ ~(j - 1 < k) /\ (j - 1) + 1 = j
      BY <1>1, <1>2, <2>3
    <3>2. r[j - 1] = u
      BY <1>2, <1>4, <3>1
    <3> QED BY <3>1, <3>2
  <2> QED BY <1>1, <2>1, <2>2, <2>3
<1> QED BY <1>3, <1>4 DEF Contains, r, n

(* A list without repetitions has none after an item is unlinked, which is gone. *)
LEMMA RemoveFirstOnce ==
  ASSUME NEW S, NEW q \in Seq(S), NEW e, Contains(q, e),
         \A i, j \in 1 .. Len(q) : q[i] = q[j] => i = j
  PROVE  LET r == RemoveFirst(q, e) IN
         /\ ~Contains(r, e)
         /\ \A i, j \in 1 .. Len(r) : r[i] = r[j] => i = j
<1> DEFINE r == RemoveFirst(q, e)
           n == Len(q)
<1>1. /\ n \in Nat /\ Len(r) = n - 1
      /\ \E k \in 1 .. n :
           /\ q[k] = e
           /\ \A i \in 1 .. Len(r) : r[i] = q[IF i < k THEN i ELSE i + 1]
  BY RemoveFirstItems
<1>2. PICK k \in 1 .. n : /\ q[k] = e
                          /\ \A i \in 1 .. Len(r) : r[i] = q[IF i < k THEN i ELSE i + 1]
  BY <1>1
<1> HIDE DEF r
<1>3. /\ \A i \in 1 .. Len(r) : /\ (IF i < k THEN i ELSE i + 1) \in 1 .. n
                                /\ (IF i < k THEN i ELSE i + 1) # k
      /\ \A i, j \in 1 .. Len(r) :
           (IF i < k THEN i ELSE i + 1) = (IF j < k THEN j ELSE j + 1) => i = j
  BY <1>1, <1>2
<1>4. \A i \in 1 .. Len(r) : r[i] # e
  BY <1>2, <1>3
<1>5. \A i, j \in 1 .. Len(r) : r[i] = r[j] => i = j
  BY <1>2, <1>3
<1> QED BY <1>4, <1>5 DEF Contains, r

(* A new head repeats nothing that was not in the list. *)
LEMMA ConsOnce ==
  ASSUME NEW S, NEW q \in Seq(S), NEW e \in S, IsInjective(q), ~Contains(q, e)
  PROVE  IsInjective(<<e>> \o q)
<1> DEFINE r == <<e>> \o q
<1>1. /\ r \in Seq(S) /\ Len(q) \in Nat /\ Len(r) = Len(q) + 1 /\ r[1] = e
      /\ \A i \in 2 .. Len(r) : r[i] = q[i - 1]
  BY ConsItems
<1>2. DOMAIN r = 1 .. Len(r) /\ DOMAIN q = 1 .. Len(q)
  BY <1>1, LenProperties
<1> HIDE DEF r
<1>3. \A i \in 2 .. Len(r) : i - 1 \in 1 .. Len(q) /\ r[i] # e
  <2>1. \A i \in 1 .. Len(q) : q[i] # e
    BY DEF Contains
  <2> QED BY <1>1, <2>1
<1>4. ASSUME NEW i \in 1 .. Len(r), NEW j \in 1 .. Len(r), r[i] = r[j] PROVE i = j
  <2>1. CASE i = 1 \/ j = 1
    BY <1>1, <1>3, <1>4, <2>1
  <2>2. CASE i \in 2 .. Len(r) /\ j \in 2 .. Len(r)
    <3>1. i - 1 = j - 1
      BY <1>1, <1>2, <1>3, <1>4, <2>2 DEF IsInjective
    <3> QED BY <1>1, <2>2, <3>1
  <2> QED BY <1>1, <2>1, <2>2
<1> QED BY <1>2, <1>4 DEF IsInjective, r

(* Taking the head off a list without repetitions takes nothing else off. *)
LEMMA TailMembers ==
  ASSUME NEW S, NEW q \in Seq(S), q # <<>>, IsInjective(q)
  PROVE  /\ Head(q) \in S /\ Contains(q, Head(q))
         /\ Tail(q) \in Seq(S) /\ IsInjective(Tail(q))
         /\ \A u : Contains(Tail(q), u) <=> Contains(q, u) /\ u # Head(q)
<1> DEFINE r == Tail(q)
<1>1. /\ Len(q) \in Nat \ {0} /\ DOMAIN q = 1 .. Len(q)
      /\ Head(q) \in S /\ Head(q) = q[1]
  BY LenProperties, HeadTailProperties, EmptySeq
<1>2. r \in Seq(S) /\ Len(r) = Len(q) - 1 /\ \A i \in 1 .. Len(r) : r[i] = q[i + 1]
  BY HeadTailProperties
<1>3. DOMAIN r = 1 .. Len(r)
  BY <1>2, LenProperties
<1> HIDE DEF r
<1>4. \A i, j \in 1 .. Len(q) : q[i] = q[j] => i = j
  BY <1>1 DEF IsInjective
<1>5. \A i \in 1 .. Len(r) : i + 1 \in 1 .. Len(q)
  BY <1>1, <1>2
<1>6. IsInjective(r)
  <2>1. ASSUME NEW i \in 1 .. Len(r), NEW j \in 1 .. Len(r), r[i] = r[j] PROVE i = j
    <3>1. i + 1 = j + 1
      BY <1>2, <1>4, <1>5, <2>1
    <3> QED BY <3>1
  <2> QED BY <1>3, <2>1 DEF IsInjective
<1>7. Contains(q, q[1])
  BY <1>1 DEF Contains
<1>8. ASSUME NEW u PROVE Contains(r, u) <=> Contains(q, u) /\ u # q[1]
  <2>1. ASSUME NEW i \in 1 .. Len(r), r[i] = u PROVE Contains(q, u) /\ u # q[1]
    <3>1. i + 1 \in 1 .. Len(q) /\ q[i + 1] = u /\ 1 \in 1 .. Len(q) /\ i + 1 # 1
      BY <1>1, <1>2, <1>5, <2>1
    <3> QED BY <1>4, <3>1 DEF Contains
  <2>2. ASSUME NEW j \in 1 .. Len(q), q[j] = u, u # q[1] PROVE \E i \in 1 .. Len(r) : r[i] = u
    <3>1. j - 1 \in 1 .. Len(r) /\ (j - 1) + 1 = j
      BY <1>1, <1>2, <2>2
    <3> QED BY <1>2, <2>2, <3>1
  <2> QED BY <2>1, <2>2 DEF Contains
<1> QED BY <1>1, <1>2, <1>6, <1>7, <1>8 DEF r

----------------------------------------------------------------------------
(* The n items of a ring of N slots whose first item is in slot h. *)
RingItems(N, b, h, n) == [i \in 1 .. n |-> b[(h + i - 1) % N]]

(* Reduction modulo the size of a ring, for the sums of two indexes. *)
LEMMA WrapLemma ==
  ASSUME NEW N \in Nat \ {0}, NEW a \in Nat, a < 2 * N
  PROVE  /\ a % N = IF a < N THEN a ELSE a - N
         /\ a % N \in 0 .. N - 1
  OBVIOUS

(* The slot after slot i, without the remainder operator. *)
LEMMA AfterLemma ==
  ASSUME NEW N \in Nat \ {0}, NEW i \in 0 .. N - 1
  PROVE  /\ (i + 1) % N = IF i + 1 = N THEN 0 ELSE i + 1
         /\ (i + 1) % N \in 0 .. N - 1
<1>1. CASE i + 1 < N
  BY <1>1
<1>2. CASE i + 1 = N
  BY <1>2
<1> QED BY <1>1, <1>2

(* The slot k places after slot h. *)
LEMMA PlaceLemma ==
  ASSUME NEW N \in Nat \ {0}, NEW h \in 0 .. N - 1, NEW k \in 0 .. N
  PROVE  /\ (h + k) % N = IF h + k < N THEN h + k ELSE h + k - N
         /\ (h + k) % N \in 0 .. N - 1
<1> DEFINE a == h + k
<1>1. a \in Nat /\ a < 2 * N
  OBVIOUS
<1> HIDE DEF a
<1>2. a % N = (IF a < N THEN a ELSE a - N) /\ a % N \in 0 .. N - 1
  BY <1>1, WrapLemma
<1> QED BY <1>2 DEF a

(* The items of a ring are a list of their number. *)
LEMMA RingLen ==
  ASSUME NEW N, NEW b, NEW h, NEW n \in Nat
  PROVE  Len(RingItems(N, b, h, n)) = n
  BY DEF RingItems

(* They are values the slots hold. *)
LEMMA RingLemma ==
  ASSUME NEW N \in Nat \ {0}, NEW S, NEW h \in 0 .. N - 1, NEW n \in 0 .. N,
         NEW b, \A i \in 0 .. N - 1 : b[i] \in S
  PROVE  RingItems(N, b, h, n) \in Seq(S)
<1>1. ASSUME NEW i \in 1 .. n
      PROVE  (h + i - 1) % N \in 0 .. N - 1
  <2>1. i - 1 \in 0 .. N /\ h + (i - 1) = h + i - 1
    OBVIOUS
  <2> QED BY <2>1, PlaceLemma
<1>2. RingItems(N, b, h, n) \in [1 .. n -> S]
  BY <1>1 DEF RingItems
<1> QED BY <1>2

(* The slot of the i-th item, without the remainder. *)
LEMMA RingAt ==
  ASSUME NEW N \in Nat \ {0}, NEW b, NEW h \in 0 .. N - 1, NEW n \in 0 .. N, NEW i \in 1 .. n
  PROVE  RingItems(N, b, h, n)[i] = b[IF h + i - 1 < N THEN h + i - 1 ELSE h + i - 1 - N]
<1>1. i - 1 \in 0 .. N /\ h + (i - 1) = h + i - 1
  OBVIOUS
<1>2. (h + i - 1) % N = IF h + i - 1 < N THEN h + i - 1 ELSE h + i - 1 - N
  BY <1>1, PlaceLemma
<1> QED BY <1>2 DEF RingItems

(* Writing the slot after the last item appends to the items of the ring. *)
LEMMA RingPut ==
  ASSUME NEW N \in Nat \ {0}, NEW h \in 0 .. N - 1, NEW n \in 0 .. N - 1, NEW b, NEW c,
         \A i \in 0 .. N - 1 : i # (h + n) % N => c[i] = b[i]
  PROVE  RingItems(N, c, h, n + 1) = Append(RingItems(N, b, h, n), c[(h + n) % N])
<1> DEFINE t == (h + n) % N
           x == c[t]
           S == {b[i] : i \in 0 .. N - 1} \cup {c[i] : i \in 0 .. N - 1}
<1>0. N \in Nat \ {0} /\ n \in Nat /\ n \in 0 .. N /\ n + 1 \in 0 .. N
  OBVIOUS
<1>1. t = (IF h + n < N THEN h + n ELSE h + n - N) /\ t \in 0 .. N - 1
  BY <1>0, PlaceLemma
<1>2. /\ \A i \in 0 .. N - 1 : b[i] \in S /\ c[i] \in S
      /\ x \in S
  BY <1>1
<1>x. \A j \in 0 .. N - 1 : j # t => c[j] = b[j]
  OBVIOUS
<1>y. c[t] = x
  OBVIOUS
<1> HIDE DEF x, t, S
<1>3. /\ RingItems(N, c, h, n + 1) \in Seq(S) /\ Len(RingItems(N, c, h, n + 1)) = n + 1
      /\ RingItems(N, b, h, n) \in Seq(S) /\ Len(RingItems(N, b, h, n)) = n
  <2>1. RingItems(N, c, h, n + 1) \in Seq(S)
    BY <1>0, <1>2, RingLemma, Zenon
  <2>2. RingItems(N, b, h, n) \in Seq(S)
    BY <1>0, <1>2, RingLemma, Zenon
  <2> QED BY <1>0, <2>1, <2>2, RingLen
<1>4. ASSUME NEW i \in 1 .. n + 1
      PROVE  RingItems(N, c, h, n + 1)[i] = IF i <= n THEN RingItems(N, b, h, n)[i] ELSE x
  <2> DEFINE p == IF h + i - 1 < N THEN h + i - 1 ELSE h + i - 1 - N
  <2>1. p \in 0 .. N - 1 /\ (i <= n => p # t) /\ (i > n => p = t)
    BY <1>0, <1>1
  <2>2. RingItems(N, c, h, n + 1)[i] = c[p]
    BY <1>0, RingAt
  <2>3. ASSUME i <= n PROVE RingItems(N, b, h, n)[i] = b[p]
    <3>1. i \in 1 .. n
      BY <1>0, <2>3
    <3> QED BY <1>0, <3>1, RingAt
  <2> HIDE DEF p
  <2> QED BY <1>0, <1>x, <1>y, <2>1, <2>2, <2>3
<1>5. /\ Append(RingItems(N, b, h, n), x) \in Seq(S)
      /\ Len(Append(RingItems(N, b, h, n), x)) = n + 1
      /\ \A i \in 1 .. n + 1 : Append(RingItems(N, b, h, n), x)[i] =
           IF i <= n THEN RingItems(N, b, h, n)[i] ELSE x
  BY <1>0, <1>2, <1>3, AppendProperties
<1>6. RingItems(N, c, h, n + 1) = Append(RingItems(N, b, h, n), x)
  BY <1>0, <1>3, <1>4, <1>5, SeqEqual
<1> QED BY <1>6 DEF x, t

(* Moving the head one slot on drops the first item of the ring. *)
LEMMA RingTake ==
  ASSUME NEW N \in Nat \ {0}, NEW b, NEW h \in 0 .. N - 1, NEW n \in 1 .. N
  PROVE  /\ RingItems(N, b, h, n) # <<>>
         /\ Head(RingItems(N, b, h, n)) = b[h]
         /\ Tail(RingItems(N, b, h, n)) = RingItems(N, b, (h + 1) % N, n - 1)
<1> DEFINE r == RingItems(N, b, h, n)
           q == RingItems(N, b, (h + 1) % N, n - 1)
           k == (h + 1) % N
           S == {b[i] : i \in 0 .. N - 1}
<1>0. N \in Nat \ {0} /\ n \in Nat /\ n \in 0 .. N /\ n - 1 \in 0 .. N
  OBVIOUS
<1>1. k = (IF h + 1 = N THEN 0 ELSE h + 1) /\ k \in 0 .. N - 1
  BY AfterLemma
<1>x. \A i \in 0 .. N - 1 : b[i] \in S
  OBVIOUS
<1> HIDE DEF S
<1>2. r \in Seq(S) /\ Len(r) = n
  <2>1. /\ N \in Nat \ {0} /\ n \in 0 .. N /\ h \in 0 .. N - 1
        /\ (\A i \in 0 .. N - 1 : b[i] \in S)
    BY <1>0, <1>x
  <2>2. r \in Seq(S)
    BY <2>1, RingLemma, Zenon
  <2> QED BY <1>0, <2>2, RingLen
<1>3. q \in Seq(S) /\ Len(q) = n - 1
  <2>1. /\ N \in Nat \ {0} /\ n - 1 \in 0 .. N
        /\ (\A i \in 0 .. N - 1 : b[i] \in S) /\ (h + 1) % N \in 0 .. N - 1
    BY <1>0, <1>1, <1>x
  <2>2. q \in Seq(S)
    BY <2>1, RingLemma, Zenon
  <2> QED BY <1>0, <2>2, RingLen
<1>a. ASSUME NEW i \in 1 .. n
      PROVE  r[i] = b[IF h + i - 1 < N THEN h + i - 1 ELSE h + i - 1 - N]
  BY <1>0, RingAt
<1>b. ASSUME NEW i \in 1 .. n - 1
      PROVE  q[i] = b[IF k + i - 1 < N THEN k + i - 1 ELSE k + i - 1 - N]
  <2>1. /\ N \in Nat \ {0} /\ n - 1 \in 0 .. N /\ i \in 1 .. n - 1
        /\ (h + 1) % N \in 0 .. N - 1
    BY <1>0, <1>1
  <2> QED BY <2>1, RingAt, Zenon
<1> HIDE DEF r, q, k
<1>4. r # <<>> /\ Head(r) = b[h]
  <2>1. r[1] = b[h]
    BY <1>0, <1>a
  <2> QED BY <1>0, <1>2, <2>1
<1>5. /\ Tail(r) \in Seq(S) /\ Len(Tail(r)) = n - 1
      /\ \A i \in 1 .. n - 1 : Tail(r)[i] = r[i + 1]
  BY <1>0, <1>2, <1>4, HeadTailProperties
<1>6. ASSUME NEW i \in 1 .. n - 1 PROVE q[i] = r[i + 1]
  <2> DEFINE p == IF k + i - 1 < N THEN k + i - 1 ELSE k + i - 1 - N
             w == IF h + (i + 1) - 1 < N THEN h + (i + 1) - 1 ELSE h + (i + 1) - 1 - N
  <2>1. p = w
    BY <1>0, <1>1
  <2>2. q[i] = b[p]
    BY <1>b
  <2>3. i + 1 \in 1 .. n
    BY <1>0
  <2>4. r[i + 1] = b[w]
    BY <1>a, <2>3
  <2> HIDE DEF p, w
  <2> QED BY <2>1, <2>2, <2>4
<1>7. Tail(r) = q
  BY <1>0, <1>3, <1>5, <1>6, SeqEqual
<1> QED BY <1>4, <1>7 DEF r, q
=============================================================================
