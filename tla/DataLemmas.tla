----------------------------- MODULE DataLemmas -----------------------------
(***************************************************************************)
(* Facts about the data of the kernel.  Its unsigned counters (ticks,      *)
(* nread and nwrite, the indexes of the console) wrap, and are used as     *)
(* indexes and distances: facts about % for any modulus.  Its lists and    *)
(* queues (bcache.head, idequeue, the lines of the console) are sequences. *)
(***************************************************************************)
EXTENDS Integers, Sequences, TLAPS

-----------------------------------------------------------------------------
(* Counters that wrap *)

\* Division with remainder.
LEMMA DivMod ==
    ASSUME NEW T \in Nat \ {0}, NEW x \in Int
    PROVE  /\ x \div T \in Int /\ x % T \in 0..(T - 1)
           /\ x = T * (x \div T) + (x % T)
  BY SMT

\* The remainder is the only number in its range that leaves a multiple.
LEMMA ModUnique ==
    ASSUME NEW T \in Nat \ {0}, NEW q \in Int, NEW r \in 0..(T - 1)
    PROVE  (T * q + r) % T = r
  BY SMT

\* Within one turn of a counter % changes nothing.
LEMMA ModWithin ==
    ASSUME NEW T \in Nat \ {0}, NEW x \in Int, 0 <= x, x < T
    PROVE  x % T = x
  BY SMT

\* One turn below: an unsigned difference that wraps.
LEMMA ModBelow ==
    ASSUME NEW T \in Nat \ {0}, NEW x \in Int, -T <= x, x < 0
    PROVE  x % T = x + T
  BY SMT

\* A multiple of the modulus does not count.
LEMMA ModShift ==
    ASSUME NEW T \in Nat \ {0}, NEW U \in Int, U % T = 0, NEW k \in Int
    PROVE  (U + k) % T = k % T
  <1> DEFINE a == U \div T
             b == k \div T
             r == k % T
  <1>1. a \in Int /\ U = T * a
    BY DivMod
  <1>2. b \in Int /\ r \in 0..(T - 1) /\ k = T * b + r
    BY DivMod
  <1> HIDE DEF a, b, r
  <1>3. U + k = T * (a + b) + r
    BY <1>1, <1>2
  <1>4. (T * (a + b) + r) % T = r
    BY <1>1, <1>2, ModUnique
  <1> QED
    BY <1>3, <1>4 DEF r

\* Numbers less than a turn apart have different remainders.
LEMMA ModDistinct ==
    ASSUME NEW T \in Nat \ {0}, NEW x \in Int, NEW d \in 1..(T - 1)
    PROVE  (x + d) % T # x % T
  <1> DEFINE q == x \div T
             r == x % T
  <1>1. q \in Int /\ r \in 0..(T - 1) /\ x = T * q + r
    BY DivMod
  <1> HIDE DEF q, r
  <1>2. CASE r + d < T
    <2>1. x + d = T * q + (r + d) /\ r + d \in 0..(T - 1)
      BY <1>1, <1>2
    <2>2. (x + d) % T = r + d
      BY <1>1, <2>1, ModUnique
    <2> QED
      BY <1>1, <2>2 DEF r
  <1>3. CASE r + d >= T
    <2> DEFINE s == r + d - T
    <2>1. x + d = T * (q + 1) + s /\ s \in 0..(T - 1)
      BY <1>1, <1>3
    <2>2. s # r
      BY <1>1
    <2> HIDE DEF s
    <2>3. q + 1 \in Int
      BY <1>1
    <2>4. (T * (q + 1) + s) % T = s
      BY <2>1, <2>3, ModUnique
    <2> QED
      BY <1>1, <2>1, <2>2, <2>4 DEF r
  <1> QED
    BY <1>1, <1>2, <1>3

\* The unsigned difference of two counter values.
LEMMA Difference ==
    ASSUME NEW T \in Nat \ {0}, NEW a \in 0..(T - 1), NEW b \in 0..(T - 1)
    PROVE  (a - b) % T = IF a >= b THEN a - b ELSE a - b + T
  <1>1. CASE a >= b
    BY <1>1, ModWithin
  <1>2. CASE a < b
    BY <1>2, ModBelow
  <1> QED
    BY <1>1, <1>2

\* A counter goes up by one, or back to 0.
LEMMA Successor ==
    ASSUME NEW T \in Nat \ {0}, NEW a \in 0..(T - 1)
    PROVE  /\ (a + 1) % T = IF a + 1 = T THEN 0 ELSE a + 1
           /\ (a + 1) % T \in 0..(T - 1)
  <1>1. CASE a + 1 = T
    <2>1. T % T = 0
      BY SMT
    <2> QED
      BY <1>1, <2>1
  <1>2. CASE a + 1 # T
    BY <1>2, ModWithin
  <1> QED
    BY <1>1, <1>2

\* The difference grows by one with the first counter, short of a turn.
LEMMA AheadByOne ==
    ASSUME NEW T \in Nat \ {0}, NEW a \in 0..(T - 1), NEW b \in 0..(T - 1),
           (a - b) % T < T - 1
    PROVE  (((a + 1) % T) - b) % T = ((a - b) % T) + 1
  <1> DEFINE c == (a + 1) % T
  <1>1. c \in 0..(T - 1) /\ c = IF a + 1 = T THEN 0 ELSE a + 1
    BY Successor
  <1>2. (c - b) % T = IF c >= b THEN c - b ELSE c - b + T
    BY <1>1, Difference
  <1>3. (a - b) % T = IF a >= b THEN a - b ELSE a - b + T
    BY Difference
  <1> HIDE DEF c
  <1>4. (c - b) % T = ((a - b) % T) + 1
    BY <1>1, <1>2, <1>3
  <1> QED
    BY <1>4 DEF c

\* The difference shrinks by one with the second counter, down to 0.
LEMMA BehindByOne ==
    ASSUME NEW T \in Nat \ {0}, NEW a \in 0..(T - 1), NEW b \in 0..(T - 1),
           a # b
    PROVE  (a - ((b + 1) % T)) % T = ((a - b) % T) - 1
  <1> DEFINE c == (b + 1) % T
  <1>1. c \in 0..(T - 1) /\ c = IF b + 1 = T THEN 0 ELSE b + 1
    BY Successor
  <1>2. (a - c) % T = IF a >= c THEN a - c ELSE a - c + T
    BY <1>1, Difference
  <1>3. (a - b) % T = IF a >= b THEN a - b ELSE a - b + T
    BY Difference
  <1> HIDE DEF c
  <1>4. (a - c) % T = ((a - b) % T) - 1
    BY <1>1, <1>2, <1>3
  <1> QED
    BY <1>4 DEF c

-----------------------------------------------------------------------------
(* Sequences *)

\* A sequence is a function on an initial segment of the numbers.
LEMMA SeqIs == \A S : Seq(S) = UNION {[1..n -> S] : n \in Nat}
  OBVIOUS

\* The same with its length.
LEMMA LenIs ==
    ASSUME NEW S, NEW s \in Seq(S)
    PROVE  Len(s) \in Nat /\ DOMAIN s = 1..Len(s) /\ s \in [1..Len(s) -> S]
  OBVIOUS

\* Only the empty sequence has length 0.
LEMMA EmptyIs ==
    ASSUME NEW S
    PROVE  /\ <<>> \in Seq(S) /\ Len(<<>>) = 0
           /\ \A s \in Seq(S) : s # <<>> => Len(s) \in Nat \ {0}
  OBVIOUS

\* Sequences with the same entries are the same.
LEMMA SameEntries ==
    ASSUME NEW S, NEW s \in Seq(S), NEW t \in Seq(S), Len(s) = Len(t),
           \A i \in 1..Len(s) : s[i] = t[i]
    PROVE  s = t
  OBVIOUS

\* The entries of one sequence after those of another.
LEMMA ConcatIs ==
    ASSUME NEW S, NEW s \in Seq(S), NEW t \in Seq(S)
    PROVE  /\ s \o t \in Seq(S)
           /\ Len(s \o t) = Len(s) + Len(t)
           /\ \A i \in 1..(Len(s) + Len(t)) :
                (s \o t)[i] = IF i <= Len(s) THEN s[i] ELSE t[i - Len(s)]
  OBVIOUS

\* The entries of a part of a sequence.
LEMMA SubSeqIs ==
    ASSUME NEW S, NEW s, NEW a \in Int, NEW b \in Int, \A i \in a..b : s[i] \in S
    PROVE  /\ SubSeq(s, a, b) \in Seq(S)
           /\ Len(SubSeq(s, a, b)) = IF a <= b THEN b - a + 1 ELSE 0
           /\ \A i \in 1..(b - a + 1) : SubSeq(s, a, b)[i] = s[a + i - 1]
  OBVIOUS

\* A part that ends before it starts.
LEMMA SubSeqNone ==
    ASSUME NEW s, NEW a \in Int, NEW b \in Int, b < a
    PROVE  SubSeq(s, a, b) = <<>>
  OBVIOUS

\* A sequence without its first entry.
LEMMA TailIs ==
    ASSUME NEW S, NEW s \in Seq(S), s # <<>>
    PROVE  /\ Head(s) \in S /\ Tail(s) \in Seq(S)
           /\ Len(Tail(s)) = Len(s) - 1
           /\ \A i \in 1..(Len(s) - 1) : Tail(s)[i] = s[i + 1]
  OBVIOUS

\* A sequence with one more entry.
LEMMA AppendIs ==
    ASSUME NEW S, NEW s \in Seq(S), NEW e \in S
    PROVE  /\ Append(s, e) \in Seq(S) /\ Append(s, e) # <<>>
           /\ Len(Append(s, e)) = Len(s) + 1
           /\ \A i \in 1..Len(s) : Append(s, e)[i] = s[i]
           /\ Append(s, e)[Len(s) + 1] = e
  OBVIOUS

\* What is first in a queue after an entry has come in at its end.
LEMMA TailOfAppend ==
    ASSUME NEW S, NEW s \in Seq(S), NEW e
    PROVE  /\ Head(Append(s, e)) = IF s = <<>> THEN e ELSE Head(s)
           /\ Tail(Append(s, e)) = IF s = <<>> THEN <<>> ELSE Append(Tail(s), e)
  OBVIOUS

=============================================================================
