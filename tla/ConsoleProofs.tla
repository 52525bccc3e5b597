---------------------------- MODULE ConsoleProofs ----------------------------
(***************************************************************************)
(* Proofs about the console: the inductive invariant, and that the ring of *)
(* characters implements an edited line and a queue of lines, for a ring   *)
(* of any size and indexes of any width.                                   *)
(***************************************************************************)
EXTENDS Console, DataLemmas

-----------------------------------------------------------------------------
(* Indexes that wrap, and the cells of the ring *)

\* The cell of a position.
Cell(i) == i % INPUT_BUF

\* The unsigned difference of two indexes.
LEMMA DistIs ==
    ASSUME NEW a \in Index, NEW b \in Index
    PROVE  /\ Dist(a, b) = IF a >= b THEN a - b ELSE a - b + INDEX
           /\ Dist(a, b) \in Index
           /\ Dist(a, b) = 0 <=> a = b
  <1>1. INDEX \in Nat \ {0} /\ a \in 0..(INDEX - 1) /\ b \in 0..(INDEX - 1)
    BY ConsoleConstants DEF Index
  <1>2. (a - b) % INDEX = IF a >= b THEN a - b ELSE a - b + INDEX
    BY ONLY <1>1, Difference
  <1> QED
    BY <1>1, <1>2 DEF Dist, Index

\* The distances from r to w and from w to e add up.
LEMMA DistSum ==
    ASSUME NEW a \in Index, NEW b \in Index, NEW c \in Index, Dist(b, a) <= Dist(c, a)
    PROVE  Dist(c, b) = Dist(c, a) - Dist(b, a)
  <1>1. INDEX \in Nat
    BY ConsoleConstants
  <1>2. /\ Dist(b, a) = IF b >= a THEN b - a ELSE b - a + INDEX
        /\ Dist(c, a) = IF c >= a THEN c - a ELSE c - a + INDEX
        /\ Dist(c, b) = IF c >= b THEN c - b ELSE c - b + INDEX
    BY DistIs
  <1>3. a \in 0..(INDEX - 1) /\ b \in 0..(INDEX - 1) /\ c \in 0..(INDEX - 1)
    BY DEF Index
  <1> QED
    BY <1>1, <1>2, <1>3

\* One position on.
LEMMA NextIs ==
    ASSUME NEW a \in Index
    PROVE  /\ Next1(a) \in Index
           /\ Next1(a) = IF a + 1 = INDEX THEN 0 ELSE a + 1
           /\ \A b \in Index : /\ Dist(a, b) < INDEX - 1 => Dist(Next1(a), b) = Dist(a, b) + 1
                               /\ b # a => Dist(b, Next1(a)) = Dist(b, a) - 1
  <1>1. INDEX \in Nat \ {0} /\ a \in 0..(INDEX - 1)
    BY ConsoleConstants DEF Index
  <1>2. /\ (a + 1) % INDEX = IF a + 1 = INDEX THEN 0 ELSE a + 1
        /\ (a + 1) % INDEX \in 0..(INDEX - 1)
    BY ONLY <1>1, Successor
  <1>3. Next1(a) \in Index /\ Next1(a) = IF a + 1 = INDEX THEN 0 ELSE a + 1
    BY <1>2 DEF Next1, Index
  <1>4. ASSUME NEW b \in Index
        PROVE  /\ Dist(a, b) < INDEX - 1 => Dist(Next1(a), b) = Dist(a, b) + 1
               /\ b # a => Dist(b, Next1(a)) = Dist(b, a) - 1
    <2> DEFINE c == Next1(a)
    <2>1. c \in Index /\ c = IF a + 1 = INDEX THEN 0 ELSE a + 1
      BY <1>3
    <2> HIDE DEF c
    <2>2. /\ Dist(a, b) = IF a >= b THEN a - b ELSE a - b + INDEX
          /\ Dist(c, b) = IF c >= b THEN c - b ELSE c - b + INDEX
          /\ Dist(b, a) = IF b >= a THEN b - a ELSE b - a + INDEX
          /\ Dist(b, c) = IF b >= c THEN b - c ELSE b - c + INDEX
      BY <2>1, DistIs
    <2>3. b \in 0..(INDEX - 1) /\ c \in 0..(INDEX - 1)
      BY <2>1 DEF Index
    <2>4. /\ Dist(a, b) < INDEX - 1 => Dist(c, b) = Dist(a, b) + 1
          /\ b # a => Dist(b, c) = Dist(b, a) - 1
      BY <1>1, <2>1, <2>2, <2>3
    <2> QED
      BY <2>4 DEF c
  <1> QED
    BY <1>3, <1>4

\* Some positions back.
LEMMA BackIs ==
    ASSUME NEW a \in Index, NEW b \in Index, NEW k \in 0..Dist(a, b)
    PROVE  Dist(a, k) \in Index /\ Dist(Dist(a, k), b) = Dist(a, b) - k
  <1>1. INDEX \in Nat \ {0}
    BY ConsoleConstants
  <1>2. k \in Index
    BY <1>1, DistIs DEF Index
  <1> DEFINE c == Dist(a, k)
  <1>3. c \in Index /\ c = IF a >= k THEN a - k ELSE a - k + INDEX
    BY <1>2, DistIs
  <1> HIDE DEF c
  <1>4. /\ Dist(a, b) = IF a >= b THEN a - b ELSE a - b + INDEX
        /\ Dist(c, b) = IF c >= b THEN c - b ELSE c - b + INDEX
    BY <1>3, DistIs
  <1>5. /\ a \in 0..(INDEX - 1) /\ b \in 0..(INDEX - 1) /\ c \in 0..(INDEX - 1)
        /\ k \in 0..(INDEX - 1) /\ k <= Dist(a, b)
    BY <1>2, <1>3 DEF Index
  <1>6. Dist(c, b) = Dist(a, b) - k
    BY <1>1, <1>3, <1>4, <1>5
  <1> QED
    BY <1>3, <1>6 DEF c

\* A turn of the indexes is whole turns of the ring.
LEMMA CellIs ==
    ASSUME NEW i \in Int
    PROVE  /\ Cell(i) \in 0..(INPUT_BUF - 1)
           /\ \A d \in 1..(INPUT_BUF - 1) : Cell(i + d) # Cell(i)
           /\ Cell(INDEX + i) = Cell(i)
  <1>1. INPUT_BUF \in Nat \ {0} /\ INDEX \in Int /\ INDEX % INPUT_BUF = 0
    BY ConsoleConstants
  <1>2. i % INPUT_BUF \in 0..(INPUT_BUF - 1)
    BY <1>1, DivMod
  <1>3. ASSUME NEW d \in 1..(INPUT_BUF - 1)
        PROVE  (i + d) % INPUT_BUF # i % INPUT_BUF
    BY ONLY <1>1, ModDistinct, Zenon
  <1>4. (INDEX + i) % INPUT_BUF = i % INPUT_BUF
    BY ONLY <1>1, ModShift, Zenon
  <1> QED
    BY <1>2, <1>3, <1>4 DEF Cell

\* The position k behind index b, counted from index a.
LEMMA CellAlong ==
    ASSUME NEW a \in Index, NEW b \in Index, NEW k \in Int
    PROVE  Cell(b + k) = Cell(a + Dist(b, a) + k)
  <1>1. INDEX \in Nat
    BY ConsoleConstants
  <1>2. CASE b >= a
    <2>1. a + Dist(b, a) + k = b + k
      BY <1>1, <1>2, DistIs DEF Index
    <2> QED
      BY <2>1
  <1>3. CASE b < a
    <2>1. a + Dist(b, a) + k = INDEX + (b + k) /\ b + k \in Int
      BY <1>1, <1>3, DistIs DEF Index
    <2> QED
      BY <2>1, CellIs
  <1> QED
    BY <1>1, <1>2, <1>3 DEF Index

\* Moving an index on moves to the next cell, also where it wraps.
LEMMA CellNext ==
    ASSUME NEW a \in Index, NEW k \in Int
    PROVE  Cell(Next1(a) + k) = Cell(a + 1 + k)
  <1>1. INDEX \in Nat
    BY ConsoleConstants
  <1>2. CASE a + 1 = INDEX
    <2>1. Next1(a) + k = k /\ a + 1 + k = INDEX + k
      BY <1>2, NextIs DEF Index
    <2> QED
      BY <2>1, CellIs
  <1>3. CASE a + 1 # INDEX
    <2>1. Next1(a) + k = a + 1 + k
      BY <1>3, NextIs
    <2> QED
      BY <2>1
  <1> QED
    BY <1>2, <1>3

-----------------------------------------------------------------------------
(* The contents of the ring *)

\* n characters from a position on.
Part(b, from, n) == [k \in 1..n |-> b[Cell(from + k - 1)]]

\* A part of the ring is a sequence of its characters.
LEMMA PartIs ==
    ASSUME NEW b \in [0..(INPUT_BUF - 1) -> Stored], NEW from \in Int, NEW n \in Nat
    PROVE  /\ Part(b, from, n) \in Seq(Stored) /\ Len(Part(b, from, n)) = n
           /\ \A k \in 1..n : Part(b, from, n)[k] = b[Cell(from + k - 1)]
  <1> DEFINE s == Part(b, from, n)
  <1>1. \A k \in 1..n : from + k - 1 \in Int /\ Cell(from + k - 1) \in 0..(INPUT_BUF - 1)
    BY CellIs
  <1>2. s \in [1..n -> Stored] /\ \A k \in 1..n : s[k] = b[Cell(from + k - 1)]
    BY <1>1, Zenon DEF Part
  <1> HIDE DEF s
  <1>3. s \in Seq(Stored)
    BY <1>2, SeqIs
  <1>4. Len(s) = n
    BY <1>2, <1>3, LenIs
  <1> QED
    BY <1>2, <1>3, <1>4 DEF s

\* Content() is a part of the ring.
LEMMA ContentIs ==
    ASSUME NEW from, NEW to
    PROVE  Content(from, to) = Part(input.buf, from, Dist(to, from))
  BY DEF Content, Part, At, Cell

\* The finished characters of a ring, and the line that is being typed.
Queue(in) == Part(in.buf, in.r, Dist(in.w, in.r))
Line(in) == Part(in.buf, in.w, Dist(in.e, in.w))

\* The indexes of a ring are in order.
Ordered(in) ==
    /\ in \in Ring
    /\ Dist(in.w, in.r) <= Dist(in.e, in.r)
    /\ Dist(in.e, in.r) <= INPUT_BUF

\* Queue and line follow each other in the ring.
LEMMA RingParts ==
    ASSUME NEW in, Ordered(in)
    PROVE  /\ in.r \in Index /\ in.w \in Index /\ in.e \in Index
           /\ in.buf \in [0..(INPUT_BUF - 1) -> Stored]
           /\ Dist(in.w, in.r) \in Nat /\ Dist(in.e, in.w) \in Nat /\ Dist(in.e, in.r) \in Nat
           /\ Dist(in.w, in.r) + Dist(in.e, in.w) = Dist(in.e, in.r)
           /\ Queue(in) \in Seq(Stored) /\ Len(Queue(in)) = Dist(in.w, in.r)
           /\ Line(in) \in Seq(Stored) /\ Len(Line(in)) = Dist(in.e, in.w)
           /\ \A k \in 1..Dist(in.w, in.r) : Queue(in)[k] = in.buf[Cell(in.r + k - 1)]
           /\ \A k \in 1..Dist(in.e, in.w) :
                 Line(in)[k] = in.buf[Cell(in.r + Dist(in.w, in.r) + k - 1)]
  <1>1. /\ in.r \in Index /\ in.w \in Index /\ in.e \in Index
        /\ in.buf \in [0..(INPUT_BUF - 1) -> Stored]
    BY DEF Ordered, Ring
  <1>2. INDEX \in Nat /\ INPUT_BUF \in Nat /\ Index \subseteq Nat
    BY ConsoleConstants DEF Index
  <1>3. Dist(in.w, in.r) \in Nat /\ Dist(in.e, in.w) \in Nat /\ Dist(in.e, in.r) \in Nat
    BY <1>1, <1>2, DistIs, Zenon
  <1>a. in.r \in Int /\ in.w \in Int
    BY ConsoleConstants, <1>1 DEF Index
  <1>4. Dist(in.w, in.r) + Dist(in.e, in.w) = Dist(in.e, in.r)
    <2>1. Dist(in.e, in.w) = Dist(in.e, in.r) - Dist(in.w, in.r)
      BY <1>1, DistSum DEF Ordered
    <2> QED
      BY <1>3, <2>1
  <1>5. /\ Queue(in) \in Seq(Stored) /\ Len(Queue(in)) = Dist(in.w, in.r)
        /\ \A k \in 1..Dist(in.w, in.r) : Queue(in)[k] = in.buf[Cell(in.r + k - 1)]
    <2> DEFINE b == in.buf
               f == in.r
               d == Dist(in.w, in.r)
    <2>0. b \in [0..(INPUT_BUF - 1) -> Stored]
      BY <1>1
    <2>1. f \in Int /\ d \in Nat
      BY <1>3, <1>a
    <2> HIDE DEF b, f, d
    <2>2. /\ Part(b, f, d) \in Seq(Stored) /\ Len(Part(b, f, d)) = d
          /\ \A k \in 1..d : Part(b, f, d)[k] = b[Cell(f + k - 1)]
      BY <2>0, <2>1, PartIs, Zenon
    <2> QED
      BY <2>2 DEF Queue, b, f, d
  <1>6. /\ Line(in) \in Seq(Stored) /\ Len(Line(in)) = Dist(in.e, in.w)
        /\ \A k \in 1..Dist(in.e, in.w) : Line(in)[k] = in.buf[Cell(in.w + k - 1)]
    <2> DEFINE b == in.buf
               f == in.w
               d == Dist(in.e, in.w)
    <2>0. b \in [0..(INPUT_BUF - 1) -> Stored]
      BY <1>1
    <2>1. f \in Int /\ d \in Nat
      BY <1>3, <1>a
    <2> HIDE DEF b, f, d
    <2>2. /\ Part(b, f, d) \in Seq(Stored) /\ Len(Part(b, f, d)) = d
          /\ \A k \in 1..d : Part(b, f, d)[k] = b[Cell(f + k - 1)]
      BY <2>0, <2>1, PartIs, Zenon
    <2> QED
      BY <2>2 DEF Line, b, f, d
  <1>7. ASSUME NEW k \in 1..Dist(in.e, in.w)
        PROVE  Cell(in.w + k - 1) = Cell(in.r + Dist(in.w, in.r) + k - 1)
    <2>1. k - 1 \in Int
      BY <1>3
    <2>2. Cell(in.w + (k - 1)) = Cell(in.r + Dist(in.w, in.r) + (k - 1))
      BY <1>1, <2>1, CellAlong
    <2>3. /\ in.w + (k - 1) = in.w + k - 1
          /\ in.r + Dist(in.w, in.r) + (k - 1) = in.r + Dist(in.w, in.r) + k - 1
      BY <1>1, <1>2, <1>3
    <2> QED
      BY <2>2, <2>3
  <1> QED
    BY <1>1, <1>3, <1>4, <1>5, <1>6, <1>7

\* consoleintr() adds a character.
LEMMA InsertRing ==
    ASSUME NEW in, Ordered(in), Dist(in.e, in.r) < INPUT_BUF, NEW c \in Stored,
           NEW ends \in BOOLEAN, NEW out,
           out = [in EXCEPT !.buf[in.e % INPUT_BUF] = c, !.e = Next1(in.e),
                            !.w = IF ends THEN Next1(in.e) ELSE @]
    PROVE  /\ Ordered(out) /\ (out.w = in.w <=> ~ends)
           /\ ends => Queue(out) = Queue(in) \o Append(Line(in), c) /\ Line(out) = <<>>
           /\ ~ends => Queue(out) = Queue(in) /\ Line(out) = Append(Line(in), c)
  <1> DEFINE n == Dist(in.e, in.r)
             m == Dist(in.w, in.r)
             l == Dist(in.e, in.w)
             e == Next1(in.e)
  <1>1. /\ in.r \in Index /\ in.w \in Index /\ in.e \in Index
        /\ in.buf \in [0..(INPUT_BUF - 1) -> Stored]
        /\ m \in Nat /\ l \in Nat /\ n \in Nat /\ m + l = n
        /\ Queue(in) \in Seq(Stored) /\ Len(Queue(in)) = m
        /\ Line(in) \in Seq(Stored) /\ Len(Line(in)) = l
        /\ \A k \in 1..m : Queue(in)[k] = in.buf[Cell(in.r + k - 1)]
        /\ \A k \in 1..l : Line(in)[k] = in.buf[Cell(in.r + m + k - 1)]
    BY RingParts
  <1>2. INPUT_BUF \in Nat \ {0} /\ INDEX \in Nat /\ INPUT_BUF < INDEX /\ n < INPUT_BUF
        /\ Index \subseteq Nat
    BY ConsoleConstants DEF Index
  <1>3. Cell(in.e) = Cell(in.r + n) /\ Cell(in.e) \in 0..(INPUT_BUF - 1)
    <2>1. Cell(in.e + 0) = Cell(in.r + n + 0)
      BY <1>1, CellAlong
    <2>2. in.e \in Nat /\ in.r \in Nat /\ n \in Nat
      BY <1>1, <1>2
    <2>3. in.e + 0 = in.e /\ in.r + n + 0 = in.r + n
      BY ONLY <2>2
    <2> QED
      BY <2>1, <2>2, <2>3, CellIs
  <1>4. /\ out.buf = [in.buf EXCEPT ![Cell(in.e)] = c]
        /\ out.e = e /\ out.r = in.r /\ out.w = IF ends THEN e ELSE in.w
    BY DEF Ordered, Ring, Cell
  <1>5. e \in Index /\ Dist(e, in.r) = n + 1 /\ Dist(e, in.w) = l + 1
    <2>1. n < INDEX - 1 /\ l < INDEX - 1
      <3> HIDE DEF n, m, l
      <3> QED
        BY ONLY <1>1, <1>2
    <2>2. in.e \in Index /\ in.r \in Index /\ in.w \in Index
      BY <1>1
    <2>3. /\ Next1(in.e) \in Index
          /\ n < INDEX - 1 => Dist(Next1(in.e), in.r) = n + 1
          /\ l < INDEX - 1 => Dist(Next1(in.e), in.w) = l + 1
      BY ONLY <2>2, NextIs
    <2> QED
      BY ONLY <2>1, <2>3
  <1> HIDE DEF n, m, l, e
  <1>a. m \in Nat /\ l \in Nat /\ n \in Nat /\ m + l = n /\ in.r \in Nat /\ n < INPUT_BUF
        /\ INPUT_BUF \in Nat
    BY <1>1, <1>2 DEF n
  <1>b. in.buf \in [0..(INPUT_BUF - 1) -> Stored]
    BY <1>1
  <1>6. out.buf \in [0..(INPUT_BUF - 1) -> Stored]
    <2>1. \A i \in 0..(INPUT_BUF - 1) : out.buf[i] \in Stored
      BY <1>b, <1>4, Zenon
    <2>2. DOMAIN out.buf = 0..(INPUT_BUF - 1) /\ out.buf = [i \in DOMAIN out.buf |-> out.buf[i]]
      BY <1>b, <1>4
    <2> QED
      BY <2>1, <2>2, Zenon
  <1>7. out \in Ring
    <2>1. out = [buf |-> out.buf, r |-> in.r, w |-> IF ends THEN e ELSE in.w, e |-> e]
      BY <1>4, Zenon DEF Ordered, Ring, e
    <2> QED
      BY <1>1, <1>5, <1>6, <2>1, Zenon DEF Ring
  <1>8. Ordered(out) /\ (out.w = in.w <=> ~ends)
    <2>1. Dist(out.e, out.r) = n + 1 /\ Dist(out.w, out.r) = IF ends THEN n + 1 ELSE m
      BY <1>4, <1>5 DEF m
    <2>2. e # in.w
      BY <1>1, <1>5, DistIs
    <2> QED
      BY <1>1, <1>2, <1>4, <1>7, <2>1, <2>2 DEF Ordered
  <1>9. /\ out.buf[Cell(in.r + n)] = c
        /\ \A i \in 0..(n - 1) : out.buf[Cell(in.r + i)] = in.buf[Cell(in.r + i)]
    <2>1. ASSUME NEW i \in 0..(n - 1)
          PROVE  Cell(in.r + i) # Cell(in.r + n)
      <3> DEFINE x == in.r + i
                 d == n - i
      <3>1. x \in Int /\ d \in 1..(INPUT_BUF - 1) /\ x + d = in.r + n
        BY <1>a
      <3>2. Cell(x + d) # Cell(x)
        BY <3>1, CellIs
      <3> QED
        BY <3>1, <3>2
    <2>2. \A i \in 0..(n - 1) : Cell(in.r + i) \in 0..(INPUT_BUF - 1)
      BY <1>1, <1>2, CellIs
    <2>3. \A a \in 0..(INPUT_BUF - 1) : out.buf[a] = IF a = Cell(in.e) THEN c ELSE in.buf[a]
      BY ONLY <1>b, <1>4, Zenon
    <2> QED
      BY <1>3, <2>1, <2>2, <2>3, Zenon
  <1>10. /\ Queue(out) \in Seq(Stored) /\ Len(Queue(out)) = Dist(out.w, out.r)
         /\ Line(out) \in Seq(Stored) /\ Len(Line(out)) = Dist(out.e, out.w)
         /\ \A k \in 1..Dist(out.w, out.r) : Queue(out)[k] = out.buf[Cell(out.r + k - 1)]
         /\ \A k \in 1..Dist(out.e, out.w) :
               Line(out)[k] = out.buf[Cell(out.r + Dist(out.w, out.r) + k - 1)]
    <2>1. Ordered(out)
      BY <1>8
    <2>2. /\ Queue(out) \in Seq(Stored) /\ Len(Queue(out)) = Dist(out.w, out.r)
          /\ Line(out) \in Seq(Stored) /\ Len(Line(out)) = Dist(out.e, out.w)
      BY ONLY <2>1, RingParts
    <2>3. \A k \in 1..Dist(out.w, out.r) : Queue(out)[k] = out.buf[Cell(out.r + k - 1)]
      BY ONLY <2>1, RingParts
    <2>4. \A k \in 1..Dist(out.e, out.w) :
             Line(out)[k] = out.buf[Cell(out.r + Dist(out.w, out.r) + k - 1)]
      BY ONLY <2>1, RingParts
    <2> QED
      BY <2>2, <2>3, <2>4
  <1> DEFINE t == Append(Line(in), c)
  <1>11. /\ t \in Seq(Stored) /\ Len(t) = l + 1
         /\ \A k \in 1..l : t[k] = Line(in)[k]
         /\ t[l + 1] = c
    BY <1>1, AppendIs
  <1>12. \A k \in 1..(l + 1) : t[k] = out.buf[Cell(in.r + m + k - 1)]
    <2>1. ASSUME NEW k \in 1..l
          PROVE  t[k] = out.buf[Cell(in.r + m + k - 1)]
      <3>1. m + k - 1 \in 0..(n - 1) /\ in.r + (m + k - 1) = in.r + m + k - 1
        BY <1>1, <1>2
      <3> QED
        BY <1>1, <1>9, <1>11, <3>1
    <2>2. in.r + m + (l + 1) - 1 = in.r + n
      BY <1>1, <1>2
    <2> QED
      BY <1>1, <1>9, <1>11, <2>1, <2>2
  <1> HIDE DEF t
  <1>13. CASE ~ends
    <2>1. Dist(out.w, out.r) = m /\ Dist(out.e, out.w) = l + 1
      BY <1>4, <1>5, <1>13 DEF m
    <2>2. Line(out) = t
      BY <1>4, <1>10, <1>11, <1>12, <2>1, SameEntries
    <2>3. \A k \in 1..m : Queue(out)[k] = Queue(in)[k]
      <3>1. ASSUME NEW k \in 1..m
            PROVE  Queue(out)[k] = Queue(in)[k]
        <4>1. k - 1 \in 0..(n - 1) /\ in.r + (k - 1) = in.r + k - 1
          BY <1>1, <1>2
        <4>2. Queue(in)[k] = in.buf[Cell(in.r + k - 1)]
          BY <1>1
        <4>3. out.buf[Cell(in.r + (k - 1))] = in.buf[Cell(in.r + (k - 1))]
          BY ONLY <1>9, <4>1
        <4>4. Queue(out)[k] = out.buf[Cell(in.r + k - 1)]
          BY <1>4, <1>10, <2>1
        <4> QED
          BY ONLY <4>1, <4>2, <4>3, <4>4
      <3> QED
        BY <3>1
    <2>4. Queue(out) = Queue(in)
      <3>1. Queue(in) \in Seq(Stored) /\ Len(Queue(in)) = m
        BY <1>1
      <3>2. Queue(out) \in Seq(Stored) /\ Len(Queue(out)) = m
        BY <1>10, <2>1
      <3> QED
        BY ONLY <3>1, <3>2, <2>3, SameEntries
    <2> QED
      BY <1>8, <1>13, <2>2, <2>4 DEF t
  <1>14. CASE ends
    <2>1. Dist(out.w, out.r) = n + 1 /\ Dist(out.e, out.w) = 0
      BY <1>4, <1>5, <1>14, DistIs
    <2>2. Line(out) = <<>>
      BY <1>10, <2>1, EmptyIs
    <2> DEFINE u == Queue(in) \o t
    <2>3. /\ u \in Seq(Stored) /\ Len(u) = m + (l + 1)
          /\ \A k \in 1..(m + (l + 1)) : u[k] = IF k <= m THEN Queue(in)[k] ELSE t[k - m]
      BY <1>1, <1>11, ConcatIs
    <2>4. Len(u) = n + 1 /\ n + 1 \in Nat
      BY <1>1, <2>3
    <2> HIDE DEF u
    <2>5. ASSUME NEW k \in 1..(n + 1)
          PROVE  Queue(out)[k] = u[k]
      <3>1. Queue(out)[k] = out.buf[Cell(in.r + k - 1)]
        BY <1>4, <1>10, <2>1
      <3>2. CASE k <= m
        <4>1. k \in 1..m /\ k \in 1..(m + (l + 1)) /\ k - 1 \in 0..(n - 1)
              /\ in.r + (k - 1) = in.r + k - 1
          BY ONLY <1>a, <2>5, <3>2
        <4>2. Queue(in)[k] = in.buf[Cell(in.r + k - 1)]
          BY <1>1, <4>1
        <4>3. out.buf[Cell(in.r + (k - 1))] = in.buf[Cell(in.r + (k - 1))]
          BY ONLY <1>9, <4>1
        <4>4. u[k] = Queue(in)[k]
          BY ONLY <2>3, <3>2, <4>1
        <4> QED
          BY ONLY <3>1, <4>1, <4>2, <4>3, <4>4
      <3>3. CASE ~(k <= m)
        <4>1. k - m \in 1..(l + 1) /\ k \in 1..(m + (l + 1))
              /\ in.r + m + (k - m) - 1 = in.r + k - 1
          BY <1>a, <3>3
        <4> QED
          BY <1>12, <2>3, <3>1, <3>3, <4>1
      <3> QED
        BY <3>2, <3>3
    <2>6. Queue(out) = u
      BY <1>10, <2>1, <2>3, <2>4, <2>5, SameEntries
    <2> QED
      BY <1>8, <1>14, <2>2, <2>6, Zenon DEF u, t
  <1> QED
    BY <1>13, <1>14

\* Erasing takes characters off the end of the line.
LEMMA BackRing ==
    ASSUME NEW in, Ordered(in), NEW k \in 0..Dist(in.e, in.w), NEW out,
           out = [in EXCEPT !.e = Dist(in.e, k)]
    PROVE  /\ Ordered(out) /\ out.w = in.w /\ out.r = in.r
           /\ Queue(out) = Queue(in)
           /\ Line(out) = SubSeq(Line(in), 1, Dist(in.e, in.w) - k)
  <1> DEFINE n == Dist(in.e, in.r)
             m == Dist(in.w, in.r)
             l == Dist(in.e, in.w)
             e == Dist(in.e, k)
  <1>1. /\ in.r \in Index /\ in.w \in Index /\ in.e \in Index
        /\ m \in Nat /\ l \in Nat /\ n \in Nat /\ m + l = n
    BY ONLY Ordered(in), RingParts
  <1>2. INPUT_BUF \in Nat /\ n <= INPUT_BUF /\ k \in 0..l /\ k \in 0..n
    BY <1>1, ConsoleConstants DEF Ordered
  <1>3. e \in Index /\ Dist(e, in.w) = l - k /\ Dist(e, in.r) = n - k
    BY <1>1, <1>2, BackIs
  <1>4. out.e = e /\ out.r = in.r /\ out.w = in.w /\ out.buf = in.buf
    BY DEF Ordered, Ring
  <1>5. out \in Ring
    BY <1>3 DEF Ordered, Ring
  <1> HIDE DEF n, m, l, e
  <1>6. Dist(out.w, out.r) = m /\ Dist(out.e, out.r) = n - k /\ Dist(out.e, out.w) = l - k
    BY <1>3, <1>4 DEF m
  <1>7. Ordered(out)
    BY <1>1, <1>2, <1>5, <1>6 DEF Ordered
  <1>8. Queue(out) = Queue(in)
    BY <1>4 DEF Queue
  <1>9. /\ Line(in) \in Seq(Stored) /\ Len(Line(in)) = l
        /\ \A j \in 1..l : Line(in)[j] = in.buf[Cell(in.r + m + j - 1)]
    BY ONLY Ordered(in), RingParts DEF l, m
  <1>10. /\ Line(out) \in Seq(Stored) /\ Len(Line(out)) = l - k
         /\ \A j \in 1..(l - k) : Line(out)[j] = in.buf[Cell(in.r + m + j - 1)]
    <2>1. /\ Line(out) \in Seq(Stored) /\ Len(Line(out)) = Dist(out.e, out.w)
          /\ \A j \in 1..Dist(out.e, out.w) :
                Line(out)[j] = out.buf[Cell(out.r + Dist(out.w, out.r) + j - 1)]
      BY ONLY <1>7, RingParts
    <2> QED
      BY <1>4, <1>6, <2>1, Zenon
  <1> DEFINE s == SubSeq(Line(in), 1, l - k)
  <1>11. s \in Seq(Stored) /\ Len(s) = l - k /\ \A j \in 1..(l - k) : s[j] = Line(in)[j]
    <2>1. l - k \in 0..l
      BY <1>1, <1>2
    <2>2. /\ s \in Seq(Stored)
          /\ Len(s) = IF 1 <= l - k THEN (l - k) - 1 + 1 ELSE 0
          /\ \A j \in 1..((l - k) - 1 + 1) : s[j] = Line(in)[1 + j - 1]
      BY <1>9, <2>1, SubSeqIs
    <2> QED
      BY <1>1, <2>1, <2>2
  <1> HIDE DEF s
  <1>12. \A j \in 1..(l - k) : Line(out)[j] = s[j]
    <2>1. ASSUME NEW j \in 1..(l - k)
          PROVE  Line(out)[j] = s[j]
      <3>1. j \in 1..l
        BY <1>1, <1>2
      <3> QED
        BY <1>9, <1>10, <1>11, <3>1, Zenon
    <2> QED
      BY <2>1
  <1>13. Line(out) = s
    BY <1>10, <1>11, <1>12, SameEntries, Zenon
  <1> QED
    BY <1>4, <1>7, <1>8, <1>13 DEF s, l

\* consoleread() takes the character at r.
LEMMA TakeRing ==
    ASSUME NEW in, Ordered(in), in.r # in.w, NEW out,
           out = [in EXCEPT !.r = Next1(in.r)]
    PROVE  /\ Ordered(out) /\ out.w = in.w /\ out.e = in.e /\ out.buf = in.buf
           /\ Queue(in) # <<>> /\ Head(Queue(in)) = in.buf[Cell(in.r)]
           /\ Queue(out) = Tail(Queue(in))
           /\ Line(out) = Line(in)
  <1> DEFINE n == Dist(in.e, in.r)
             m == Dist(in.w, in.r)
             r == Next1(in.r)
  <1>1. /\ in.r \in Index /\ in.w \in Index /\ in.e \in Index
        /\ m \in Nat /\ n \in Nat
    BY ONLY Ordered(in), RingParts
  <1>2. INPUT_BUF \in Nat /\ n <= INPUT_BUF /\ m <= n /\ m # 0
    BY <1>1, ConsoleConstants, DistIs DEF Ordered
  <1>3. in.e # in.r
    BY <1>1, <1>2, DistIs
  <1>4. r \in Index /\ Dist(in.w, r) = m - 1 /\ Dist(in.e, r) = n - 1
    BY <1>1, <1>3, NextIs
  <1>5. out.e = in.e /\ out.r = r /\ out.w = in.w /\ out.buf = in.buf
    BY DEF Ordered, Ring
  <1>6. out \in Ring
    BY <1>4 DEF Ordered, Ring
  <1> HIDE DEF n, m, r
  <1>7. Dist(out.w, out.r) = m - 1 /\ Dist(out.e, out.r) = n - 1
    BY <1>4, <1>5
  <1>8. Ordered(out)
    BY <1>1, <1>2, <1>6, <1>7 DEF Ordered
  <1>9. Line(out) = Line(in)
    BY <1>5 DEF Line
  <1>10. /\ Queue(in) \in Seq(Stored) /\ Len(Queue(in)) = m
         /\ \A j \in 1..m : Queue(in)[j] = in.buf[Cell(in.r + j - 1)]
    BY ONLY Ordered(in), RingParts DEF m
  <1>11. /\ Queue(out) \in Seq(Stored) /\ Len(Queue(out)) = m - 1
         /\ \A j \in 1..(m - 1) : Queue(out)[j] = in.buf[Cell(r + j - 1)]
    <2>1. /\ Queue(out) \in Seq(Stored) /\ Len(Queue(out)) = Dist(out.w, out.r)
          /\ \A j \in 1..Dist(out.w, out.r) : Queue(out)[j] = out.buf[Cell(out.r + j - 1)]
      BY ONLY <1>8, RingParts
    <2> QED
      BY <1>5, <1>7, <2>1
  <1>12. Queue(in) # <<>>
    BY <1>2, <1>10
  <1>13. /\ Head(Queue(in)) = Queue(in)[1]
         /\ Tail(Queue(in)) \in Seq(Stored) /\ Len(Tail(Queue(in))) = m - 1
         /\ \A j \in 1..(m - 1) : Tail(Queue(in))[j] = Queue(in)[j + 1]
    BY <1>10, <1>12, TailIs
  <1>14. Head(Queue(in)) = in.buf[Cell(in.r)]
    <2>1. 1 \in 1..m /\ in.r + 1 - 1 = in.r
      BY <1>1, <1>2, ConsoleConstants DEF Index
    <2> QED
      BY <1>10, <1>13, <2>1
  <1>15. \A j \in 1..(m - 1) : Queue(out)[j] = Tail(Queue(in))[j]
    <2>1. ASSUME NEW j \in 1..(m - 1)
          PROVE  Queue(out)[j] = Tail(Queue(in))[j]
      <3>1. j \in Int /\ j + 1 \in 1..m /\ j - 1 \in Int /\ in.r \in Int /\ r \in Int
        BY <1>1, <1>4, ConsoleConstants DEF Index
      <3>a. j \in Int
        OBVIOUS
      <3>b. \A a \in Int : a + (j + 1) - 1 = a + 1 + (j - 1) /\ a + j - 1 = a + (j - 1)
        BY ONLY <3>a
      <3>2. in.r + (j + 1) - 1 = in.r + 1 + (j - 1) /\ r + j - 1 = r + (j - 1)
        BY <3>1, <3>b
      <3>3. Cell(r + (j - 1)) = Cell(in.r + 1 + (j - 1))
        BY <1>1, <3>1, CellNext DEF r
      <3>4. Queue(out)[j] = in.buf[Cell(r + (j - 1))]
        BY <1>11, <3>2, Zenon
      <3>5. Tail(Queue(in))[j] = Queue(in)[j + 1]
        BY <1>13
      <3>6. Queue(in)[j + 1] = in.buf[Cell(in.r + (j + 1) - 1)]
        BY <1>10, <3>1
      <3> QED
        BY <3>2, <3>3, <3>4, <3>5, <3>6, Zenon
    <2> QED
      BY <2>1, Zenon
  <1>16. Queue(out) = Tail(Queue(in))
    BY <1>11, <1>13, <1>15, SameEntries, Zenon
  <1> QED
    BY <1>5, <1>8, <1>9, <1>12, <1>14, <1>16

\* The line of a ring ends nothing.
Open(in) == \A k \in 1..Dist(in.e, in.w) : Line(in)[k] \notin {"nl", "eot"}

\* The part of the invariant that is about the readers.
Calls ==
    /\ reader \in [Reader -> Call]
    /\ consLock \in {{}} \cup {{p} : p \in Reader}
    /\ \A p \in Reader :
          /\ reader[p].pc \in {"loop", "sleep"} <=> consLock = {p}
          /\ reader[p].pc \in {"sleep", "asleep"} => NoInput
          /\ GetsCall(reader[p])

\* The invariant falls into a part about the ring and a part about the readers.
LEMMA InvIs == ConsoleInv <=> Ordered(input) /\ Open(input) /\ Calls
  <1>1. ASSUME Ordered(input)
        PROVE  Unfinished <=> Open(input)
    <2>1. \A k \in 1..Dist(input.e, input.w) : Line(input)[k] = At(input.w + k - 1)
      BY DEF Line, Part, At, Cell
    <2> QED
      BY <2>1 DEF Unfinished, Open
  <1>2. ConsoleInv <=> Ordered(input) /\ Unfinished /\ Calls
    BY DEF ConsoleInv, Ordered, Calls
  <1> QED
    BY <1>1, <1>2

\* Control-U empties the line: it holds no newline, so the search stops only
\* at the last committed character.
LEMMA KillDoes ==
    ASSUME Ordered(input), Open(input)
    PROVE  KillLine = [input EXCEPT !.e = Dist(input.e, Dist(input.e, input.w))]
  <1> DEFINE in == input
             l == Dist(in.e, in.w)
             Test(k) == Dist(in.e, k) = in.w \/ At(Dist(in.e, k + 1)) = "nl"
             Stop(k) == /\ Test(k)
                        /\ \A j \in 0..(k - 1) :
                              Dist(in.e, j) # in.w /\ At(Dist(in.e, j + 1)) # "nl"
  <1>1. /\ in.r \in Index /\ in.w \in Index /\ in.e \in Index /\ l \in Nat
        /\ Dist(in.w, in.r) \in Nat /\ Dist(in.e, in.r) \in Nat
        /\ Dist(in.w, in.r) + l = Dist(in.e, in.r)
    BY ONLY Ordered(input), RingParts
  <1>2. INPUT_BUF \in Nat /\ INDEX \in Nat /\ l \in 0..INPUT_BUF /\ l < INDEX
    BY <1>1, ConsoleConstants DEF Ordered
  <1>3. Dist(in.e, l) = in.w
    <2>1. Dist(in.e, l) \in Index /\ Dist(Dist(in.e, l), in.w) = l - l
      BY <1>1, <1>2, BackIs
    <2> QED
      BY <1>1, <2>1, DistIs
  <1>4. ASSUME NEW k \in 0..(l - 1)
        PROVE  Dist(in.e, k) # in.w /\ At(Dist(in.e, k + 1)) # "nl"
    <2>1. Dist(in.e, k) # in.w
      <3>1. Dist(in.e, k) \in Index /\ Dist(Dist(in.e, k), in.w) = l - k
        BY <1>1, <1>2, BackIs
      <3> QED
        BY <1>1, <3>1, DistIs
    <2> DEFINE i == Dist(in.e, k + 1)
               j == l - k
    <2>2. k + 1 \in 0..l /\ j \in 1..l /\ l - (k + 1) = j - 1
      BY <1>1
    <2>3. i \in Index /\ Dist(i, in.w) = j - 1
      BY <1>1, <2>2, BackIs
    <2>4. Cell(i) = Cell(in.w + j - 1)
      <3>1. Cell(i + 0) = Cell(in.w + Dist(i, in.w) + 0)
        BY <1>1, <2>3, CellAlong
      <3>2. i \in Int /\ in.w \in Int /\ j \in Int
        BY <1>1, <1>2, <2>2, <2>3 DEF Index
      <3> HIDE DEF i, j
      <3>3. i + 0 = i /\ in.w + (j - 1) + 0 = in.w + j - 1
        BY <3>2
      <3> QED
        BY <2>3, <3>1, <3>3
    <2>5. Line(in)[j] = At(in.w + j - 1)
      BY <2>2 DEF Line, Part, At, Cell
    <2>6. At(i) = At(in.w + j - 1)
      BY <2>4 DEF At, Cell
    <2>7. Line(in)[j] # "nl"
      BY <2>2 DEF Open
    <2> QED
      BY <2>1, <2>5, <2>6, <2>7
  <1> HIDE DEF l
  <1>5. Stop(l)
    BY <1>3, <1>4
  <1>6. ASSUME NEW k \in 0..INPUT_BUF, Stop(k)
        PROVE  k = l
    <2>1. CASE k < l
      <3>1. k \in 0..(l - 1)
        BY <1>2, <2>1
      <3> QED
        BY <1>4, <1>6, <3>1
    <2>2. CASE l < k
      <3>1. l \in 0..(k - 1)
        BY <1>2, <2>2
      <3> QED
        BY <1>3, <1>6, <3>1
    <2> QED
      BY <1>2, <2>1, <2>2
  <1> HIDE DEF Stop
  <1>7. (CHOOSE k \in 0..INPUT_BUF : Stop(k)) = l
    BY <1>2, <1>5, <1>6
  <1> QED
    BY <1>7, Zenon DEF KillLine, Stop, l

\* What a key does to line and queue.
Erased ==
    /\ input'.w = input.w /\ Queue(input') = Queue(input)
    /\ Line(input) # <<>> /\ Line(input') = SubSeq(Line(input), 1, Len(Line(input)) - 1)

LineKilled == input'.w = input.w /\ Queue(input') = Queue(input) /\ Line(input') = <<>>

Typed(c) ==
    LET l == Append(Line(input), c)
    IN  /\ Len(l) + Len(Queue(input)) <= INPUT_BUF
        /\ IF c \in {"nl", "eot"} \/ Len(l) + Len(Queue(input)) = INPUT_BUF
           THEN /\ input'.w # input.w
                /\ Queue(input') = Queue(input) \o l /\ Line(input') = <<>>
           ELSE /\ input'.w = input.w
                /\ Queue(input') = Queue(input) /\ Line(input') = l

\* A ring whose line is empty, or a prefix of an open one, is open.
LEMMA StaysOpen ==
    ASSUME NEW in, Ordered(in), Open(in), NEW out, Ordered(out),
           NEW j \in 0..Len(Line(in)), Line(out) = SubSeq(Line(in), 1, j)
    PROVE  Open(out)
  <1>1. Line(in) \in Seq(Stored) /\ Len(Line(in)) = Dist(in.e, in.w) /\ Len(Line(in)) \in Nat
    BY ONLY Ordered(in), RingParts
  <1>2. Line(out) \in Seq(Stored) /\ Len(Line(out)) = Dist(out.e, out.w)
    BY ONLY Ordered(out), RingParts
  <1>3. /\ Len(Line(out)) = IF 1 <= j THEN j - 1 + 1 ELSE 0
        /\ \A i \in 1..(j - 1 + 1) : Line(out)[i] = Line(in)[1 + i - 1]
    BY <1>1, SubSeqIs
  <1>4. ASSUME NEW i \in 1..Len(Line(out))
        PROVE  Line(out)[i] \notin {"nl", "eot"}
    <2>1. i \in 1..(j - 1 + 1) /\ i \in 1..Len(Line(in)) /\ 1 + i - 1 = i
      BY <1>1, <1>3
    <2>2. Line(out)[i] = Line(in)[i]
      BY <1>3, <2>1
    <2> QED
      BY <1>1, <2>1, <2>2 DEF Open
  <1> QED
    BY <1>2, <1>4 DEF Open

\* An empty line is open.
LEMMA EmptyIsOpen ==
    ASSUME NEW out, Ordered(out), Line(out) = <<>>
    PROVE  Open(out)
  <1>1. Len(Line(out)) = Dist(out.e, out.w) /\ Len(Line(out)) = 0
    BY ONLY Ordered(out), Line(out) = <<>>, RingParts
  <1> QED
    BY <1>1 DEF Open

\* Control-U in consoleintr().
LEMMA KillKey ==
    ASSUME Ordered(input), Open(input), input' = KillLine
    PROVE  Ordered(input') /\ Open(input') /\ input'.r = input.r /\ LineKilled
  <1> DEFINE l == Dist(input.e, input.w)
  <1>1. l \in Nat /\ Line(input) \in Seq(Stored)
    BY ONLY Ordered(input), RingParts
  <1>2. input' = [input EXCEPT !.e = Dist(input.e, l)] /\ l \in 0..l
    BY <1>1, KillDoes
  <1>3. /\ Ordered(input') /\ input'.w = input.w /\ input'.r = input.r
        /\ Queue(input') = Queue(input) /\ Line(input') = SubSeq(Line(input), 1, l - l)
    BY <1>2, BackRing
  <1>4. Line(input') = <<>>
    BY <1>1, <1>3, SubSeqNone
  <1> QED
    BY <1>3, <1>4, EmptyIsOpen DEF LineKilled

\* Control-H in consoleintr().
LEMMA EraseKey ==
    ASSUME Ordered(input), Open(input), input' = Backspace
    PROVE  /\ Ordered(input') /\ Open(input') /\ input'.r = input.r
           /\ input' = input \/ Erased
  <1> DEFINE l == Dist(input.e, input.w)
  <1>1. /\ l \in Nat /\ Line(input) \in Seq(Stored) /\ Len(Line(input)) = l
        /\ input.e \in Index /\ input.w \in Index
    BY ONLY Ordered(input), RingParts
  <1>2. CASE input.e = input.w
    BY <1>2 DEF Backspace
  <1>3. CASE input.e # input.w
    <2>1. l # 0
      BY <1>1, <1>3, DistIs
    <2>2. 1 \in 0..l /\ l - 1 \in 0..l
      BY <1>1, <2>1
    <2>3. input' = [input EXCEPT !.e = Dist(input.e, 1)]
      BY <1>3 DEF Backspace
    <2>4. /\ Ordered(input') /\ input'.w = input.w /\ input'.r = input.r
          /\ Queue(input') = Queue(input) /\ Line(input') = SubSeq(Line(input), 1, l - 1)
      BY <2>2, <2>3, BackRing, Zenon
    <2>5. Open(input')
      BY <1>1, <2>2, <2>4, StaysOpen
    <2>6. Line(input) # <<>>
      BY <1>1, <2>1
    <2> QED
      BY <1>1, <2>4, <2>5, <2>6 DEF Erased
  <1> QED
    BY <1>2, <1>3

\* Any other key in consoleintr() is dropped or stored, and may end the line.
LEMMA InsertKey ==
    ASSUME Ordered(input), Open(input), NEW k \in Keys, k \notin {"procdump", "kill", "erase"},
           input' = Insert(k)
    PROVE  /\ Ordered(input') /\ Open(input') /\ input'.r = input.r
           /\ input' = input \/ \E c \in Stored : Typed(c)
  <1> DEFINE c == IF k = "cr" THEN "nl" ELSE k
             e == Next1(input.e)
             n == Dist(input.e, input.r)
  <1>1. CASE ~(k # "nul" /\ HasRoom)
    BY <1>1 DEF Insert
  <1>2. CASE k # "nul" /\ HasRoom
    <2> DEFINE ends == Ends(c, e)
               t == Append(Line(input), c)
    <2>1. c \in Stored /\ ends \in BOOLEAN
      BY <1>2 DEF Keys, Stored, Ends
    <2>2. input' = [input EXCEPT !.buf[input.e % INPUT_BUF] = c, !.e = e,
                                 !.w = IF ends THEN e ELSE @]
      BY <1>2 DEF Insert
    <2>3. n < INPUT_BUF
      BY <1>2 DEF HasRoom
    <2>4. /\ Ordered(input') /\ (input'.w = input.w <=> ~ends)
          /\ ends => Queue(input') = Queue(input) \o t /\ Line(input') = <<>>
          /\ ~ends => Queue(input') = Queue(input) /\ Line(input') = t
      <3> HIDE DEF ends, c
      <3> QED
        BY <2>1, <2>2, <2>3, InsertRing, Zenon
    <2>5. /\ Line(input) \in Seq(Stored) /\ Len(Line(input)) = Dist(input.e, input.w)
          /\ Len(Queue(input)) = Dist(input.w, input.r)
          /\ input.e \in Index /\ input.r \in Index
          /\ Dist(input.e, input.w) \in Nat /\ Dist(input.w, input.r) \in Nat /\ n \in Nat
          /\ Dist(input.w, input.r) + Dist(input.e, input.w) = n
      BY ONLY Ordered(input), RingParts
    <2>6. /\ t \in Seq(Stored) /\ Len(t) = Len(Line(input)) + 1
          /\ \A i \in 1..Len(Line(input)) : t[i] = Line(input)[i]
          /\ t[Len(Line(input)) + 1] = c
      BY <2>1, <2>5, AppendIs
    <2>7. Len(t) + Len(Queue(input)) = n + 1
      BY <2>5, <2>6
    <2>8. INPUT_BUF \in Nat /\ INDEX \in Nat /\ n < INDEX - 1
      BY <2>3, <2>5, ConsoleConstants
    <2>9. Dist(e, input.r) = n + 1
      BY <2>5, <2>8, NextIs
    <2>10. ends <=> c \in {"nl", "eot"} \/ Len(t) + Len(Queue(input)) = INPUT_BUF
      BY <2>7, <2>9 DEF Ends
    <2>11. Typed(c)
      <3>1. n + 1 <= INPUT_BUF
        BY <2>3, <2>5, <2>8
      <3> HIDE DEF c, ends, n
      <3> QED
        BY <2>4, <2>7, <2>10, <3>1 DEF Typed
    <2>12. input'.r = input.r
      BY <2>2 DEF Ordered, Ring
    <2>13. Open(input')
      <3>1. CASE ends
        BY <2>4, <3>1, EmptyIsOpen
      <3>2. CASE ~ends
        <4>1. Line(input') = t /\ c \notin {"nl", "eot"}
          BY <2>4, <2>10, <3>2
        <4>2. Len(Line(input')) = Dist(input'.e, input'.w)
          BY ONLY <2>4, RingParts
        <4>3. ASSUME NEW i \in 1..Len(t)
              PROVE  t[i] \notin {"nl", "eot"}
          <5>1. i \in 1..Len(Line(input)) \/ i = Len(Line(input)) + 1
            BY <2>5, <2>6
          <5>2. \A j \in 1..Len(Line(input)) : Line(input)[j] \notin {"nl", "eot"}
            BY <2>5 DEF Open
          <5> HIDE DEF t, c
          <5>3. CASE i \in 1..Len(Line(input))
            <6>1. t[i] = Line(input)[i]
              BY <2>6, <5>3
            <6> QED
              BY <5>2, <5>3, <6>1
          <5>4. CASE i = Len(Line(input)) + 1
            <6>1. t[Len(Line(input)) + 1] = c
              BY <2>6
            <6>2. t[i] = c
              BY <5>4, <6>1
            <6>3. c \notin {"nl", "eot"}
              BY <4>1
            <6> QED
              BY <6>2, <6>3
          <5> QED
            BY <5>1, <5>3, <5>4
        <4> HIDE DEF t
        <4> QED
          BY <4>1, <4>2, <4>3 DEF Open
      <3> QED
        BY <3>1, <3>2
    <2> QED
      BY <2>1, <2>4, <2>11, <2>12, <2>13
  <1> QED
    BY <1>1, <1>2

-----------------------------------------------------------------------------
(* The console: the calls of the readers. *)

\* What each reader's call has taken.
Gots == [p \in Reader |-> reader[p].got]

\* consoleintr() as a whole: one of the effects above, and sleepers woken when w
\* moves.
LEMMA IntrDoes ==
    ASSUME ConsoleInv, NEW k \in Keys, consoleintr(k)
    PROVE  /\ Ordered(input') /\ Open(input')
           /\ input' = input \/ Erased \/ LineKilled \/ \E c \in Stored : Typed(c)
           /\ Calls' /\ Gots' = Gots
  <1>1. Ordered(input) /\ Open(input) /\ Calls
    BY InvIs
  <1>2. /\ Ordered(input') /\ Open(input') /\ input'.r = input.r
        /\ input' = input \/ Erased \/ LineKilled \/ \E c \in Stored : Typed(c)
    <2>1. CASE k = "procdump"
      BY <1>1, <2>1 DEF consoleintr
    <2>2. CASE k = "kill"
      BY <1>1, <2>2, KillKey DEF consoleintr
    <2>3. CASE k = "erase"
      BY <1>1, <2>3, EraseKey DEF consoleintr
    <2>4. CASE k \notin {"procdump", "kill", "erase"}
      BY <1>1, <2>4, InsertKey DEF consoleintr
    <2> QED
      BY <2>1, <2>2, <2>3, <2>4
  <1>3. /\ consLock = {} /\ consLock' = {}
        /\ reader' = [p \in Reader |->
              IF Wakes(input') /\ reader[p].pc = "asleep"
              THEN [reader[p] EXCEPT !.pc = "woken"] ELSE reader[p]]
    BY DEF consoleintr
  <1>4. ASSUME NEW p \in Reader
        PROVE  /\ reader'[p] \in Call /\ reader'[p].got = reader[p].got
               /\ reader'[p].pc \notin {"loop", "sleep"}
               /\ reader'[p].pc = "asleep" => NoInput'
               /\ GetsCall(reader'[p])
    <2>1. reader[p] \in Call /\ reader[p].pc \notin {"loop", "sleep"} /\ GetsCall(reader[p])
          /\ (reader[p].pc = "asleep" => NoInput)
      BY <1>1, <1>3 DEF Calls
    <2>2. CASE Wakes(input') /\ reader[p].pc = "asleep"
      <3>1. reader'[p] = [reader[p] EXCEPT !.pc = "woken"]
        BY <1>3, <2>2
      <3>2. reader'[p] \in Call /\ reader'[p].pc = "woken" /\ reader'[p].got = reader[p].got
            /\ reader'[p].gets = reader[p].gets /\ reader'[p].n = reader[p].n
            /\ reader'[p].line = reader[p].line
        BY <2>1, <3>1 DEF Call, Place
      <3> QED
        BY <2>1, <2>2, <3>2 DEF GetsCall
    <2>3. CASE ~(Wakes(input') /\ reader[p].pc = "asleep")
      <3>1. reader'[p] = reader[p]
        BY <1>3, <2>3
      <3>2. reader[p].pc = "asleep" => input'.w = input.w
        BY <2>3 DEF Wakes
      <3> QED
        BY <1>2, <2>1, <3>1, <3>2 DEF NoInput
    <2> QED
      BY <2>2, <2>3
  <1>5. reader' \in [Reader -> Call]
    BY <1>3, <1>4
  <1>6. Calls'
    BY <1>3, <1>4, <1>5 DEF Calls
  <1>7. Gots' = Gots
    BY <1>4 DEF Gots
  <1> QED
    BY <1>2, <1>6, <1>7

\* One reader's call changes.
LEMMA OneCall ==
    ASSUME Calls, NEW p \in Reader, NEW c \in Call, reader' = [reader EXCEPT ![p] = c],
           GetsCall(c), consLock' \in {{}} \cup {{q} : q \in Reader},
           c.pc \in {"loop", "sleep"} <=> consLock' = {p},
           \A q \in Reader \ {p} : consLock' = {q} <=> consLock = {q},
           c.pc \in {"sleep", "asleep"} => NoInput',
           NoInput => NoInput'
    PROVE  Calls' /\ Gots' = [Gots EXCEPT ![p] = c.got]
  <1>1. reader \in [Reader -> Call]
    BY DEF Calls
  <1>2. reader' \in [Reader -> Call] /\ reader'[p] = c
        /\ \A q \in Reader \ {p} : reader'[q] = reader[q]
    BY <1>1
  <1>3. Gots' = [Gots EXCEPT ![p] = c.got]
    BY <1>1, <1>2, Zenon DEF Gots
  <1>4. ASSUME NEW q \in Reader
        PROVE  /\ reader'[q].pc \in {"loop", "sleep"} <=> consLock' = {q}
               /\ reader'[q].pc \in {"sleep", "asleep"} => NoInput'
               /\ GetsCall(reader'[q])
    <2>1. CASE q = p
      BY <1>2, <2>1
    <2>2. CASE q # p
      <3>1. /\ reader[q].pc \in {"loop", "sleep"} <=> consLock = {q}
            /\ reader[q].pc \in {"sleep", "asleep"} => NoInput
            /\ GetsCall(reader[q])
        BY DEF Calls
      <3>2. reader'[q] = reader[q]
        BY <1>2, <2>2
      <3>3. consLock' = {q} <=> consLock = {q}
        BY <2>2
      <3> QED
        BY <3>1, <3>2, <3>3
    <2> QED
      BY <2>1, <2>2
  <1> QED
    BY <1>2, <1>3, <1>4 DEF Calls

\* The process at a call takes or gives back the lock, or keeps it.
LEMMA LockMoves ==
    ASSUME NEW p \in Reader, consLock \in {{}, {p}}, consLock' \in {{}, {p}}
    PROVE  /\ consLock' \in {{}} \cup {{q} : q \in Reader}
           /\ \A q \in Reader \ {p} : consLock' = {q} <=> consLock = {q}
  OBVIOUS

\* A process outside read() and gets() has a well-formed call record.
LEMMA IdleCall == AtUser \in Call /\ AtUser.line = <<>> /\ AtUser.got = <<>> /\ ~AtUser.gets
                  /\ AtUser.pc = "user"
  <1>1. <<>> \in Seq(Stored)
    BY EmptyIs
  <1> QED
    BY <1>1 DEF AtUser, Call, Place

\* read() and gets() enter consoleread() with nothing taken.
LEMMA ReadDoes ==
    ASSUME ConsoleInv, NEW p \in Reader, read(p)
    PROVE  Calls' /\ Gots' = [Gots EXCEPT ![p] = <<>>] /\ input' = input
  <1>1. Calls
    BY InvIs
  <1>2. consLock = {} /\ consLock' = {p} /\ input' = input
    BY Zenon DEF read
  <1>3. /\ consLock' \in {{}} \cup {{q} : q \in Reader}
        /\ \A q \in Reader \ {p} : consLock' = {q} <=> consLock = {q}
    BY <1>2, LockMoves
  <1>4. NoInput => NoInput'
    BY <1>2 DEF NoInput
  <1>5. PICK c : /\ reader' = [reader EXCEPT ![p] = c]
                 /\ \/ \E n \in ReadSizes : c = [AtUser EXCEPT !.pc = "loop", !.n = n]
                    \/ GetsMax > 1 /\ c = [AtUser EXCEPT !.pc = "loop", !.n = 1, !.gets = TRUE]
    BY Zenon DEF read
  <1>6. c \in Call /\ c.pc = "loop" /\ GetsCall(c) /\ c.got = <<>>
    <2>1. <<>> \in Seq(Stored) /\ Len(<<>>) = 0
      BY EmptyIs
    <2>2. CASE \E n \in ReadSizes : c = [AtUser EXCEPT !.pc = "loop", !.n = n]
      <3>1. PICK n \in ReadSizes : c = [AtUser EXCEPT !.pc = "loop", !.n = n]
        BY <2>2, Zenon
      <3>2. c = [pc |-> "loop", n |-> n, got |-> <<>>, gets |-> FALSE, line |-> <<>>,
                 killed |-> FALSE] /\ n \in Nat
        BY <3>1, ConsoleConstants, Zenon DEF AtUser
      <3> QED
        BY <2>1, <3>2, ConsoleConstants DEF Call, Place, GetsCall
    <2>3. CASE GetsMax > 1 /\ c = [AtUser EXCEPT !.pc = "loop", !.n = 1, !.gets = TRUE]
      <3>1. c = [pc |-> "loop", n |-> 1, got |-> <<>>, gets |-> TRUE, line |-> <<>>,
                 killed |-> FALSE]
        BY <2>3, Zenon DEF AtUser
      <3>2. c \in Call
        BY <2>1, <3>1 DEF Call, Place
      <3>3. c.pc = "loop" /\ c.got = <<>> /\ c.line = <<>> /\ c.n = 1
        BY <3>1
      <3>4. GetsMax \in Nat /\ GetsMax > 1
        BY <2>3, ConsoleConstants
      <3> QED
        BY <2>1, <3>2, <3>3, <3>4 DEF GetsCall
    <2> QED
      BY <1>5, <2>2, <2>3, Zenon
  <1> QED
    BY <1>1, <1>2, <1>3, <1>4, <1>5, <1>6, OneCall, Zenon

\* A step that only moves the call on, and may give back or take the lock.
LEMMA Moves ==
    ASSUME Calls, NEW p \in Reader, NEW c, reader' = [reader EXCEPT ![p] = c],
           c = [reader[p] EXCEPT !.pc = c.pc, !.killed = c.killed],
           c.pc \in Place, c.killed \in BOOLEAN, c.pc \notin {"user", "again"},
           reader[p].pc \notin {"user", "again"},
           consLock' \in {{}} \cup {{q} : q \in Reader},
           c.pc \in {"loop", "sleep"} <=> consLock' = {p},
           \A q \in Reader \ {p} : consLock' = {q} <=> consLock = {q},
           c.pc \in {"sleep", "asleep"} => NoInput, input' = input
    PROVE  Calls' /\ Gots' = Gots
  <1>1. reader[p] \in Call /\ GetsCall(reader[p]) /\ reader \in [Reader -> Call]
    BY DEF Calls
  <1>2. /\ c \in Call /\ c.got = reader[p].got /\ c.n = reader[p].n
        /\ c.gets = reader[p].gets /\ c.line = reader[p].line
    BY <1>1, Zenon DEF Call
  <1>3. GetsCall(c)
    BY <1>1, <1>2 DEF GetsCall
  <1>4. NoInput' <=> NoInput
    BY DEF NoInput
  <1>5. Calls' /\ Gots' = [Gots EXCEPT ![p] = c.got]
    BY <1>2, <1>3, <1>4, OneCall, Zenon
  <1>6. [Gots EXCEPT ![p] = c.got] = Gots
    BY <1>2 DEF Gots
  <1> QED
    BY <1>5, <1>6

\* sleep() gives cons.lock back; the reader has found r == w.
LEMMA SleepDoes ==
    ASSUME ConsoleInv, NEW p \in Reader, consoleread_sleep(p)
    PROVE  Calls' /\ Gots' = Gots /\ input' = input
  <1> DEFINE c == [reader[p] EXCEPT !.pc = "asleep"]
  <1>1. Calls
    BY InvIs
  <1>2. /\ reader[p].pc = "sleep" /\ consLock = {p} /\ consLock' = {} /\ input' = input
        /\ reader' = [reader EXCEPT ![p].pc = "asleep"]
    BY DEF consoleread_sleep, Holds
  <1>3. reader[p] \in Call /\ reader \in [Reader -> Call] /\ NoInput
    BY <1>1, <1>2 DEF Calls
  <1>4. /\ reader' = [reader EXCEPT ![p] = c] /\ c.pc = "asleep" /\ c.killed = reader[p].killed
        /\ c.killed \in BOOLEAN
    BY <1>2, <1>3 DEF Call
  <1>5. c = [reader[p] EXCEPT !.pc = c.pc, !.killed = c.killed]
    BY <1>3, <1>4, Zenon DEF Call
  <1> HIDE DEF c
  <1>6. /\ consLock' \in {{}} \cup {{q} : q \in Reader}
        /\ \A q \in Reader \ {p} : consLock' = {q} <=> consLock = {q}
    BY <1>2, LockMoves
  <1> QED
    BY <1>1, <1>2, <1>3, <1>4, <1>5, <1>6, Moves, Zenon DEF Place

\* A reader that was woken takes cons.lock again.
LEMMA WakeDoes ==
    ASSUME ConsoleInv, NEW p \in Reader, wakes(p)
    PROVE  Calls' /\ Gots' = Gots /\ input' = input
  <1> DEFINE c == [reader[p] EXCEPT !.pc = "loop"]
  <1>1. Calls
    BY InvIs
  <1>2. /\ reader[p].pc = "woken" /\ consLock = {} /\ consLock' = {p} /\ input' = input
        /\ reader' = [reader EXCEPT ![p].pc = "loop"]
    BY DEF wakes
  <1>3. reader[p] \in Call /\ reader \in [Reader -> Call]
    BY <1>1, <1>2 DEF Calls
  <1>4. /\ reader' = [reader EXCEPT ![p] = c] /\ c.pc = "loop" /\ c.killed = reader[p].killed
        /\ c.killed \in BOOLEAN
    BY <1>2, <1>3 DEF Call
  <1>5. c = [reader[p] EXCEPT !.pc = c.pc, !.killed = c.killed]
    BY <1>3, <1>4, Zenon DEF Call
  <1> HIDE DEF c
  <1>6. /\ consLock' \in {{}} \cup {{q} : q \in Reader}
        /\ \A q \in Reader \ {p} : consLock' = {q} <=> consLock = {q}
    BY <1>2, LockMoves
  <1> QED
    BY <1>1, <1>2, <1>3, <1>4, <1>5, <1>6, Moves, Zenon DEF Place

\* kill() marks a reader and wakes it, and takes no character.
LEMMA KillDoesReader ==
    ASSUME ConsoleInv, NEW p \in Reader, kill_reader(p)
    PROVE  Calls' /\ Gots' = Gots /\ input' = input
  <1> DEFINE c == [reader[p] EXCEPT !.killed = TRUE,
                      !.pc = IF reader[p].pc = "asleep" THEN "woken" ELSE reader[p].pc]
  <1>1. Calls
    BY InvIs
  <1>2. /\ reader[p].pc # "user" /\ consLock' = consLock /\ input' = input
        /\ reader' = [reader EXCEPT ![p].killed = TRUE,
                         ![p].pc = IF @ = "asleep" THEN "woken" ELSE @]
    BY DEF kill_reader
  <1>3. reader[p] \in Call /\ reader \in [Reader -> Call]
    BY <1>1 DEF Calls
  <1>4. /\ reader' = [reader EXCEPT ![p] = c]
        /\ c.pc = IF reader[p].pc = "asleep" THEN "woken" ELSE reader[p].pc
        /\ c.got = reader[p].got /\ c.n = reader[p].n
        /\ c.gets = reader[p].gets /\ c.line = reader[p].line
    BY <1>2, <1>3, Zenon DEF Call
  <1>5. c \in Call
    BY <1>3, Zenon DEF Call, Place
  <1> HIDE DEF c
  <1>6. /\ reader[p].pc \in {"loop", "sleep"} <=> consLock = {p}
        /\ reader[p].pc \in {"sleep", "asleep"} => NoInput
        /\ GetsCall(reader[p])
        /\ consLock' \in {{}} \cup {{q} : q \in Reader}
    BY <1>1, <1>2 DEF Calls
  <1>7. GetsCall(c)
    BY <1>2, <1>4, <1>6 DEF GetsCall
  <1>8. NoInput' <=> NoInput
    BY <1>2 DEF NoInput
  <1>9. c.pc \in {"loop", "sleep"} <=> consLock' = {p}
    BY <1>2, <1>4, <1>6
  <1>10. c.pc \in {"sleep", "asleep"} => NoInput'
    BY <1>4, <1>6, <1>8
  <1>11. \A q \in Reader \ {p} : consLock' = {q} <=> consLock = {q}
    BY <1>2
  <1>12. Calls' /\ Gots' = [Gots EXCEPT ![p] = c.got]
    BY <1>1, <1>4, <1>5, <1>6, <1>7, <1>8, <1>9, <1>10, <1>11, OneCall, Zenon
  <1>13. [Gots EXCEPT ![p] = c.got] = Gots
    BY <1>4 DEF Gots
  <1> QED
    BY <1>2, <1>12, <1>13

\* gets() reads its next character.
LEMMA GetsDoes ==
    ASSUME ConsoleInv, NEW p \in Reader, gets(p)
    PROVE  Calls' /\ Gots' = [Gots EXCEPT ![p] = <<>>] /\ input' = input
  <1> DEFINE c == [reader[p] EXCEPT !.pc = "loop", !.n = 1, !.got = <<>>]
  <1>1. Calls
    BY InvIs
  <1>2. /\ reader[p].pc = "again" /\ consLock = {} /\ consLock' = {p} /\ input' = input
        /\ reader' = [reader EXCEPT ![p].pc = "loop", ![p].n = 1, ![p].got = <<>>]
    BY DEF gets
  <1>3. reader[p] \in Call /\ reader \in [Reader -> Call] /\ GetsCall(reader[p])
    BY <1>1 DEF Calls
  <1>4. /\ reader' = [reader EXCEPT ![p] = c]
        /\ c.pc = "loop" /\ c.n = 1 /\ c.got = <<>>
        /\ c.gets = reader[p].gets /\ c.line = reader[p].line
    BY <1>2, <1>3, Zenon DEF Call
  <1>5. <<>> \in Seq(Stored) /\ Len(<<>>) = 0
    BY EmptyIs
  <1>6. c \in Call
    BY <1>3, <1>5, Zenon DEF Call, Place
  <1> HIDE DEF c
  <1>7. GetsCall(c)
    BY <1>2, <1>3, <1>4, <1>5 DEF GetsCall
  <1>8. NoInput => NoInput'
    BY <1>2 DEF NoInput
  <1>9. /\ consLock' \in {{}} \cup {{q} : q \in Reader}
        /\ \A q \in Reader \ {p} : consLock' = {q} <=> consLock = {q}
    BY <1>2, LockMoves
  <1>10. /\ c.pc \in {"loop", "sleep"} <=> consLock' = {p}
         /\ c.pc \in {"sleep", "asleep"} => NoInput'
    BY <1>2, <1>4
  <1>11. Calls' /\ Gots' = [Gots EXCEPT ![p] = c.got]
    BY <1>1, <1>4, <1>6, <1>7, <1>8, <1>9, <1>10, OneCall, Zenon
  <1> QED
    BY <1>2, <1>4, <1>11

\* consoleread() returns what was taken.
LEMMA ReturnDoes ==
    ASSUME Calls, NEW p \in Reader, Holds(p, "loop"), NEW got \in Seq(Stored),
           NEW ok \in BOOLEAN, Returns(p, got, ok),
           reader[p].gets => Len(got) <= 1, NoInput => NoInput'
    PROVE  Calls' /\ Gots' = [Gots EXCEPT ![p] = got]
  <1> DEFINE line == IF reader[p].gets THEN reader[p].line \o got ELSE <<>>
             more == /\ reader[p].gets /\ ok /\ got # <<>> /\ got # <<"nl">>
                     /\ GetsMore(line) /\ ~reader[p].killed
             c == IF more THEN [reader[p] EXCEPT !.pc = "again", !.got = got, !.line = line]
                  ELSE [AtUser EXCEPT !.got = got, !.line = line]
  <1>1. reader[p] \in Call /\ reader \in [Reader -> Call] /\ GetsCall(reader[p])
    BY DEF Calls
  <1>2. consLock = {p} /\ consLock' = {} /\ reader' = [reader EXCEPT ![p] = c]
        /\ reader[p].pc = "loop"
    BY <1>1 DEF Returns, Holds
  <1>3. reader[p].line \in Seq(Stored) /\ reader[p].gets \in BOOLEAN
    BY <1>1 DEF Call
  <1>4. line \in Seq(Stored) /\ Len(line) < GetsMax
    <2>1. <<>> \in Seq(Stored) /\ Len(<<>>) = 0 /\ GetsMax \in Nat \ {0}
      BY EmptyIs, ConsoleConstants
    <2>2. CASE reader[p].gets
      <3>1. /\ line \in Seq(Stored) /\ Len(line) = Len(reader[p].line) + Len(got)
            /\ Len(got) \in Nat /\ Len(reader[p].line) \in Nat
        BY <1>3, <2>2, ConcatIs, LenIs
      <3>2. Len(reader[p].line) + 1 < GetsMax /\ Len(got) <= 1
        BY <1>1, <1>2, <2>2 DEF GetsCall
      <3> QED
        BY <2>1, <3>1, <3>2
    <2>3. CASE ~reader[p].gets
      BY <2>1, <2>3
    <2> QED
      BY <1>3, <2>2, <2>3
  <1> HIDE DEF line
  <1>5. c \in Call /\ c.pc \in {"user", "again"} /\ c.got = got /\ GetsCall(c)
    <2>1. CASE more
      <3>1. c = [reader[p] EXCEPT !.pc = "again", !.got = got, !.line = line]
        BY <2>1
      <3>2. c \in Call /\ c.pc = "again" /\ c.got = got /\ c.line = line
        BY <1>1, <1>4, <3>1, Zenon DEF Call, Place
      <3>3. Len(line) + 1 < GetsMax
        BY <2>1 DEF GetsMore
      <3> QED
        BY <1>4, <3>2, <3>3 DEF GetsCall
    <2>2. CASE ~more
      <3>1. c = [AtUser EXCEPT !.got = got, !.line = line]
        BY <2>2
      <3>2. c \in Call /\ c.pc = "user" /\ c.got = got /\ c.line = line /\ ~c.gets
        BY <1>4, <3>1, IdleCall, Zenon DEF Call
      <3> QED
        BY <1>4, <3>2 DEF GetsCall
    <2> QED
      BY <2>1, <2>2
  <1> HIDE DEF c
  <1>6. /\ consLock' \in {{}} \cup {{q} : q \in Reader}
        /\ \A q \in Reader \ {p} : consLock' = {q} <=> consLock = {q}
    BY <1>2, LockMoves
  <1>7. /\ c.pc \in {"loop", "sleep"} <=> consLock' = {p}
        /\ c.pc \in {"sleep", "asleep"} => NoInput'
    BY <1>2, <1>5
  <1>8. Calls' /\ Gots' = [Gots EXCEPT ![p] = c.got]
    BY <1>2, <1>5, <1>6, <1>7, OneCall, Zenon
  <1> QED
    BY <1>5, <1>8

\* What a call that reads has taken, and what it still asks for.
LEMMA AtLoop ==
    ASSUME Calls, NEW p \in Reader, Holds(p, "loop")
    PROVE  /\ reader[p] \in Call /\ reader \in [Reader -> Call]
           /\ reader[p].got \in Seq(Stored) /\ Len(reader[p].got) \in Nat
           /\ reader[p].n \in Nat /\ reader[p].gets \in BOOLEAN /\ reader[p].killed \in BOOLEAN
           /\ reader[p].gets => Len(reader[p].got) + reader[p].n = 1
           /\ Gots[p] = reader[p].got /\ [Gots EXCEPT ![p] = reader[p].got] = Gots
  <1>1. reader[p] \in Call /\ reader \in [Reader -> Call] /\ GetsCall(reader[p])
    BY DEF Calls
  <1>2. /\ reader[p].got \in Seq(Stored) /\ reader[p].n \in Nat
        /\ reader[p].gets \in BOOLEAN /\ reader[p].killed \in BOOLEAN
    BY <1>1 DEF Call
  <1>3. Len(reader[p].got) \in Nat
    BY <1>2, LenIs
  <1>4. reader[p].gets => Len(reader[p].got) + reader[p].n = 1
    BY <1>1 DEF GetsCall, Holds
  <1>5. Gots[p] = reader[p].got /\ [Gots EXCEPT ![p] = reader[p].got] = Gots
    BY DEF Gots
  <1> QED
    BY <1>1, <1>2, <1>3, <1>4, <1>5

\* consoleread() returns when it has all that was asked for.
LEMMA FullDoes ==
    ASSUME ConsoleInv, NEW p \in Reader, consoleread_full(p)
    PROVE  Calls' /\ Gots' = Gots /\ input' = input
  <1>1. Calls /\ Holds(p, "loop") /\ reader[p].n = 0 /\ Returns(p, reader[p].got, TRUE)
        /\ input' = input
    BY InvIs, Zenon DEF consoleread_full
  <1>2. /\ reader[p].got \in Seq(Stored) /\ Len(reader[p].got) \in Nat /\ reader[p].n \in Nat
        /\ reader[p].gets => Len(reader[p].got) + reader[p].n = 1
        /\ [Gots EXCEPT ![p] = reader[p].got] = Gots
    BY <1>1, AtLoop, Zenon
  <1>3. reader[p].gets => Len(reader[p].got) <= 1
    <2>1. ASSUME NEW i \in Nat, NEW n \in Nat, i + n = 1
          PROVE  i <= 1
      BY <2>1
    <2> QED
      BY <1>2, <2>1
  <1>4. NoInput => NoInput'
    BY <1>1 DEF NoInput
  <1>5. Calls' /\ Gots' = [Gots EXCEPT ![p] = reader[p].got]
    BY <1>1, <1>2, <1>3, <1>4, ReturnDoes, Zenon
  <1> QED
    BY <1>1, <1>2, <1>5

\* consoleread() with r == w: the killed reader returns, another one goes to
\* sleep.
LEMMA WaitDoes ==
    ASSUME ConsoleInv, NEW p \in Reader, consoleread_wait(p)
    PROVE  Calls' /\ Gots' = Gots /\ input' = input
  <1>1. Calls /\ Holds(p, "loop") /\ reader[p].n > 0 /\ NoInput /\ input' = input
    BY InvIs DEF consoleread_wait
  <1>2. /\ reader[p].got \in Seq(Stored) /\ Len(reader[p].got) \in Nat /\ reader[p].n \in Nat
        /\ reader[p].gets => Len(reader[p].got) + reader[p].n = 1
        /\ [Gots EXCEPT ![p] = reader[p].got] = Gots
    BY <1>1, AtLoop
  <1>3. reader[p].gets => Len(reader[p].got) <= 1
    BY <1>1, <1>2
  <1>4. NoInput => NoInput'
    BY <1>1 DEF NoInput
  <1>5. CASE reader[p].killed
    <2>1. Returns(p, reader[p].got, FALSE)
      BY <1>5, Zenon DEF consoleread_wait
    <2>2. Calls' /\ Gots' = [Gots EXCEPT ![p] = reader[p].got]
      BY <1>1, <1>2, <1>3, <1>4, <2>1, ReturnDoes, Zenon
    <2> QED
      BY <1>1, <1>2, <2>2
  <1>6. CASE ~reader[p].killed
    <2> DEFINE c == [reader[p] EXCEPT !.pc = "sleep"]
    <2>1. reader[p] \in Call /\ reader \in [Reader -> Call]
      BY <1>1, AtLoop
    <2>2. reader' = [reader EXCEPT ![p].pc = "sleep"] /\ consLock' = consLock
          /\ consLock = {p} /\ reader[p].pc = "loop"
      BY <1>1, <1>6 DEF consoleread_wait, Holds
    <2>3. /\ reader' = [reader EXCEPT ![p] = c] /\ c.pc = "sleep"
          /\ c.killed = reader[p].killed /\ c.killed \in BOOLEAN
      BY <2>1, <2>2 DEF Call
    <2>4. c = [reader[p] EXCEPT !.pc = c.pc, !.killed = c.killed]
      BY <2>1, <2>3, Zenon DEF Call
    <2> HIDE DEF c
    <2>5. /\ consLock' \in {{}} \cup {{q} : q \in Reader}
          /\ \A q \in Reader \ {p} : consLock' = {q} <=> consLock = {q}
      BY <2>2, LockMoves
    <2> QED
      BY <1>1, <2>2, <2>3, <2>4, <2>5, Moves, Zenon DEF Place
  <1> QED
    BY <1>5, <1>6

\* What consoleread() takes from the queue.
Ended(p) ==
    /\ Queue(input) # <<>> /\ Head(Queue(input)) = "eot" /\ Gots[p] = <<>>
    /\ Queue(input') = Tail(Queue(input)) /\ Line(input') = Line(input) /\ Gots' = Gots

Taken(p) ==
    /\ Queue(input) # <<>> /\ Head(Queue(input)) # "eot"
    /\ Gots' = [Gots EXCEPT ![p] = Append(Gots[p], Head(Queue(input)))]
    /\ Queue(input') = Tail(Queue(input)) /\ Line(input') = Line(input)

\* consoleread() takes the head of the queue, or leaves an end of file for
\* later.
LEMMA CharDoes ==
    ASSUME ConsoleInv, NEW p \in Reader, consoleread_char(p)
    PROVE  /\ Ordered(input') /\ Open(input') /\ Calls'
           /\ (input' = input /\ Gots' = Gots) \/ Ended(p) \/ Taken(p)
  <1> DEFINE c == At(input.r)
             got == Append(reader[p].got, c)
             rest == [input EXCEPT !.r = Next1(input.r)]
  <1>1. Ordered(input) /\ Open(input) /\ Calls /\ Holds(p, "loop") /\ reader[p].n > 0 /\ ~NoInput
    BY InvIs DEF consoleread_char
  <1>2. /\ Ordered(rest) /\ rest.w = input.w /\ rest.e = input.e /\ rest.buf = input.buf
        /\ Queue(input) # <<>> /\ Head(Queue(input)) = c
        /\ Queue(rest) = Tail(Queue(input)) /\ Line(rest) = Line(input)
    <2>1. input.r # input.w
      BY <1>1 DEF NoInput
    <2>2. c = input.buf[Cell(input.r)]
      BY DEF At, Cell
    <2> QED
      BY <1>1, <2>1, <2>2, TakeRing
  <1>3. Open(rest)
    BY <1>1, <1>2 DEF Open
  <1>4. c \in Stored
    <2>1. Queue(input) \in Seq(Stored)
      BY ONLY <1>1, RingParts
    <2> QED
      BY <1>2, <2>1, TailIs
  <1> HIDE DEF c, rest
  <1>5. \/ /\ c = "eot" /\ input' = (IF reader[p].got = <<>> THEN rest ELSE input)
           /\ Returns(p, reader[p].got, TRUE)
        \/ c = "nl" /\ input' = rest /\ Returns(p, got, TRUE)
        \/ /\ c \notin {"eot", "nl"} /\ input' = rest /\ consLock' = consLock
           /\ reader' = [reader EXCEPT ![p].n = @ - 1, ![p].got = got]
    BY Zenon DEF consoleread_char, c, rest
  <1>6. /\ reader[p] \in Call /\ reader \in [Reader -> Call]
        /\ reader[p].got \in Seq(Stored) /\ Len(reader[p].got) \in Nat
        /\ reader[p].n \in Nat /\ reader[p].gets \in BOOLEAN
        /\ reader[p].gets => Len(reader[p].got) + reader[p].n = 1
        /\ Gots[p] = reader[p].got /\ [Gots EXCEPT ![p] = reader[p].got] = Gots
    BY <1>1, AtLoop
  <1>7. got \in Seq(Stored) /\ Len(got) = Len(reader[p].got) + 1
    BY <1>4, <1>6, AppendIs
  <1>8. /\ reader[p].gets => Len(reader[p].got) <= 1 /\ Len(got) <= 1
    BY <1>1, <1>6, <1>7
  <1>9. NoInput => NoInput'
    BY <1>1
  <1>10. CASE c = "eot"
    <2>1. Returns(p, reader[p].got, TRUE) /\ input' = (IF reader[p].got = <<>> THEN rest ELSE input)
      BY <1>5, <1>10, Zenon
    <2>2. Calls' /\ Gots' = [Gots EXCEPT ![p] = reader[p].got]
      BY <1>1, <1>6, <1>8, <1>9, <2>1, ReturnDoes, Zenon
    <2>3. CASE reader[p].got = <<>>
      BY <1>2, <1>3, <1>6, <1>10, <2>1, <2>2, <2>3 DEF Ended
    <2>4. CASE reader[p].got # <<>>
      BY <1>1, <1>6, <2>1, <2>2, <2>4
    <2> QED
      BY <2>3, <2>4
  <1>11. CASE c = "nl"
    <2>1. Returns(p, got, TRUE) /\ input' = rest
      BY <1>5, <1>11, Zenon
    <2>2. Calls' /\ Gots' = [Gots EXCEPT ![p] = got]
      BY <1>1, <1>7, <1>8, <1>9, <2>1, ReturnDoes, Zenon
    <2> QED
      BY <1>2, <1>3, <1>6, <1>11, <2>1, <2>2, Zenon DEF Taken
  <1>12. CASE c \notin {"eot", "nl"}
    <2> DEFINE d == [reader[p] EXCEPT !.n = reader[p].n - 1, !.got = got]
    <2>1. /\ input' = rest /\ consLock' = consLock /\ consLock = {p} /\ reader[p].pc = "loop"
          /\ reader' = [reader EXCEPT ![p].n = @ - 1, ![p].got = got]
      BY <1>1, <1>5, <1>12, Zenon DEF Holds
    <2>2. /\ reader' = [reader EXCEPT ![p] = d] /\ d.pc = "loop" /\ d.got = got
          /\ d.n = reader[p].n - 1 /\ d.gets = reader[p].gets /\ d.line = reader[p].line
      BY <1>6, <2>1 DEF Call
    <2>3. d \in Call
      <3>1. reader[p].n - 1 \in Nat
        BY <1>1, <1>6
      <3> QED
        BY <1>6, <1>7, <3>1, Zenon DEF Call
    <2> HIDE DEF d, got
    <2>4. GetsCall(reader[p])
      BY <1>1 DEF Calls
    <2>5. d.gets => Len(d.got) + d.n = 1
      BY <1>6, <1>7, <2>2
    <2>6. GetsCall(d)
      BY <2>1, <2>2, <2>4, <2>5 DEF GetsCall
    <2>7. /\ consLock' \in {{}} \cup {{q} : q \in Reader}
          /\ \A q \in Reader \ {p} : consLock' = {q} <=> consLock = {q}
      BY <2>1, LockMoves
    <2>8. /\ d.pc \in {"loop", "sleep"} <=> consLock' = {p}
          /\ d.pc \in {"sleep", "asleep"} => NoInput'
      BY <2>1, <2>2
    <2>9. Calls' /\ Gots' = [Gots EXCEPT ![p] = d.got]
      BY <1>1, <1>9, <2>2, <2>3, <2>6, <2>7, <2>8, OneCall, Zenon
    <2> QED
      BY <1>2, <1>3, <1>6, <1>12, <2>1, <2>2, <2>9, Zenon DEF Taken, got
  <1> QED
    BY <1>10, <1>11, <1>12

-----------------------------------------------------------------------------
(* The console: the theorems. *)

Parts == Ordered(input) /\ Open(input) /\ Calls

\* The same after a step.
LEMMA InvIsNext == ConsoleInv' <=> Ordered(input') /\ Open(input') /\ Calls'
  <1>1. ConsoleInv <=> Parts
    BY InvIs DEF Parts
  <1>2. ConsoleInv' <=> Parts'
    BY <1>1, PTL
  <1> QED
    BY <1>2 DEF Parts

\* consoleinit() leaves a state that satisfies the invariant.
LEMMA ConsoleStart == ConsoleInit => ConsoleInv
  <1> SUFFICES ASSUME ConsoleInit
               PROVE  ConsoleInv
    OBVIOUS
  <1>1. INPUT_BUF \in Nat \ {0} /\ INDEX \in Nat /\ INPUT_BUF < INDEX /\ GetsMax \in Nat \ {0}
    BY ConsoleConstants
  <1>2. /\ input.buf = [i \in 0..(INPUT_BUF - 1) |-> "nl"]
        /\ input.r = 0 /\ input.w = 0 /\ input.e = 0 /\ consLock = {}
        /\ input \in Ring
    BY <1>1 DEF ConsoleInit, Ring, Index, Stored
  <1>3. Dist(0, 0) = 0
    BY <1>1, DistIs DEF Index
  <1>4. Unfinished
    BY <1>2, <1>3 DEF Unfinished
  <1>5. ASSUME NEW p \in Reader
        PROVE  reader[p] = AtUser /\ reader[p].pc = "user" /\ GetsCall(reader[p])
    <2>1. reader[p] = AtUser /\ Len(<<>>) = 0
      BY EmptyIs DEF ConsoleInit
    <2> QED
      BY <1>1, <2>1, IdleCall DEF GetsCall
  <1>6. reader \in [Reader -> Call]
    BY IdleCall DEF ConsoleInit
  <1>7. ASSUME NEW p \in Reader
        PROVE  ~(reader[p].pc \in {"loop", "sleep"}) /\ consLock # {p}
    BY <1>2, <1>5
  <1>8. \A p \in Reader :
          /\ reader[p].pc \in {"loop", "sleep"} <=> consLock = {p}
          /\ reader[p].pc \in {"sleep", "asleep"} => NoInput
          /\ GetsCall(reader[p])
    BY <1>5, <1>7
  <1> QED
    BY <1>1, <1>2, <1>3, <1>4, <1>6, <1>8 DEF ConsoleInv

\* Every key and every step of a reader keeps the invariant.
LEMMA ConsoleStep == ConsoleInv /\ [ConsoleNext]_consoleVars => ConsoleInv'
  <1> SUFFICES ASSUME ConsoleInv, [ConsoleNext]_consoleVars
               PROVE  Ordered(input') /\ Open(input') /\ Calls'
    BY InvIsNext
  <1>1. Ordered(input) /\ Open(input) /\ Calls
    BY InvIs
  <1>2. ASSUME NEW k \in Keys, consoleintr(k)
        PROVE  Ordered(input') /\ Open(input') /\ Calls'
    BY <1>2, IntrDoes
  <1>3. ASSUME NEW p \in Reader, consoleread_char(p)
        PROVE  Ordered(input') /\ Open(input') /\ Calls'
    BY <1>3, CharDoes
  <1>4. ASSUME NEW p \in Reader,
               \/ read(p) \/ gets(p) \/ consoleread_wait(p) \/ consoleread_sleep(p) \/ wakes(p)
               \/ consoleread_full(p) \/ kill_reader(p)
        PROVE  Ordered(input') /\ Open(input') /\ Calls'
    <2>1. Calls' /\ input' = input
      BY <1>4, ReadDoes, GetsDoes, WaitDoes, SleepDoes, WakeDoes, FullDoes, KillDoesReader
    <2> QED
      BY <1>1, <2>1
  <1>5. CASE UNCHANGED consoleVars
    <2>1. input' = input /\ reader' = reader /\ consLock' = consLock
      BY <1>5 DEF consoleVars
    <2> QED
      BY <1>1, <2>1 DEF Calls, NoInput
  <1> QED
    BY <1>2, <1>3, <1>4, <1>5 DEF ConsoleNext

(***************************************************************************)
(* In every reachable state the indexes are in order and at most a ring    *)
(* apart, the characters that can still be erased end no line, cons.lock   *)
(* is held by the reader inside consoleread() and by nobody else, and a    *)
(* reader about to sleep or asleep has found r == w (console.c:190-268).   *)
(***************************************************************************)
THEOREM ConsoleInvariance == ConsoleSpec => []ConsoleInv
  BY ConsoleStart, ConsoleStep, PTL DEF ConsoleSpec

(***************************************************************************)
(* No reader sleeps while there is something to read, and neither the ring *)
(* of console.c nor the buffer of gets() (ulib.c) is overrun: for every    *)
(* size of ring and of index, and any number of readers.                   *)
(***************************************************************************)
THEOREM ConsoleWakes == ConsoleSpec => []InputWakes
  <1>1. ConsoleInv => InputWakes
    <2> SUFFICES ASSUME ConsoleInv
                 PROVE  InputWakes
      OBVIOUS
    <2>1. /\ input.buf \in [0..(INPUT_BUF - 1) -> Stored]
          /\ {input.r, input.w, input.e} \subseteq 0..(INDEX - 1)
      BY DEF ConsoleInv, Ring, Index
    <2>2. ASSUME NEW p \in Reader
          PROVE  /\ reader[p].pc \in {"user", "loop", "sleep", "asleep", "woken", "again"}
                 /\ Len(reader[p].line) < GetsMax
                 /\ reader[p].pc = "asleep" => NoInput
      <3>1. reader[p] \in Call
        BY DEF ConsoleInv
      <3>2. reader[p].pc \in Place
        BY <3>1 DEF Call
      <3> QED
        BY <3>2 DEF ConsoleInv, GetsCall, Place
    <2> QED
      BY <2>1, <2>2 DEF InputWakes, ConsoleTypeOK, ConsoleInv
  <1> QED
    BY <1>1, ConsoleInvariance, PTL

-----------------------------------------------------------------------------
\* The refinement mapping in the terms of the lemmas.
LEMMA Views ==
    /\ Content(input.w, input.e) = Line(input) /\ Content(input.r, input.w) = Queue(input)
    /\ (Content(input.w, input.e))' = Line(input')
    /\ (Content(input.r, input.w))' = Queue(input')
    /\ [p \in Reader |-> reader[p].got] = Gots
    /\ ([p \in Reader |-> reader[p].got])' = Gots'
  BY DEF Content, At, Line, Queue, Part, Cell, Gots

\* A key that is stored is a character typed.
LEMMA TypedIs ==
    ASSUME NEW c \in Stored, Typed(c), Gots' = Gots
    PROVE  Terminal!Type(c)
  BY Views DEF Typed, Terminal!Type

\* Every step of the driver is a step of Lines or leaves it unchanged.
LEMMA TerminalStep ==
    ConsoleInv /\ [ConsoleNext]_consoleVars => [Terminal!Next]_(Terminal!vars)
  <1> SUFFICES ASSUME ConsoleInv, [ConsoleNext]_consoleVars
               PROVE  [Terminal!Next]_(Terminal!vars)
    OBVIOUS
  <1>1. ASSUME Line(input') = Line(input), Queue(input') = Queue(input), Gots' = Gots
        PROVE  UNCHANGED Terminal!vars
    BY <1>1, Views DEF Terminal!vars
  <1>2. ASSUME NEW k \in Keys, consoleintr(k)
        PROVE  [Terminal!Next]_(Terminal!vars)
    <2>1. /\ input' = input \/ Erased \/ LineKilled \/ \E c \in Stored : Typed(c)
          /\ Gots' = Gots
      BY <1>2, IntrDoes
    <2>2. CASE input' = input
      BY <1>1, <2>1, <2>2
    <2>3. CASE Erased
      <3>1. Terminal!Erase
        BY <2>1, <2>3, Views DEF Erased, Terminal!Erase
      <3> QED
        BY <3>1 DEF Terminal!Next
    <2>4. CASE LineKilled
      <3>1. Terminal!KillLine
        BY <2>1, <2>4, Views DEF LineKilled, Terminal!KillLine
      <3> QED
        BY <3>1 DEF Terminal!Next
    <2>5. CASE \E c \in Stored : Typed(c)
      <3>1. PICK c \in Stored : Terminal!Type(c)
        BY <2>1, <2>5, TypedIs
      <3> QED
        BY <3>1 DEF Terminal!Next, Stored
    <2> QED
      BY <2>1, <2>2, <2>3, <2>4, <2>5
  <1>3. ASSUME NEW p \in Reader, consoleread_char(p)
        PROVE  [Terminal!Next]_(Terminal!vars)
    <2>1. (input' = input /\ Gots' = Gots) \/ Ended(p) \/ Taken(p)
      BY <1>3, CharDoes
    <2>2. CASE input' = input /\ Gots' = Gots
      BY <1>1, <2>2
    <2>3. CASE Ended(p)
      <3>1. Terminal!EndOfFile(p)
        BY <2>3, Views DEF Ended, Terminal!EndOfFile
      <3> QED
        BY <3>1 DEF Terminal!Next
    <2>4. CASE Taken(p)
      <3>1. Terminal!Take(p)
        BY <2>4, Views, Zenon DEF Taken, Terminal!Take
      <3> QED
        BY <3>1 DEF Terminal!Next
    <2> QED
      BY <2>1, <2>2, <2>3, <2>4
  <1>4. ASSUME NEW p \in Reader, read(p) \/ gets(p)
        PROVE  [Terminal!Next]_(Terminal!vars)
    <2>1. Gots' = [Gots EXCEPT ![p] = <<>>] /\ input' = input
      BY <1>4, ReadDoes, GetsDoes
    <2>2. Terminal!Begin(p)
      BY <2>1, Views DEF Terminal!Begin
    <2> QED
      BY <2>2 DEF Terminal!Next
  <1>5. ASSUME NEW p \in Reader,
               \/ consoleread_wait(p) \/ consoleread_sleep(p) \/ wakes(p)
               \/ consoleread_full(p) \/ kill_reader(p)
        PROVE  [Terminal!Next]_(Terminal!vars)
    <2>1. Gots' = Gots /\ input' = input
      BY <1>5, WaitDoes, SleepDoes, WakeDoes, FullDoes, KillDoesReader
    <2> QED
      BY <1>1, <2>1
  <1>6. CASE UNCHANGED consoleVars
    <2>1. input' = input /\ Gots' = Gots
      BY <1>6 DEF consoleVars, Gots
    <2> QED
      BY <1>1, <2>1
  <1> QED
    BY <1>2, <1>3, <1>4, <1>5, <1>6 DEF ConsoleNext

(***************************************************************************)
(* The console driver implements Lines: what a program can read is never   *)
(* edited, overwritten, lost or reordered, and an end of file is a read of *)
(* nothing, also when the unsigned indexes wrap (console.c:190-268).       *)
(***************************************************************************)
THEOREM ConsoleIsTerminal == ConsoleSpec => IsTerminal
  <1>1. ConsoleInit => Terminal!Init
    <2> SUFFICES ASSUME ConsoleInit
                 PROVE  Terminal!Init
      OBVIOUS
    <2>1. Ordered(input) /\ input.r = 0 /\ input.w = 0 /\ input.e = 0
      BY ConsoleStart, InvIs DEF ConsoleInit
    <2>2. Dist(0, 0) = 0
      BY <2>1, DistIs DEF Ordered, Ring
    <2>3. /\ Line(input) \in Seq(Stored) /\ Len(Line(input)) = Dist(input.e, input.w)
          /\ Queue(input) \in Seq(Stored) /\ Len(Queue(input)) = Dist(input.w, input.r)
      BY ONLY <2>1, RingParts
    <2>4. Line(input) = <<>> /\ Queue(input) = <<>>
      BY <2>1, <2>2, <2>3
    <2>5. Gots = [p \in Reader |-> <<>>]
      BY IdleCall DEF Gots, ConsoleInit
    <2> QED
      BY <2>4, <2>5, Views DEF Terminal!Init
  <1> QED
    BY <1>1, TerminalStep, ConsoleInvariance, PTL DEF ConsoleSpec, IsTerminal, Terminal!Spec

=============================================================================
