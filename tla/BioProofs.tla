----------------------------- MODULE BioProofs ------------------------------
(***************************************************************************)
(* The inductive invariant of the buffer cache and the disk driver: every  *)
(* step keeps it, for any number of buffers, hands and blocks.             *)
(***************************************************************************)
EXTENDS Bio, DataLemmas

\* The provers: Zenon where nothing else is named, SMT where a step needs arithmetic
\* or much case analysis.
USE Zenon

-----------------------------------------------------------------------------
(* The queue of the driver and the list of the cache *)

\* The elements of a sequence.
LEMMA Elements ==
    ASSUME NEW T, NEW s \in Seq(T)
    PROVE  /\ Range(s) = {s[i] : i \in 1..Len(s)}
           /\ Range(s) \subseteq T
           /\ IsInjective(s) <=> \A i, j \in 1..Len(s) : s[i] = s[j] => i = j
           /\ s # <<>> => Head(s) = s[1] /\ Head(s) \in Range(s)
  <1>1. Len(s) \in Nat /\ DOMAIN s = 1..Len(s) /\ \A i \in 1..Len(s) : s[i] \in T
    BY LenIs
  <1>2. s # <<>> => Head(s) = s[1] /\ 1 \in 1..Len(s)
    BY <1>1, EmptyIs, SMT
  <1> QED
    BY <1>1, <1>2 DEF Range, IsInjective

\* ideintr() takes the request at the head off the queue.
LEMMA Dequeue ==
    ASSUME NEW s \in Seq(Buf), s # <<>>, IsInjective(s)
    PROVE  /\ Tail(s) \in Seq(Buf) /\ IsInjective(Tail(s))
           /\ Head(s) \in Buf /\ Head(s) \in Range(s)
           /\ Range(Tail(s)) = Range(s) \ {Head(s)}
           /\ Tail(s) # <<>> => Head(Tail(s)) \in Range(s) \ {Head(s)}
  <1>1. /\ Len(s) \in Nat \ {0} /\ Tail(s) \in Seq(Buf) /\ Len(Tail(s)) = Len(s) - 1
        /\ \A i \in 1..(Len(s) - 1) : Tail(s)[i] = s[i + 1]
        /\ Head(s) = s[1]
    BY TailIs, SMT
  <1>2. /\ Range(s) = {s[i] : i \in 1..Len(s)}
        /\ \A i, j \in 1..Len(s) : s[i] = s[j] => i = j
    BY Elements
  <1>3. /\ Range(Tail(s)) = {Tail(s)[i] : i \in 1..(Len(s) - 1)}
        /\ \A i, j \in 1..(Len(s) - 1) : Tail(s)[i] = Tail(s)[j] => i = j
    <2>1. Range(Tail(s)) = {Tail(s)[i] : i \in 1..(Len(s) - 1)}
      BY <1>1, Elements, ZenonT(40)
    <2>2. ASSUME NEW i \in 1..(Len(s) - 1), NEW j \in 1..(Len(s) - 1), Tail(s)[i] = Tail(s)[j]
          PROVE  i = j
      <3>1. i + 1 \in 1..Len(s) /\ j + 1 \in 1..Len(s)
        BY <1>1, SMT
      <3>2. s[i + 1] = s[j + 1]
        BY <1>1, <2>2
      <3> QED
        BY <1>2, <3>1, <3>2, SMT
    <2> QED
      BY <2>1, <2>2
  <1>4. IsInjective(Tail(s))
    BY <1>1, <1>3, Elements
  <1>5. Range(Tail(s)) = Range(s) \ {Head(s)}
    <2>1. ASSUME NEW x \in Range(Tail(s))
          PROVE  x \in Range(s) \ {Head(s)}
      <3>1. PICK i \in 1..(Len(s) - 1) : x = s[i + 1]
        BY <1>1, <1>3, SMT
      <3> QED
        BY <1>1, <1>2, <3>1, SMT
    <2>2. ASSUME NEW x \in Range(s) \ {Head(s)}
          PROVE  x \in Range(Tail(s))
      <3>1. PICK i \in 1..Len(s) : x = s[i] /\ i # 1
        BY <1>1, <1>2, SMT
      <3>2. i - 1 \in 1..(Len(s) - 1) /\ x = Tail(s)[i - 1]
        BY <1>1, <3>1, SMT
      <3> QED
        BY <1>3, <3>2
    <2> QED
      BY <2>1, <2>2
  <1>6. Head(s) \in Buf /\ Head(s) \in Range(s)
    BY <1>1, <1>2, SMT
  <1>7. Tail(s) # <<>> => Head(Tail(s)) \in Range(Tail(s))
    BY <1>1, Elements
  <1> QED
    BY <1>1, <1>4, <1>5, <1>6, <1>7

\* iderw() appends a request.
LEMMA Enqueue ==
    ASSUME NEW s \in Seq(Buf), NEW b \in Buf, IsInjective(s), b \notin Range(s)
    PROVE  /\ Append(s, b) \in Seq(Buf) /\ IsInjective(Append(s, b))
           /\ Range(Append(s, b)) = Range(s) \cup {b}
           /\ Append(s, b) # <<>>
           /\ Head(Append(s, b)) = IF s = <<>> THEN b ELSE Head(s)
  <1>1. /\ Append(s, b) \in Seq(Buf) /\ Len(Append(s, b)) = Len(s) + 1 /\ Len(s) \in Nat
        /\ \A i \in 1..Len(s) : Append(s, b)[i] = s[i]
        /\ Append(s, b)[Len(s) + 1] = b /\ Append(s, b) # <<>>
    BY AppendIs, SMT
  <1>2. /\ Range(s) = {s[i] : i \in 1..Len(s)}
        /\ \A i, j \in 1..Len(s) : s[i] = s[j] => i = j
    BY Elements
  <1>3. \A i \in 1..(Len(s) + 1) : i \in 1..Len(s) \/ i = Len(s) + 1
    BY <1>1, SMT
  <1>4. \A i, j \in 1..(Len(s) + 1) : Append(s, b)[i] = Append(s, b)[j] => i = j
    BY <1>1, <1>2, <1>3, SMT
  <1>5. Range(Append(s, b)) = Range(s) \cup {b}
    <2>1. Range(Append(s, b)) = {Append(s, b)[i] : i \in 1..(Len(s) + 1)}
      BY <1>1, Elements, ZenonT(40)
    <2>2. ASSUME NEW x \in Range(Append(s, b))
          PROVE  x \in Range(s) \cup {b}
      <3>1. PICK i \in 1..(Len(s) + 1) : x = Append(s, b)[i]
        BY <2>1
      <3> QED
        BY <1>1, <1>2, <1>3, <3>1
    <2>3. ASSUME NEW i \in 1..Len(s)
          PROVE  s[i] \in Range(Append(s, b))
      <3>1. i \in 1..(Len(s) + 1)
        BY <1>1, SMT
      <3> QED
        BY <1>1, <2>1, <3>1
    <2>4. b \in Range(Append(s, b))
      <3>1. Len(s) + 1 \in 1..(Len(s) + 1)
        BY <1>1, SMT
      <3> QED
        BY <1>1, <2>1, <3>1
    <2> QED
      BY <1>2, <2>2, <2>3, <2>4, SMT
  <1>6. IsInjective(Append(s, b))
    BY <1>1, <1>4, Elements
  <1>7. Head(Append(s, b)) = IF s = <<>> THEN b ELSE Head(s)
    BY TailOfAppend
  <1> QED
    BY <1>1, <1>5, <1>6, <1>7

\* brelse() keeps it one.
LEMMA ListKept ==
    ASSUME lru \in Seq(Buf), IsInjective(lru), Range(lru) = Buf, NEW b \in Buf, MoveToFront(b)
    PROVE  lru' \in Seq(Buf) /\ IsInjective(lru') /\ Range(lru') = Buf
  <1> DEFINE n == Len(lru)
  <1>1. /\ lru \in Seq(Buf) /\ Len(lru) = n /\ n \in Nat
        /\ \A i, j \in 1..n : lru[i] = lru[j] => i = j
    BY Elements, LenIs
  <1>2. PICK i \in 1..n :
            /\ lru[i] = b
            /\ lru' = <<b>> \o (SubSeq(lru, 1, i - 1) \o SubSeq(lru, i + 1, Len(lru)))
    <2>1. DOMAIN lru = 1..n
      BY <1>1, LenIs
    <2> HIDE DEF n
    <2>2. \E i \in 1..n :
             /\ lru[i] = b
             /\ lru' = <<b>> \o (SubSeq(lru, 1, i - 1) \o SubSeq(lru, i + 1, Len(lru)))
      BY <2>1 DEF MoveToFront
    <2> QED
      BY <2>2
  <1> DEFINE front == SubSeq(lru, 1, i - 1)
             back == SubSeq(lru, i + 1, n)
             rest == front \o back
  <1>3. /\ front \in Seq(Buf) /\ Len(front) = i - 1
        /\ \A k \in 1..(i - 1) : front[k] = lru[k]
    BY <1>1, <1>2, SubSeqIs, SMT
  <1>4. /\ back \in Seq(Buf) /\ Len(back) = n - i
        /\ \A k \in 1..(n - i) : back[k] = lru[i + k]
    BY <1>1, <1>2, SubSeqIs, SMT
  <1> HIDE DEF n, front, back
  <1>5. /\ rest \in Seq(Buf) /\ Len(rest) = n - 1
        /\ \A k \in 1..(n - 1) : rest[k] = IF k < i THEN lru[k] ELSE lru[k + 1]
    <2>1. /\ rest \in Seq(Buf) /\ Len(rest) = Len(front) + Len(back)
          /\ \A k \in 1..(Len(front) + Len(back)) :
                rest[k] = IF k <= Len(front) THEN front[k] ELSE back[k - Len(front)]
      BY <1>3, <1>4, ConcatIs
    <2>2. ASSUME NEW k \in 1..(n - 1)
          PROVE  rest[k] = IF k < i THEN lru[k] ELSE lru[k + 1]
      <3> HIDE DEF rest
      <3>1. CASE k < i
        BY <1>1, <1>2, <1>3, <1>4, <2>1, <3>1, SMT
      <3>2. CASE ~(k < i)
        <4>1. k - (i - 1) \in 1..(n - i) /\ i + (k - (i - 1)) = k + 1
          BY <1>1, <1>2, <3>2, SMT
        <4> QED
          BY <1>1, <1>2, <1>3, <1>4, <2>1, <3>2, <4>1, SMT
      <3> QED
        BY <3>1, <3>2
    <2> HIDE DEF rest
    <2>3. Len(rest) = n - 1
      BY <1>1, <1>2, <1>3, <1>4, <2>1, SMT
    <2> QED
      BY <2>1, <2>2, <2>3
  <1>6. lru' = <<b>> \o rest
    BY <1>1, <1>2 DEF front, back, n
  <1> HIDE DEF rest
  <1>7. /\ lru' \in Seq(Buf) /\ Len(lru') = n
        /\ \A k \in 1..n : lru'[k] = IF k = 1 THEN b ELSE rest[k - 1]
    <2>1. <<b>> \in Seq(Buf) /\ Len(<<b>>) = 1 /\ <<b>>[1] = b
      BY SMT
    <2>2. /\ lru' \in Seq(Buf) /\ Len(lru') = Len(<<b>>) + Len(rest)
          /\ \A k \in 1..(Len(<<b>>) + Len(rest)) :
                lru'[k] = IF k <= Len(<<b>>) THEN <<b>>[k] ELSE rest[k - Len(<<b>>)]
      BY <1>5, <1>6, <2>1, ConcatIs, SMT
    <2>3. Len(lru') = n
      BY <1>1, <1>2, <1>5, <2>1, <2>2, SMT
    <2>4. ASSUME NEW k \in 1..n
          PROVE  lru'[k] = IF k = 1 THEN b ELSE rest[k - 1]
      <3>1. k \in 1..(Len(<<b>>) + Len(rest)) /\ (k <= 1 <=> k = 1)
        BY <1>1, <1>2, <1>5, <2>1, SMT
      <3> QED
        BY <2>1, <2>2, <3>1
    <2> QED
      BY <2>2, <2>3, <2>4
  <1>8. \A k \in 1..n : lru'[k] = IF k = 1 THEN b ELSE IF k <= i THEN lru[k - 1] ELSE lru[k]
    <2>1. ASSUME NEW k \in 1..n
          PROVE  lru'[k] = IF k = 1 THEN b ELSE IF k <= i THEN lru[k - 1] ELSE lru[k]
      <3>1. CASE k = 1
        BY <1>7, <3>1
      <3>2. CASE k # 1
        <4>1. k - 1 \in 1..(n - 1) /\ (k - 1 < i <=> k <= i) /\ (k - 1) + 1 = k
          BY <1>1, <1>2, <3>2, SMT
        <4>2. rest[k - 1] = IF k <= i THEN lru[k - 1] ELSE lru[k]
          BY <1>5, <4>1
        <4> QED
          BY <1>7, <3>2, <4>2
      <3> QED
        BY <3>1, <3>2
    <2> QED
      BY <2>1
  <1>9. \A j, k \in 1..n : lru'[j] = lru'[k] => j = k
    <2>1. ASSUME NEW j \in 1..n, NEW k \in 1..n, j < k
          PROVE  lru'[j] # lru'[k]
      <3> DEFINE at(x) == IF x = 1 THEN i ELSE IF x <= i THEN x - 1 ELSE x
      <3>1. at(j) \in 1..n /\ at(k) \in 1..n /\ at(j) # at(k)
        BY <1>1, <1>2, <2>1, SMT
      <3>2. lru'[j] = lru[at(j)] /\ lru'[k] = lru[at(k)]
        BY <1>2, <1>8
      <3> QED
        BY <1>1, <3>1, <3>2
    <2> QED
      BY <1>1, <2>1, SMT
  <1>10. ASSUME NEW c \in Buf
         PROVE  \E k \in 1..n : lru'[k] = c
    <2>1. PICK j \in 1..n : lru[j] = c
      <3>1. lru \in Seq(Buf) /\ c \in Range(lru)
        BY <1>10
      <3> QED
        BY ONLY <3>1, Elements DEF n
    <2> DEFINE at == IF j = i THEN 1 ELSE IF j < i THEN j + 1 ELSE j
    <2>2. at \in 1..n /\ (IF at = 1 THEN i ELSE IF at <= i THEN at - 1 ELSE at) = j
      BY <1>1, <1>2, <2>1, SMT
    <2> HIDE DEF at
    <2>3. lru'[at] = lru[j]
      BY <1>2, <1>8, <2>2
    <2> QED
      BY <2>1, <2>2, <2>3
  <1>11. /\ Range(lru') = {lru'[k] : k \in 1..n} /\ Range(lru') \subseteq Buf
         /\ IsInjective(lru')
    BY <1>7, <1>9, Elements
  <1> QED
    BY <1>7, <1>10, <1>11, SMT

-----------------------------------------------------------------------------
(* What the actions do *)

\* The places of the code, one by one.
LEMMA Names ==
    /\ "idle" \in Place /\ "bget" \in Place /\ "bsleep" \in Place /\ "iderw" \in Place
    /\ "iosleep" \in Place /\ "iowait" \in Place /\ "has" \in Place
    /\ "has" \in Holding /\ "iderw" \in Holding /\ "iosleep" \in Holding
    /\ "iowait" \in Holding /\ "idle" \notin Holding /\ "bget" \notin Holding
    /\ "bsleep" \notin Holding
    /\ NoBlock \notin Block /\ NoBuf \notin Buf
  BY BioConstants DEF Place, Holding

\* bget() sleeps for the buffer b, takes it, recycles it, or panics.
Sleeps(h, b, blk) ==
    /\ blockno[b] = blk /\ busy[b]
    /\ buf' = [buf EXCEPT ![h] = b]
    /\ pc' = [pc EXCEPT ![h] = "bsleep"]
    /\ UNCHANGED <<cache, panic>>

Takes(h, b, blk) ==
    /\ blockno[b] = blk /\ ~busy[b]
    /\ busy' = [busy EXCEPT ![b] = TRUE]
    /\ buf' = [buf EXCEPT ![h] = b]
    /\ pc' = [pc EXCEPT ![h] = IF valid[b] THEN "has" ELSE "iderw"]
    /\ UNCHANGED <<lru, blockno, valid, dirty, data, panic>>

Recycles(h, b, blk) ==
    /\ \A c \in Buf : blockno[c] # blk
    /\ ~busy[b] /\ ~dirty[b]
    /\ blockno' = [blockno EXCEPT ![b] = blk]
    /\ busy' = [busy EXCEPT ![b] = TRUE]
    /\ valid' = [valid EXCEPT ![b] = FALSE]
    /\ dirty' = [dirty EXCEPT ![b] = FALSE]
    /\ buf' = [buf EXCEPT ![h] = b]
    /\ pc' = [pc EXCEPT ![h] = "iderw"]
    /\ UNCHANGED <<lru, data, panic>>

NoBuffers ==
    /\ \A b \in Buf : busy[b] \/ dirty[b]
    /\ panic' = "bget: no buffers"
    /\ UNCHANGED <<cache, pc, buf>>

\* A process asks for block blk with a hand that holds no buffer.
Wants(h, blk) ==
    /\ panic = "none" /\ pc[h] \in {"idle", "bget"}
    /\ want' = [want EXCEPT ![h] = blk]
    /\ UNCHANGED <<idequeue, hardware>>

\* bget(): the buffer it returns, cached before or recycled, and what it leaves
\* alone.
LEMMA BgetDoes ==
    ASSUME TypeOK, NEW h \in Hand, NEW blk \in Block, bget(h, blk)
    PROVE  /\ UNCHANGED <<idequeue, hardware>>
           /\ \/ \E b \in Buf : Sleeps(h, b, blk) \/ Takes(h, b, blk) \/ Recycles(h, b, blk)
              \/ NoBuffers
  <1>1. UNCHANGED <<idequeue, hardware>>
    BY DEF bget
  <1>2. ASSUME NEW b \in Cached(blk),
               IF busy[b]
               THEN /\ buf' = [buf EXCEPT ![h] = b]
                    /\ Goto(h, "bsleep")
                    /\ UNCHANGED <<cache, panic>>
               ELSE /\ busy' = [busy EXCEPT ![b] = TRUE]
                    /\ Got(h, b, valid[b])
                    /\ UNCHANGED <<lru, blockno, valid, dirty, data, panic>>
        PROVE  \E c \in Buf : Sleeps(h, c, blk) \/ Takes(h, c, blk)
    <2>1. b \in Buf /\ blockno[b] = blk
      BY DEF Cached
    <2>2. CASE busy[b]
      BY <1>2, <2>1, <2>2 DEF Sleeps, Goto
    <2>3. CASE ~busy[b]
      BY <1>2, <2>1, <2>3 DEF Takes, Goto, Got
    <2> QED
      BY <2>2, <2>3
  <1>3. /\ lru \in Seq(Buf) /\ Len(lru) \in Nat /\ DOMAIN lru = 1..Len(lru)
        /\ \A b \in Buf : \E i \in 1..Len(lru) : lru[i] = b
        /\ \A i \in 1..Len(lru) : lru[i] \in Buf
    <2>1. lru \in Seq(Buf) /\ Range(lru) = Buf
      BY DEF TypeOK
    <2>2. \A b \in Buf : \E i \in 1..Len(lru) : lru[i] = b
      BY ONLY <2>1, Elements
    <2> QED
      BY ONLY <2>1, <2>2, LenIs
  <1>4. ASSUME NEW i \in Recyclable, Cached(blk) = {},
               blockno' = [blockno EXCEPT ![lru[i]] = blk],
               busy' = [busy EXCEPT ![lru[i]] = TRUE],
               valid' = [valid EXCEPT ![lru[i]] = FALSE],
               dirty' = [dirty EXCEPT ![lru[i]] = FALSE],
               Got(h, lru[i], FALSE),
               UNCHANGED <<lru, data, panic>>
        PROVE  \E b \in Buf : Recycles(h, b, blk)
    <2> DEFINE b == lru[i]
    <2>2. b \in Buf /\ ~busy[b] /\ ~dirty[b]
      BY <1>3 DEF Recyclable
    <2>3. \A c \in Buf : blockno[c] # blk
      BY <1>4 DEF Cached
    <2>4. Recycles(h, b, blk)
      BY <1>4, <2>2, <2>3 DEF Recycles, Got, Goto
    <2> QED
      BY <2>2, <2>4
  <1>5. ASSUME Recyclable = {}, panic' = "bget: no buffers",
               UNCHANGED <<cache, pc, buf>>
        PROVE  NoBuffers
    <2>1. \A b \in Buf : busy[b] \/ dirty[b]
      BY <1>3, <1>5 DEF Recyclable
    <2> QED
      BY <1>5, <2>1 DEF NoBuffers
  <1> QED
    BY <1>1, <1>2, <1>4, <1>5 DEF bget

\* bread() and the loop of bget().
LEMMA AskDoes ==
    ASSUME TypeOK, Owners, NEW h \in Hand, (\E blk \in Block : bread(h, blk)) \/ bgetloop(h)
    PROVE  \E blk \in Block :
              /\ Wants(h, blk)
              /\ \/ \E b \in Buf : Sleeps(h, b, blk) \/ Takes(h, b, blk) \/ Recycles(h, b, blk)
                 \/ NoBuffers
  <1>1. ASSUME NEW blk \in Block, bread(h, blk)
        PROVE  Wants(h, blk) /\ bget(h, blk)
    BY <1>1, BgetDoes DEF bread, At, Wants
  <1>2. ASSUME bgetloop(h)
        PROVE  want[h] \in Block /\ Wants(h, want[h]) /\ bget(h, want[h])
    <2>1. pc[h] = "bget" /\ panic = "none" /\ bget(h, want[h]) /\ want' = want
      BY <1>2 DEF bgetloop, At
    <2>2. want[h] \in Block
      BY <2>1 DEF Owners
    <2>3. want' = [want EXCEPT ![h] = want[h]]
      BY <2>1 DEF TypeOK
    <2> QED
      BY <2>1, <2>2, <2>3, BgetDoes DEF Wants
  <1> QED
    BY <1>1, <1>2, BgetDoes

\* What bwrite() and brelse() do to a buffer that is busy.
Writes(h, d) ==
    /\ pc[h] = "has"
    /\ data' = [data EXCEPT ![buf[h]] = d]
    /\ dirty' = [dirty EXCEPT ![buf[h]] = TRUE]
    /\ Goto(h, "iderw")
    /\ UNCHANGED <<lru, blockno, busy, valid, idequeue, hardware, want, buf, panic>>

Releases(h) ==
    /\ pc[h] = "has"
    /\ MoveToFront(buf[h])
    /\ busy' = [busy EXCEPT ![buf[h]] = FALSE]
    /\ pc' = [Wakeup(buf[h]) EXCEPT ![h] = "idle"]
    /\ want' = [want EXCEPT ![h] = NoBlock]
    /\ buf' = [buf EXCEPT ![h] = NoBuf]
    /\ UNCHANGED <<blockno, valid, dirty, data, idequeue, hardware, panic>>

\* A process has what it writes or releases, so that they do not panic.
LEMMA HasDoes ==
    ASSUME Owners, NEW h \in Hand
    PROVE  /\ \A d \in Data : bwrite(h, d) => Writes(h, d)
           /\ brelse(h) => Releases(h)
  <1>1. pc[h] = "has" => busy[buf[h]]
    BY Names DEF Owners
  <1> QED
    BY <1>1 DEF bwrite, brelse, Writes, Releases, At

\* The request of an idle disk.
LEMMA IdleIs ==
    /\ Idle \in [blk : Block \cup {NoBlock}, write : BOOLEAN, data : Data, done : BOOLEAN]
    /\ Idle.blk = NoBlock /\ ~Idle.write /\ Idle.done /\ Idle.data \in Data
  <1>1. (CHOOSE d \in Data : TRUE) \in Data
    BY BioConstants
  <1> QED
    BY <1>1 DEF Idle

\* wakeup() moves the sleepers of one buffer.
LEMMA WakeupDoes ==
    ASSUME TypeOK, NEW b
    PROVE  /\ Wakeup(b) \in [Hand -> Place]
           /\ \A g \in Hand :
                 Wakeup(b)[g] = IF buf[g] # b THEN pc[g]
                                ELSE IF pc[g] = "bsleep" THEN "bget"
                                ELSE IF pc[g] = "iosleep" THEN "iowait" ELSE pc[g]
  BY Names DEF Wakeup, TypeOK

-----------------------------------------------------------------------------
(* Type correctness *)

\* Every step keeps the types.
LEMMA AskTypes ==
    ASSUME TypeOK, NEW h \in Hand, NEW blk \in Block, Wants(h, blk),
           \/ \E b \in Buf : Sleeps(h, b, blk) \/ Takes(h, b, blk) \/ Recycles(h, b, blk)
           \/ NoBuffers
    PROVE  TypeOK'
  <1> USE Names DEF TypeOK
  <1>1. /\ UNCHANGED <<idequeue, device, irq, disk, faults, misread>>
        /\ want' \in [Hand -> Block \cup {NoBlock}]
    BY DEF Wants, hardware
  <1>2. ASSUME NEW b \in Buf, Sleeps(h, b, blk)
        PROVE  TypeOK'
    <2>1. UNCHANGED <<lru, blockno, busy, valid, dirty, data, panic>>
      BY <1>2 DEF Sleeps, cache, flags
    <2>2. pc' \in [Hand -> Place] /\ buf' \in [Hand -> Buf \cup {NoBuf}]
      BY <1>2 DEF Sleeps
    <2> QED
      BY <1>1, <2>1, <2>2
  <1>3. ASSUME NEW b \in Buf, Takes(h, b, blk)
        PROVE  TypeOK'
    <2>1. UNCHANGED <<lru, blockno, valid, dirty, data, panic>>
      BY <1>3 DEF Takes
    <2>2. pc' \in [Hand -> Place] /\ buf' \in [Hand -> Buf \cup {NoBuf}]
      BY <1>3 DEF Takes
    <2>3. busy' \in [Buf -> BOOLEAN]
      BY <1>3 DEF Takes
    <2> QED
      BY <1>1, <2>1, <2>2, <2>3
  <1>4. ASSUME NEW b \in Buf, Recycles(h, b, blk)
        PROVE  TypeOK'
    <2>1. UNCHANGED <<lru, data, panic>> /\ blockno' \in [Buf -> Block \cup {NoBlock}]
      BY <1>4 DEF Recycles
    <2>2. pc' \in [Hand -> Place] /\ buf' \in [Hand -> Buf \cup {NoBuf}]
      BY <1>4 DEF Recycles
    <2>3. busy' \in [Buf -> BOOLEAN] /\ valid' \in [Buf -> BOOLEAN] /\ dirty' \in [Buf -> BOOLEAN]
      BY <1>4 DEF Recycles
    <2> QED
      BY <1>1, <2>1, <2>2, <2>3
  <1>5. CASE NoBuffers
    <2>1. /\ UNCHANGED <<lru, blockno, busy, valid, dirty, data, pc, buf>>
          /\ panic' \in Panics
      BY <1>5 DEF NoBuffers, cache, flags, Panics
    <2> QED
      BY <1>1, <2>1
  <1> QED
    BY <1>2, <1>3, <1>4, <1>5

\* The holder of a buffer.
LEMMA HolderTypes ==
    ASSUME TypeOK, Owners, NEW h \in Hand,
           (\E d \in Data : Writes(h, d) \/ log_write(h, d)) \/ Releases(h) \/ iowait(h)
    PROVE  TypeOK'
  <1> USE Names DEF TypeOK
  <1>0. pc[h] \in Holding /\ buf[h] \in Buf
    <2>1. pc[h] = "has" \/ pc[h] = "iowait"
      BY DEF Writes, log_write, Releases, iowait, At
    <2> QED
      BY <2>1, SMT DEF Owners
  <1>1. ASSUME NEW d \in Data, Writes(h, d) \/ log_write(h, d)
        PROVE  TypeOK'
    <2>1. /\ data' = [data EXCEPT ![buf[h]] = d] /\ dirty' = [dirty EXCEPT ![buf[h]] = TRUE]
          /\ pc' = [pc EXCEPT ![h] = "iderw"] \/ pc' = pc
          /\ UNCHANGED <<lru, blockno, busy, valid, idequeue, device, irq, disk, faults,
                         misread, want, buf, panic>>
      BY <1>1 DEF Writes, log_write, hardware, Goto
    <2>2. dirty' \in [Buf -> BOOLEAN]
      BY <1>0, <2>1
    <2>3. data' \in [Buf -> Data]
      BY <1>0, <2>1
    <2>4. pc' \in [Hand -> Place]
      BY <2>1
    <2> QED
      BY <2>1, <2>2, <2>3, <2>4
  <1>2. CASE Releases(h)
    <2>1. /\ MoveToFront(buf[h]) /\ busy' = [busy EXCEPT ![buf[h]] = FALSE]
          /\ pc' = [Wakeup(buf[h]) EXCEPT ![h] = "idle"]
          /\ want' = [want EXCEPT ![h] = NoBlock] /\ buf' = [buf EXCEPT ![h] = NoBuf]
          /\ UNCHANGED <<blockno, valid, dirty, data, idequeue, device, irq, disk, faults,
                         misread, panic>>
      BY <1>2 DEF Releases, hardware
    <2>2. lru' \in Seq(Buf) /\ IsInjective(lru') /\ Range(lru') = Buf
      BY <1>0, <2>1, ListKept
    <2>3. pc' \in [Hand -> Place]
      BY <2>1, WakeupDoes
    <2>4. busy' \in [Buf -> BOOLEAN]
      BY <2>1
    <2>5. want' \in [Hand -> Block \cup {NoBlock}] /\ buf' \in [Hand -> Buf \cup {NoBuf}]
      BY <2>1
    <2> QED
      BY <2>1, <2>2, <2>3, <2>4, <2>5
  <1>3. CASE iowait(h)
    <2>1. UNCHANGED <<lru, blockno, busy, valid, dirty, data, idequeue, device, irq, disk,
                      faults, misread, want, buf, panic>>
      BY <1>3 DEF iowait, hardware, cache, flags
    <2>2. pc' \in [Hand -> Place]
      BY <1>3 DEF iowait, Goto
    <2> QED
      BY <2>1, <2>2
  <1> QED
    BY <1>1, <1>2, <1>3

\* idestart() hands the device a request for a buffer.
LEMMA Started ==
    ASSUME TypeOK, NEW b \in Buf, blockno[b] \in Block, idestart(b)
    PROVE  /\ device' \in [blk : Block \cup {NoBlock}, write : BOOLEAN, data : Data,
                           done : BOOLEAN]
           /\ device'.blk = blockno[b] /\ (device'.write <=> dirty[b]) /\ ~device'.done
           /\ dirty[b] => device'.data = data[b]
           /\ device.done /\ panic' = panic
  <1>1. /\ device.done /\ panic' = panic
        /\ device' = [blk |-> blockno[b], write |-> dirty[b],
                      data |-> IF dirty[b] THEN data[b] ELSE Idle.data, done |-> FALSE]
    BY DEF idestart, Ready
  <1>2. data[b] \in Data /\ Idle.data \in Data
    BY IdleIs DEF TypeOK
  <1>3. dirty[b] \in BOOLEAN
    BY DEF TypeOK
  <1> QED
    BY <1>1, <1>2, <1>3

\* The driver and the disk.
LEMMA DriverTypes ==
    ASSUME TypeOK, Owners, IsInjective(idequeue),
           (\E h \in Hand : iderw(h)) \/ DiskDone \/ Spurious \/ ideintr,
           ~device.done => device.blk \in Block,
           \A b \in Range(idequeue) : blockno[b] \in Block
    PROVE  TypeOK'
  <1> USE Names DEF TypeOK
  <1>1. ASSUME NEW h \in Hand, iderw(h)
        PROVE  TypeOK'
    <2>1. /\ pc[h] = "iderw" /\ buf[h] \in Buf /\ blockno[buf[h]] \in Block
          /\ UNCHANGED <<lru, blockno, busy, valid, dirty, data, irq, disk, faults, misread,
                         want, buf>>
      <3>1. /\ pc[h] = "iderw"
            /\ UNCHANGED <<lru, blockno, busy, valid, dirty, data, irq, disk, faults,
                           misread, want, buf>>
        BY <1>1 DEF iderw, At, cache, flags
      <3> QED
        BY <3>1, SMT DEF Owners
    <2>2. CASE /\ panic' = IF ~busy[buf[h]] THEN "iderw: buf not busy"
                           ELSE "iderw: nothing to do"
               /\ UNCHANGED <<idequeue, device, pc>>
      <3>1. panic' \in Panics
        BY <2>2 DEF Panics
      <3> QED
        BY <2>1, <2>2, <3>1
    <2>3. CASE /\ idequeue' = Append(idequeue, buf[h])
               /\ IF idequeue = <<>> THEN idestart(buf[h]) ELSE UNCHANGED <<device, panic>>
               /\ Goto(h, "iosleep")
      <3>1. idequeue' \in Seq(Buf)
        BY <2>1, <2>3, AppendIs
      <3>2. /\ device' \in [blk : Block \cup {NoBlock}, write : BOOLEAN, data : Data,
                            done : BOOLEAN]
            /\ panic' = panic
        BY <2>1, <2>3, Started
      <3>3. pc' \in [Hand -> Place]
        BY <2>3 DEF Goto
      <3> QED
        BY <2>1, <2>3, <3>1, <3>2, <3>3
    <2> QED
      BY <1>1, <2>2, <2>3 DEF iderw
  <1>2. CASE DiskDone
    <2>1. UNCHANGED <<lru, blockno, busy, valid, dirty, data, idequeue, faults, misread, pc,
                      want, buf, panic>> /\ irq' = TRUE /\ device.blk \in Block
      BY <1>2 DEF DiskDone, cache, flags
    <2>2. disk' \in [Block -> Data]
      BY <1>2, <2>1 DEF DiskDone
    <2>3. device' \in [blk : Block \cup {NoBlock}, write : BOOLEAN, data : Data,
                       done : BOOLEAN]
      <3>1. device.blk \in Block \cup {NoBlock} /\ device.write \in BOOLEAN /\ disk[device.blk] \in Data
        BY <2>1
      <3>2. \E d \in Data : device' = [device EXCEPT !.done = TRUE, !.data = d]
        BY <1>2, <3>1, IdleIs DEF DiskDone
      <3>3. PICK d \in Data : device' = [device EXCEPT !.done = TRUE, !.data = d]
        BY <3>2
      <3>4. device' = [blk |-> device.blk, write |-> device.write, data |-> d, done |-> TRUE]
        BY <3>3
      <3> QED
        BY <3>1, <3>4
    <2> QED
      BY <2>1, <2>2, <2>3
  <1>3. CASE Spurious
    <2>1. UNCHANGED <<lru, blockno, busy, valid, dirty, data, idequeue, device, disk, misread,
                      pc, want, buf, panic>> /\ irq' = TRUE
      BY <1>3 DEF Spurious, cache, flags
    <2>2. faults' \in 0..MaxFaults
      BY <1>3, BioConstants, SMT DEF Spurious
    <2> QED
      BY <2>1, <2>2
  <1>4. CASE ideintr
    <2>1. UNCHANGED <<lru, blockno, busy, disk, want, buf>> /\ irq' = FALSE
      BY <1>4 DEF ideintr, cache, flags
    <2>2. CASE idequeue = <<>>
      <3>1. UNCHANGED <<valid, dirty, data, idequeue, faults, misread, pc, panic>>
        BY <1>4, <2>2 DEF ideintr, cache, flags
      <3>2. device' \in [blk : Block \cup {NoBlock}, write : BOOLEAN, data : Data,
                         done : BOOLEAN]
        BY <1>4, <2>2, IdleIs DEF ideintr
      <3> QED
        BY <2>1, <3>1, <3>2
    <2>3. CASE idequeue # <<>>
      <3> DEFINE b == Head(idequeue)
      <3>0. /\ b \in Buf /\ blockno[b] \in Block /\ Tail(idequeue) \in Seq(Buf)
            /\ Tail(idequeue) # <<>> =>
                  Head(Tail(idequeue)) \in Buf /\ blockno[Head(Tail(idequeue))] \in Block
        <4>1. /\ b \in Range(idequeue) /\ Tail(idequeue) \in Seq(Buf)
              /\ Tail(idequeue) # <<>> => Head(Tail(idequeue)) \in Range(idequeue)
          BY <2>3, Dequeue
        <4>2. Range(idequeue) \subseteq Buf
          BY Elements
        <4> QED
          BY <4>1, <4>2
      <3>1. /\ idequeue' = Tail(idequeue) /\ insl(b) /\ StartNext /\ pc' = Wakeup(b)
            /\ valid' = [valid EXCEPT ![b] = TRUE] /\ dirty' = [dirty EXCEPT ![b] = FALSE]
        BY <1>4, <2>3 DEF ideintr
      <3> HIDE DEF b
      <3>2. valid' \in [Buf -> BOOLEAN] /\ dirty' \in [Buf -> BOOLEAN]
        BY <3>0, <3>1
      <3>3. pc' \in [Hand -> Place]
        BY <3>1, WakeupDoes
      <3>4. /\ device' \in [blk : Block \cup {NoBlock}, write : BOOLEAN, data : Data,
                            done : BOOLEAN]
            /\ panic' = panic
        BY <3>0, <3>1, Started, IdleIs DEF StartNext
      <3>5. data' \in [Buf -> Data]
        BY <3>0, <3>1 DEF insl
      <3>6. faults' \in 0..MaxFaults
        BY <3>0, <3>1, BioConstants, SMT DEF insl
      <3>7. misread' \subseteq Block
        BY <3>0, <3>1, SMT DEF insl
      <3> QED
        BY <2>1, <3>0, <3>1, <3>2, <3>3, <3>4, <3>5, <3>6, <3>7
    <2> QED
      BY <2>2, <2>3
  <1> QED
    BY <1>1, <1>2, <1>3, <1>4

-----------------------------------------------------------------------------
(* The inductive invariant *)

\* A step of bget() and its callers leaves the driver alone.
LEMMA BelowKept ==
    ASSUME UNCHANGED <<device, disk>>
    PROVE  \A blk \in Block : Below(blk)' = Below(blk)
  BY DEF Below

\* Nobody holds a buffer that is not busy, and no request is for it.
LEMMA FreeBuffer ==
    ASSUME BioInv, NEW b \in Buf, ~busy[b]
    PROVE  /\ \A g \in Hand : pc[g] \in Holding => buf[g] # b
           /\ b \notin Range(idequeue)
           /\ idequeue # <<>> => Head(idequeue) # b
  <1>1. \A g \in Hand : pc[g] \in Holding => buf[g] # b
    BY SMT DEF BioInv, Owners
  <1>2. b \notin Range(idequeue)
    BY <1>1, Names DEF BioInv, Requests
  <1>3. idequeue # <<>> => Head(idequeue) \in Range(idequeue)
    BY Elements DEF BioInv, TypeOK
  <1> QED
    BY <1>1, <1>2, <1>3

\* The request at the head of the queue is for a buffer, whose owner sleeps.
LEMMA HeadOwner ==
    ASSUME BioInv, idequeue # <<>>
    PROVE  /\ Head(idequeue) \in Buf /\ Head(idequeue) \in Range(idequeue)
           /\ blockno[Head(idequeue)] \in Block
           /\ \E g \in Hand : pc[g] = "iosleep" /\ buf[g] = Head(idequeue)
  <1>1. Head(idequeue) \in Buf /\ Head(idequeue) \in Range(idequeue)
    BY Dequeue DEF BioInv, TypeOK, Requests
  <1>2. PICK g \in Hand : pc[g] = "iosleep" /\ buf[g] = Head(idequeue)
    BY <1>1 DEF BioInv, Requests
  <1>3. blockno[Head(idequeue)] \in Block
    BY <1>2, Names, SMT DEF BioInv, Owners
  <1> QED
    BY <1>1, <1>2, <1>3

\* The request after it is for another one.
LEMMA NextOwner ==
    ASSUME BioInv, idequeue # <<>>, Tail(idequeue) # <<>>,
           NEW nx, nx = Head(Tail(idequeue))
    PROVE  nx \in Buf /\ nx # Head(idequeue) /\ blockno[nx] \in Block
  <1>1. nx \in Range(idequeue) /\ nx # Head(idequeue)
    BY Dequeue DEF BioInv, TypeOK, Requests
  <1>2. nx \in Buf
    BY <1>1, Elements DEF BioInv, TypeOK
  <1>3. PICK g \in Hand : pc[g] = "iosleep" /\ buf[g] = nx
    BY <1>1, <1>2 DEF BioInv, Requests
  <1>4. blockno[nx] \in Block
    BY <1>3, Names, SMT DEF BioInv, Owners
  <1> QED
    BY <1>1, <1>2, <1>4

\* The panic of bget(): with a hand that holds no buffer, a process asks for a
\* block, and finds no buffer to recycle.
Full ==
    /\ \E h \in InUse : pc[h] \notin Holding
    /\ \A b \in Buf : busy[b] \/ dirty[b]

\* A step pins no buffer but what log_write() has counted, and panics only
\* when the cache is full.
Keeps ==
    /\ \/ Pinned' \subseteq Pinned
       \/ \E P \in SUBSET Buf : Pinned' \subseteq P /\ Cardinality(P) <= MaxDirty
    /\ panic' = panic \/ (panic' = "bget: no buffers" /\ Full')

\* bget() sleeps.
LEMMA SleepsStep ==
    ASSUME BioInv, TypeOK', NEW h \in Hand, NEW blk \in Block, Wants(h, blk),
           NEW b \in Buf, Sleeps(h, b, blk)
    PROVE  BioInv' /\ Keeps
  <1>1. /\ UNCHANGED <<lru, blockno, busy, valid, dirty, data, idequeue, device, irq, disk,
                       misread, panic>>
        /\ pc[h] \in {"idle", "bget"} /\ pc[h] \notin Holding
    BY Names DEF Wants, Sleeps, cache, flags, hardware
  <1>2. /\ \A g \in Hand : g # h => pc'[g] = pc[g] /\ want'[g] = want[g] /\ buf'[g] = buf[g]
        /\ pc'[h] = "bsleep" /\ want'[h] = blk /\ buf'[h] = b
    BY DEF Wants, Sleeps, BioInv, TypeOK
  <1>3. Owners'
    BY <1>1, <1>2, Names, SMT DEF BioInv, Owners
  <1>4. Requests'
    BY <1>1, <1>2, Names, SMT DEF BioInv, Requests
  <1>5. Driver' /\ Clean'
    BY <1>1 DEF BioInv, Driver, Clean, Below
  <1>6. Pinned' \subseteq Pinned
    BY <1>1, <1>2 DEF Pinned
  <1> QED
    BY <1>1, <1>3, <1>4, <1>5, <1>6 DEF BioInv, Keeps

\* bget() takes a buffer that has the block.
LEMMA TakesStep ==
    ASSUME BioInv, TypeOK', NEW h \in Hand, NEW blk \in Block, Wants(h, blk),
           NEW b \in Buf, Takes(h, b, blk)
    PROVE  BioInv' /\ Keeps
  <1>1. /\ UNCHANGED <<lru, blockno, valid, dirty, data, idequeue, device, irq, disk,
                       misread, panic>>
        /\ pc[h] \in {"idle", "bget"} /\ pc[h] \notin Holding
        /\ blockno[b] = blk /\ ~busy[b]
    BY Names DEF Wants, Takes, hardware
  <1>2. /\ \A g \in Hand : g # h => pc'[g] = pc[g] /\ want'[g] = want[g] /\ buf'[g] = buf[g]
        /\ pc'[h] = (IF valid[b] THEN "has" ELSE "iderw") /\ want'[h] = blk /\ buf'[h] = b
    BY SMT DEF Wants, Takes, BioInv, TypeOK
  <1>3. \A c \in Buf : busy'[c] <=> busy[c] \/ c = b
    BY DEF Takes, BioInv, TypeOK
  <1>4. /\ \A g \in Hand : pc[g] \in Holding => buf[g] # b
        /\ b \notin Range(idequeue)
    BY <1>1, FreeBuffer
  <1>5. pc'[h] \in Holding
    BY <1>2, Names
  <1>6. Owners'
    BY <1>1, <1>2, <1>3, <1>4, <1>5, Names, SMT DEF BioInv, Owners
  <1>7. Requests'
    BY <1>1, <1>2, <1>4, Names, SMT DEF BioInv, Requests
  <1>8. Driver' /\ Clean'
    BY <1>1 DEF BioInv, Driver, Clean, Below
  <1>9. Pinned' \subseteq Pinned
    BY <1>1, <1>2 DEF Pinned
  <1> QED
    BY <1>1, <1>6, <1>7, <1>8, <1>9 DEF BioInv, Keeps

\* bget() recycles a buffer.
LEMMA RecyclesStep ==
    ASSUME BioInv, TypeOK', NEW h \in Hand, NEW blk \in Block, Wants(h, blk),
           NEW b \in Buf, Recycles(h, b, blk)
    PROVE  BioInv' /\ Keeps
  <1>1. /\ UNCHANGED <<lru, data, idequeue, device, irq, disk, misread, panic>>
        /\ pc[h] \in {"idle", "bget"} /\ pc[h] \notin Holding
        /\ ~busy[b] /\ ~dirty[b] /\ \A c \in Buf : blockno[c] # blk
    BY Names DEF Wants, Recycles, hardware
  <1>2. /\ \A g \in Hand : g # h => pc'[g] = pc[g] /\ want'[g] = want[g] /\ buf'[g] = buf[g]
        /\ pc'[h] = "iderw" /\ want'[h] = blk /\ buf'[h] = b
    BY SMT DEF Wants, Recycles, BioInv, TypeOK
  <1>3. \A c \in Buf : /\ busy'[c] <=> busy[c] \/ c = b
                       /\ valid'[c] <=> valid[c] /\ c # b
                       /\ dirty'[c] <=> dirty[c] /\ c # b
    BY DEF Recycles, BioInv, TypeOK
  <1>4. \A c \in Buf : blockno'[c] = IF c = b THEN blk ELSE blockno[c]
    BY DEF Recycles, BioInv, TypeOK
  <1>5. /\ \A g \in Hand : pc[g] \in Holding => buf[g] # b
        /\ b \notin Range(idequeue)
        /\ idequeue # <<>> => Head(idequeue) # b
    BY <1>1, FreeBuffer
  <1>6. Owners'
    BY <1>1, <1>2, <1>3, <1>4, <1>5, Names, SMT DEF BioInv, Owners
  <1>7. Requests'
    <2>1. \A c \in Buf :
             /\ c \in Range(idequeue)' <=> \E g \in Hand : pc'[g] = "iosleep" /\ buf'[g] = c
             /\ dirty'[c] => valid'[c]
      BY <1>1, <1>2, <1>3, <1>5, Names, SMT DEF BioInv, Requests
    <2>2. ASSUME NEW g \in Hand
          PROVE  /\ pc'[g] = "has" => valid'[buf'[g]]
                 /\ pc'[g] \in {"iderw", "iosleep"} => (valid'[buf'[g]] => dirty'[buf'[g]])
                 /\ pc'[g] = "iowait" => valid'[buf'[g]] /\ ~dirty'[buf'[g]]
      <3>1. CASE g = h
        BY <1>2, <1>3, <3>1
      <3>2. CASE g # h
        <4>1. pc[g] \in Holding => buf[g] \in Buf /\ buf[g] # b
          BY <1>5 DEF BioInv, Owners
        <4>2. /\ pc[g] = "has" => valid[buf[g]]
              /\ pc[g] \in {"iderw", "iosleep"} => (valid[buf[g]] => dirty[buf[g]])
              /\ pc[g] = "iowait" => valid[buf[g]] /\ ~dirty[buf[g]]
          BY DEF BioInv, Requests
        <4>3. pc'[g] = pc[g] /\ buf'[g] = buf[g]
          BY <1>2, <3>2
        <4> QED
          BY ONLY <1>3, <4>1, <4>2, <4>3, Names
      <3> QED
        BY <3>1, <3>2
    <2> QED
      BY <1>1, <2>1, <2>2 DEF BioInv, Requests
  <1>8. Driver'
    <2>1. idequeue # <<>> => Head(idequeue) \in Buf
      BY HeadOwner
    <2> QED
      BY <1>1, <1>3, <1>4, <1>5, <2>1 DEF BioInv, Driver, Below
  <1>9. Clean'
    BY <1>1, <1>3, <1>4 DEF BioInv, Clean, Below
  <1>10. Pinned' \subseteq Pinned
    BY <1>1, <1>2, <1>3 DEF Pinned
  <1> QED
    BY <1>1, <1>6, <1>7, <1>8, <1>9, <1>10 DEF BioInv, Keeps

\* bget() that finds no buffer panics, and changes nothing else.
LEMMA NoBuffersStep ==
    ASSUME BioInv, TypeOK', NEW h \in Hand, NEW blk \in Block, Wants(h, blk), NoBuffers
    PROVE  BioInv' /\ Keeps
  <1>1. /\ UNCHANGED <<lru, blockno, busy, valid, dirty, data, idequeue, device, irq, disk,
                       misread, pc, buf>>
        /\ pc[h] \in {"idle", "bget"} /\ pc[h] \notin Holding
    BY Names DEF Wants, NoBuffers, cache, flags, hardware
  <1>2. \A g \in Hand : want'[g] = IF g = h THEN blk ELSE want[g]
    BY DEF Wants, BioInv, TypeOK
  <1>3. Owners'
    BY <1>1, <1>2, Names, SMT DEF BioInv, Owners
  <1>4. Requests'
    BY <1>1 DEF BioInv, Requests
  <1>5. Driver' /\ Clean'
    BY <1>1 DEF BioInv, Driver, Clean, Below
  <1>6. Pinned' \subseteq Pinned
    BY <1>1 DEF Pinned
  <1>7. panic' = "bget: no buffers" /\ Full'
    <2>1. h \in InUse' /\ Holding' = Holding
      BY <1>2, Names DEF InUse, Holding
    <2> QED
      BY <1>1, <2>1 DEF NoBuffers, Full
  <1> QED
    BY <1>3, <1>4, <1>5, <1>6, <1>7 DEF BioInv, Keeps

\* The holder of a buffer is its only one, and has no request for it.
LEMMA HasAlone ==
    ASSUME BioInv, NEW h \in Hand, pc[h] \in {"has", "iderw", "iowait"}
    PROVE  /\ pc[h] \in Holding /\ buf[h] \in Buf /\ want[h] \in Block
           /\ blockno[buf[h]] = want[h] /\ busy[buf[h]]
           /\ \A g \in Hand : g # h /\ pc[g] \in Holding => buf[g] # buf[h]
           /\ buf[h] \notin Range(idequeue)
           /\ idequeue # <<>> => Head(idequeue) # buf[h]
  <1>1. pc[h] \in Holding /\ pc[h] # "idle" /\ pc[h] # "iosleep"
    BY Names
  <1>2. /\ buf[h] \in Buf /\ want[h] \in Block /\ blockno[buf[h]] = want[h] /\ busy[buf[h]]
        /\ \A g \in Hand : g # h /\ pc[g] \in Holding => buf[g] # buf[h]
    BY <1>1 DEF BioInv, Owners
  <1>3. buf[h] \notin Range(idequeue)
    BY <1>1, <1>2, Names, SMT DEF BioInv, Requests
  <1>4. idequeue # <<>> => Head(idequeue) # buf[h]
    BY <1>3, HeadOwner
  <1> QED
    BY <1>1, <1>2, <1>3, <1>4

\* The holder changes the data.
LEMMA WriteStep ==
    ASSUME BioInv, TypeOK', NEW h \in Hand, NEW d \in Data, Writes(h, d) \/ log_write(h, d)
    PROVE  BioInv' /\ Keeps
  <1>1. /\ UNCHANGED <<lru, blockno, busy, valid, idequeue, device, irq, disk, misread, want,
                       buf, panic>>
        /\ pc[h] = "has"
    BY DEF Writes, log_write, hardware, At
  <1>2. /\ \A g \in Hand : g # h => pc'[g] = pc[g]
        /\ pc'[h] \in {"has", "iderw"}
        /\ pc'[h] = "has" =>
              /\ Cardinality({b \in Buf : dirty[b]} \cup {buf[h]}) <= MaxDirty
              /\ pc' = pc
    BY <1>1, SMT DEF Writes, log_write, Goto, BioInv, TypeOK
  <1>3. /\ buf[h] \in Buf /\ want[h] \in Block /\ blockno[buf[h]] = want[h] /\ busy[buf[h]]
        /\ \A g \in Hand : g # h /\ pc[g] \in Holding => buf[g] # buf[h]
        /\ buf[h] \notin Range(idequeue)
        /\ idequeue # <<>> => Head(idequeue) # buf[h]
    BY <1>1, HasAlone
  <1>4. \A c \in Buf : dirty'[c] <=> dirty[c] \/ c = buf[h]
    BY <1>3 DEF Writes, log_write, BioInv, TypeOK
  <1>5. \A c \in Buf : data'[c] = IF c = buf[h] THEN d ELSE data[c]
    BY <1>3 DEF Writes, log_write, BioInv, TypeOK
  <1>6. pc'[h] \in Holding /\ pc[h] \in Holding /\ pc'[h] # "iosleep" /\ pc'[h] # "iowait"
    BY <1>1, <1>2, Names
  <1>7. Owners'
    BY <1>1, <1>2, <1>6, Names, ZenonT(40) DEF BioInv, Owners
  <1>8. Requests'
    <2>1. valid[buf[h]]
      BY <1>1 DEF BioInv, Requests
    <2>2. \A c \in Buf :
             /\ c \in Range(idequeue)' <=> \E g \in Hand : pc'[g] = "iosleep" /\ buf'[g] = c
             /\ dirty'[c] => valid'[c]
      <3>1. /\ UNCHANGED <<idequeue, valid, buf>>
            /\ \A g \in Hand : pc'[g] = "iosleep" <=> pc[g] = "iosleep"
        BY <1>1, <1>2, <1>6
      <3>2. \A c \in Buf :
               /\ c \in Range(idequeue) <=> \E g \in Hand : pc[g] = "iosleep" /\ buf[g] = c
               /\ dirty[c] => valid[c]
        BY DEF BioInv, Requests
      <3> QED
        BY ONLY <1>4, <2>1, <3>1, <3>2
    <2>3. ASSUME NEW g \in Hand
          PROVE  /\ pc'[g] = "has" => valid'[buf'[g]]
                 /\ pc'[g] \in {"iderw", "iosleep"} => (valid'[buf'[g]] => dirty'[buf'[g]])
                 /\ pc'[g] = "iowait" => valid'[buf'[g]] /\ ~dirty'[buf'[g]]
      <3>1. CASE g = h
        BY <1>1, <1>3, <1>4, <1>6, <2>1, <3>1
      <3>2. CASE g # h
        <4>1. pc[g] \in Holding => buf[g] \in Buf /\ buf[g] # buf[h]
          BY <1>3, <3>2 DEF BioInv, Owners
        <4>2. /\ pc[g] = "has" => valid[buf[g]]
              /\ pc[g] \in {"iderw", "iosleep"} => (valid[buf[g]] => dirty[buf[g]])
              /\ pc[g] = "iowait" => valid[buf[g]] /\ ~dirty[buf[g]]
          BY DEF BioInv, Requests
        <4>3. pc'[g] = pc[g] /\ UNCHANGED <<buf, valid>>
          BY <1>1, <1>2, <3>2
        <4> QED
          BY ONLY <1>4, <4>1, <4>2, <4>3, Names
      <3> QED
        BY <3>1, <3>2
    <2> QED
      BY <1>1, <2>2, <2>3 DEF BioInv, Requests
  <1>9. Driver'
    <2>1. idequeue # <<>> => Head(idequeue) \in Buf
      BY HeadOwner
    <2> QED
      BY <1>1, <1>3, <1>4, <1>5, <2>1 DEF BioInv, Driver, Below
  <1>10. Clean'
    BY <1>1, <1>4, <1>5 DEF BioInv, Clean, Below
  <1>11. \/ Pinned' \subseteq Pinned
         \/ \E P \in SUBSET Buf : Pinned' \subseteq P /\ Cardinality(P) <= MaxDirty
    <2>1. CASE pc'[h] = "iderw"
      BY <1>1, <1>2, <1>4, <2>1 DEF Pinned
    <2>2. CASE pc'[h] = "has"
      <3> DEFINE P == {b \in Buf : dirty[b]} \cup {buf[h]}
      <3>1. Pinned' \subseteq P /\ P \in SUBSET Buf
        BY <1>3, <1>4 DEF Pinned
      <3>2. Cardinality(P) <= MaxDirty
        BY <1>2, <2>2
      <3> HIDE DEF P
      <3> QED
        BY <3>1, <3>2
    <2> QED
      BY <1>2, <2>1, <2>2
  <1> QED
    BY <1>1, <1>7, <1>8, <1>9, <1>10, <1>11 DEF BioInv, Keeps

\* brelse() lets the buffer go and wakes the processes that sleep for it.
LEMMA BrelseStep ==
    ASSUME BioInv, TypeOK', NEW h \in Hand, Releases(h)
    PROVE  BioInv' /\ Keeps
  <1>1. /\ UNCHANGED <<blockno, valid, dirty, data, idequeue, device, irq, disk, misread, panic>>
        /\ pc[h] = "has"
    BY DEF Releases, hardware, At
  <1>2. /\ buf[h] \in Buf
        /\ \A g \in Hand : g # h /\ pc[g] \in Holding => buf[g] # buf[h]
        /\ buf[h] \notin Range(idequeue)
    BY <1>1, HasAlone
  <1>3. pc'[h] = "idle" /\ buf'[h] = NoBuf
    <2>1. Wakeup(buf[h]) \in [Hand -> Place]
      BY WakeupDoes DEF BioInv
    <2> QED
      BY <2>1 DEF Releases, BioInv, TypeOK
  <1>4. ASSUME NEW g \in Hand, g # h
        PROVE  /\ want'[g] = want[g] /\ buf'[g] = buf[g]
               /\ pc[g] \in Holding => pc'[g] = pc[g]
               /\ pc[g] \notin Holding => pc'[g] \notin Holding
               /\ pc[g] = "idle" => pc'[g] = "idle"
    <2>1. pc'[g] = Wakeup(buf[h])[g]
      <3>1. Wakeup(buf[h]) \in [Hand -> Place]
        BY WakeupDoes DEF BioInv
      <3> QED
        BY <1>4, <3>1 DEF Releases
    <2>2. want'[g] = want[g] /\ buf'[g] = buf[g]
      BY <1>4 DEF Releases, BioInv, TypeOK
    <2>3. Wakeup(buf[h])[g] = IF buf[g] # buf[h] THEN pc[g]
                              ELSE IF pc[g] = "bsleep" THEN "bget"
                              ELSE IF pc[g] = "iosleep" THEN "iowait" ELSE pc[g]
      BY WakeupDoes DEF BioInv
    <2> QED
      BY <1>2, <1>4, <2>1, <2>2, <2>3, Names
  <1>5. \A c \in Buf : busy'[c] <=> busy[c] /\ c # buf[h]
    BY <1>2 DEF Releases, BioInv, TypeOK
  <1>6. Owners'
    <2>1. \A b, c \in Buf : blockno'[b] = blockno'[c] /\ blockno'[b] # NoBlock => b = c
      BY <1>1 DEF BioInv, Owners
    <2>2. ASSUME NEW c \in Buf, busy'[c]
          PROVE  \E g \in Hand : pc'[g] \in Holding /\ buf'[g] = c
      <3>1. busy[c] /\ c # buf[h]
        BY ONLY <1>5, <2>2
      <3>2. PICK g \in Hand : pc[g] \in Holding /\ buf[g] = c
        BY <3>1 DEF BioInv, Owners
      <3>3. pc'[g] = pc[g] /\ buf'[g] = buf[g]
        BY <1>4, <3>1, <3>2
      <3> QED
        BY ONLY <3>2, <3>3
    <2>3. \A g, r \in Hand :
             pc'[g] \in Holding /\ pc'[r] \in Holding /\ buf'[g] = buf'[r] => g = r
      <3>1. \A g, r \in Hand :
               pc[g] \in Holding /\ pc[r] \in Holding /\ buf[g] = buf[r] => g = r
        BY DEF BioInv, Owners
      <3>2. \A g \in Hand : pc'[g] \in Holding => pc[g] \in Holding /\ buf'[g] = buf[g]
        BY <1>3, <1>4, Names
      <3> QED
        BY ONLY <3>1, <3>2
    <2>4. ASSUME NEW g \in Hand
          PROVE  /\ pc'[g] # "idle" => want'[g] \in Block
                 /\ pc'[g] \in Holding =>
                       buf'[g] \in Buf /\ busy'[buf'[g]] /\ blockno'[buf'[g]] = want'[g]
      <3>1. CASE g = h
        BY <1>3, <3>1, Names
      <3>2. CASE g # h
        BY <1>1, <1>2, <1>4, <1>5, <3>2, SMT DEF BioInv, Owners
      <3> QED
        BY <3>1, <3>2
    <2>5. Holding' = Holding
      BY DEF Holding
    <2> QED
      BY <2>1, <2>2, <2>3, <2>4 DEF Owners
  <1>7. Requests'
    <2>1. \A g \in Hand : \A l \in Holding : pc'[g] = l => pc[g] = l /\ g # h /\ buf'[g] = buf[g]
      BY <1>3, <1>4, Names
    <2>2. \A g \in Hand : pc[g] = "iosleep" => pc'[g] = "iosleep" /\ buf'[g] = buf[g]
      BY <1>1, <1>4, Names
    <2>3. \A c \in Buf :
             /\ c \in Range(idequeue)' <=> \E g \in Hand : pc'[g] = "iosleep" /\ buf'[g] = c
             /\ dirty'[c] => valid'[c]
      <3>1. UNCHANGED <<idequeue, valid, dirty>>
        BY <1>1
      <3>2. \A c \in Buf :
               /\ c \in Range(idequeue) <=> \E g \in Hand : pc[g] = "iosleep" /\ buf[g] = c
               /\ dirty[c] => valid[c]
        BY DEF BioInv, Requests
      <3>3. \A g \in Hand : pc'[g] = "iosleep" => pc[g] = "iosleep" /\ buf'[g] = buf[g]
        BY <2>1, Names
      <3> QED
        BY ONLY <2>2, <3>1, <3>2, <3>3
    <2>4. ASSUME NEW g \in Hand
          PROVE  /\ pc'[g] = "has" => valid'[buf'[g]]
                 /\ pc'[g] \in {"iderw", "iosleep"} => (valid'[buf'[g]] => dirty'[buf'[g]])
                 /\ pc'[g] = "iowait" => valid'[buf'[g]] /\ ~dirty'[buf'[g]]
      <3>1. pc'[g] \in {"has", "iderw", "iosleep", "iowait"} => pc[g] = pc'[g] /\ buf'[g] = buf[g]
        BY <2>1, Names
      <3>2. UNCHANGED <<valid, dirty>>
        BY <1>1
      <3>3. /\ pc[g] = "has" => valid[buf[g]]
            /\ pc[g] \in {"iderw", "iosleep"} => (valid[buf[g]] => dirty[buf[g]])
            /\ pc[g] = "iowait" => valid[buf[g]] /\ ~dirty[buf[g]]
        BY DEF BioInv, Requests
      <3> QED
        BY ONLY <3>1, <3>2, <3>3
    <2>5. IsInjective(idequeue)'
      BY <1>1 DEF BioInv, Requests
    <2> QED
      BY <2>3, <2>4, <2>5 DEF Requests
  <1>8. Driver' /\ Clean'
    BY <1>1 DEF BioInv, Driver, Clean, Below
  <1>9. Pinned' \subseteq Pinned
    BY <1>1, <1>4, Names DEF Pinned
  <1> QED
    BY <1>1, <1>6, <1>7, <1>8, <1>9 DEF BioInv, Keeps

\* A request that the device is given changes what is below no other block.
LEMMA StartedBelow ==
    ASSUME TypeOK, NEW b \in Buf, blockno[b] \in Block, idestart(b), UNCHANGED disk,
           NEW blk \in Block
    PROVE  /\ (dirty[b] => blk # blockno[b]) => Below(blk)' = Below(blk)
           /\ Below(blk) = disk[blk]
           /\ dirty[b] /\ blk = blockno[b] => Below(blk)' = data[b]
  <1>1. /\ device'.blk = blockno[b] /\ (device'.write <=> dirty[b]) /\ ~device'.done
        /\ dirty[b] => device'.data = data[b]
        /\ device.done
    BY Started
  <1> QED
    BY <1>1 DEF Below

\* iderw() puts its request on the queue.
LEMMA IderwStep ==
    ASSUME BioInv, TypeOK', NEW h \in Hand, iderw(h)
    PROVE  BioInv' /\ Keeps
  <1> DEFINE b == buf[h]
  <1>1. /\ UNCHANGED <<lru, blockno, busy, valid, dirty, data, irq, disk, misread, want, buf>>
        /\ pc[h] = "iderw"
    BY DEF iderw, cache, flags, At
  <1>2. /\ b \in Buf /\ want[h] \in Block /\ blockno[b] = want[h] /\ busy[b]
        /\ b \notin Range(idequeue)
        /\ valid[b] => dirty[b]
    <2>1. valid[b] => dirty[b]
      BY <1>1 DEF BioInv, Requests
    <2> QED
      BY <1>1, <2>1, HasAlone
  <1>3. /\ idequeue' = Append(idequeue, b)
        /\ idequeue = <<>> => idestart(b)
        /\ idequeue # <<>> => UNCHANGED device
        /\ pc' = [pc EXCEPT ![h] = "iosleep"]
        /\ UNCHANGED panic
    BY <1>2, Started DEF iderw, Goto, BioInv
  <1>4. /\ IsInjective(idequeue') /\ Range(idequeue') = Range(idequeue) \cup {b}
        /\ Head(idequeue') = IF idequeue = <<>> THEN b ELSE Head(idequeue)
    <2>1. idequeue \in Seq(Buf) /\ IsInjective(idequeue)
      BY DEF BioInv, TypeOK, Requests
    <2> HIDE DEF b
    <2>2. b \in Buf /\ b \notin Range(idequeue)
      BY <1>2
    <2> QED
      BY <1>3, <2>1, <2>2, Enqueue
  <1>5. \A g \in Hand : pc'[g] = IF g = h THEN "iosleep" ELSE pc[g]
    BY <1>3 DEF BioInv, TypeOK
  <1> HIDE DEF b
  <1>6. Owners'
    BY <1>1, <1>5, Names, SMT DEF BioInv, Owners
  <1>7. Requests'
    <2>1. Range(idequeue)' = Range(idequeue) \cup {b} /\ buf[h] = b
      BY <1>4 DEF b
    <2>2. \A c \in Buf :
             /\ c \in Range(idequeue)' <=> \E g \in Hand : pc'[g] = "iosleep" /\ buf'[g] = c
             /\ dirty'[c] => valid'[c]
      BY <1>1, <1>5, <2>1, SMT DEF BioInv, Requests
    <2>3. \A g \in Hand :
             /\ pc'[g] = "has" => valid'[buf'[g]]
             /\ pc'[g] \in {"iderw", "iosleep"} => (valid'[buf'[g]] => dirty'[buf'[g]])
             /\ pc'[g] = "iowait" => valid'[buf'[g]] /\ ~dirty'[buf'[g]]
      BY <1>1, <1>2, <1>5, <2>1, SMT DEF BioInv, Requests
    <2> QED
      BY <1>4, <2>2, <2>3 DEF Requests
  <1>8. Driver' /\ Clean'
    <2>1. CASE idequeue = <<>>
      <3>1. /\ device'.blk = blockno[b] /\ (device'.write <=> dirty[b]) /\ ~device'.done
        BY <1>2, <1>3, <2>1, Started DEF BioInv
      <3>2. \A blk \in Block :
               /\ (dirty[b] => blk # blockno[b]) => Below(blk)' = Below(blk)
               /\ dirty[b] /\ blk = blockno[b] => Below(blk)' = data[b]
        BY <1>1, <1>2, <1>3, <2>1, StartedBelow DEF BioInv
      <3>3. Driver'
        BY <1>1, <1>2, <1>4, <2>1, <3>1, <3>2 DEF Driver
      <3>4. Clean'
        <4>1. ASSUME NEW c \in Buf, valid[c], ~dirty[c], blockno[c] \in Block \ misread
              PROVE  data[c] = Below(blockno[c])'
          <5>1. dirty[b] => blockno[c] # blockno[b]
            BY <1>2, <4>1, Names DEF BioInv, Owners
          <5>2. \A blk \in Block : blk = blockno[c] => Below(blk)' = Below(blk)
            BY <3>2, <5>1
          <5>3. data[c] = Below(blockno[c])
            BY <4>1 DEF BioInv, Clean
          <5>4. PICK blk \in Block : blk = blockno[c]
            BY <4>1
          <5> QED
            BY <1>1, <5>2, <5>3, <5>4 DEF Below
        <4> QED
          BY <1>1, <4>1 DEF Clean
      <3> QED
        BY <3>3, <3>4
    <2>2. CASE idequeue # <<>>
      <3>1. UNCHANGED device /\ Head(idequeue') = Head(idequeue)
        BY <1>3, <1>4, <2>2
      <3> QED
        BY <1>1, <2>2, <3>1 DEF BioInv, Driver, Clean, Below
    <2> QED
      BY <2>1, <2>2
  <1>9. Pinned' \subseteq Pinned
    BY <1>1, <1>5 DEF Pinned
  <1> QED
    BY <1>3, <1>6, <1>7, <1>8, <1>9 DEF BioInv, Keeps

\* iderw() finds its request answered.
LEMMA IowaitStep ==
    ASSUME BioInv, TypeOK', NEW h \in Hand, iowait(h)
    PROVE  BioInv' /\ Keeps
  <1>1. /\ UNCHANGED <<lru, blockno, busy, valid, dirty, data, idequeue, device, irq, disk,
                       misread, want, buf, panic>>
        /\ pc[h] = "iowait"
    BY DEF iowait, cache, flags, hardware, At
  <1>2. valid[buf[h]] /\ ~dirty[buf[h]]
    BY <1>1 DEF BioInv, Requests
  <1>3. \A g \in Hand : pc'[g] = IF g = h THEN "has" ELSE pc[g]
    BY <1>2 DEF iowait, Goto, BioInv, TypeOK
  <1>4. Owners'
    BY <1>1, <1>3, Names, SMT DEF BioInv, Owners
  <1>5. Requests'
    <2>1. \A c \in Buf :
             /\ c \in Range(idequeue)' <=> \E g \in Hand : pc'[g] = "iosleep" /\ buf'[g] = c
             /\ dirty'[c] => valid'[c]
      BY <1>1, <1>3, SMT DEF BioInv, Requests
    <2>2. ASSUME NEW g \in Hand
          PROVE  /\ pc'[g] = "has" => valid'[buf'[g]]
                 /\ pc'[g] \in {"iderw", "iosleep"} => (valid'[buf'[g]] => dirty'[buf'[g]])
                 /\ pc'[g] = "iowait" => valid'[buf'[g]] /\ ~dirty'[buf'[g]]
      <3>1. /\ pc[g] = "has" => valid[buf[g]]
            /\ pc[g] \in {"iderw", "iosleep"} => (valid[buf[g]] => dirty[buf[g]])
            /\ pc[g] = "iowait" => valid[buf[g]] /\ ~dirty[buf[g]]
        BY DEF BioInv, Requests
      <3>2. UNCHANGED <<valid, dirty, buf>>
        BY <1>1
      <3> QED
        BY ONLY <1>2, <1>3, <2>2, <3>1, <3>2
    <2>3. IsInjective(idequeue)'
      BY <1>1 DEF BioInv, Requests
    <2> QED
      BY <2>1, <2>2, <2>3 DEF Requests
  <1>6. Driver' /\ Clean'
    BY <1>1 DEF BioInv, Driver, Clean, Below
  <1>7. Pinned' \subseteq Pinned
    BY <1>1, <1>3 DEF Pinned
  <1> QED
    BY <1>1, <1>4, <1>5, <1>6, <1>7 DEF BioInv, Keeps

\* The disk carries out its request: what is below a block stays the same.
LEMMA DiskDoneDoes ==
    ASSUME BioInv, DiskDone
    PROVE  /\ UNCHANGED <<lru, blockno, busy, valid, dirty, data, idequeue, misread, pc, want,
                          buf, panic>>
           /\ irq' = TRUE /\ device'.done
           /\ device'.blk = device.blk /\ (device'.write <=> device.write)
           /\ \A blk \in Block : Below(blk)' = Below(blk) /\ disk'[blk] = Below(blk)
           /\ ~device.write => device'.data = disk'[device.blk]
  <1>1. /\ UNCHANGED <<lru, blockno, busy, valid, dirty, data, idequeue, misread, pc, want,
                       buf, panic>>
        /\ irq' = TRUE /\ ~device.done
    BY DEF DiskDone, cache, flags
  <1>2. device.blk \in Block
    BY <1>1 DEF BioInv, Driver
  <1>3. PICK d : device' = [device EXCEPT !.done = TRUE, !.data = d]
    BY DEF DiskDone
  <1>4. device'.done /\ device'.blk = device.blk /\ (device'.write <=> device.write)
    BY <1>3 DEF BioInv, TypeOK
  <1>5. CASE device.write
    <2>1. \A blk \in Block : disk'[blk] = IF blk = device.blk THEN device.data ELSE disk[blk]
      BY <1>5, SMT DEF DiskDone, BioInv, TypeOK
    <2> QED
      BY <1>1, <1>4, <1>5, <2>1 DEF Below
  <1>6. CASE ~device.write
    <2>1. disk' = disk /\ device'.data = disk[device.blk]
      BY <1>6 DEF DiskDone, BioInv, TypeOK
    <2> QED
      BY <1>1, <1>4, <1>6, <2>1 DEF Below
  <1> QED
    BY <1>5, <1>6

\* The disk finishes the command at the head of the queue.
LEMMA DiskDoneStep ==
    ASSUME BioInv, TypeOK', DiskDone
    PROVE  BioInv' /\ Keeps
  <1>1. /\ UNCHANGED <<lru, blockno, busy, valid, dirty, data, idequeue, misread, pc, want,
                       buf, panic>>
        /\ irq' = TRUE /\ device'.done
        /\ device'.blk = device.blk /\ (device'.write <=> device.write)
        /\ \A blk \in Block : Below(blk)' = Below(blk) /\ disk'[blk] = Below(blk)
        /\ ~device.write => device'.data = disk'[device.blk]
    BY DiskDoneDoes
  <1>2. Owners' /\ Requests'
    <2>1. Owners /\ Requests
      BY DEF BioInv
    <2>2. Owners'
      BY <1>1, <2>1, SMT DEF Owners
    <2>3. Requests'
      BY <1>1, <2>1, SMT DEF Requests
    <2> QED
      BY <2>2, <2>3
  <1>3. Driver'
    <2>1. idequeue # <<>> => blockno[Head(idequeue)] \in Block
      BY HeadOwner
    <2> QED
      BY <1>1, <2>1 DEF BioInv, Driver
  <1>4. Clean'
    BY <1>1 DEF BioInv, Clean
  <1>5. Pinned' \subseteq Pinned
    BY <1>1 DEF Pinned
  <1> QED
    BY <1>1, <1>2, <1>3, <1>4, <1>5 DEF BioInv, Keeps

\* An interrupt without a reason.
LEMMA SpuriousStep ==
    ASSUME BioInv, TypeOK', Spurious
    PROVE  BioInv' /\ Keeps
  <1>1. /\ UNCHANGED <<lru, blockno, busy, valid, dirty, data, idequeue, device, disk, misread,
                       pc, want, buf, panic>>
        /\ irq' = TRUE
    BY DEF Spurious, cache, flags
  <1>2. Owners'
    BY <1>1 DEF BioInv, Owners, Holding
  <1>3. Requests'
    BY <1>1 DEF BioInv, Requests
  <1>4. Driver'
    BY <1>1 DEF BioInv, Driver, Below
  <1>5. Clean'
    BY <1>1 DEF BioInv, Clean, Below
  <1>6. Pinned' \subseteq Pinned
    BY <1>1 DEF Pinned
  <1> QED
    BY <1>1, <1>2, <1>3, <1>4, <1>5, <1>6 DEF BioInv, Keeps

\* The interrupt answers the request at the head of the queue ...
LEMMA IntrFlags ==
    ASSUME BioInv, ideintr, idequeue # <<>>, NEW b, b = Head(idequeue)
    PROVE  /\ UNCHANGED <<lru, blockno, busy, disk, want, buf, panic>>
           /\ idequeue' = Tail(idequeue) /\ StartNext
           /\ b \in Buf /\ blockno[b] \in Block
           /\ \A c \in Buf : valid'[c] <=> valid[c] \/ c = b
           /\ \A c \in Buf : dirty'[c] <=> dirty[c] /\ c # b
           /\ \A c \in Buf : c # b => data'[c] = data[c]
           /\ \/ dirty[b] /\ data' = data /\ misread' = misread
              \/ ~dirty[b] /\ device.done /\ data'[b] = device.data /\ misread' = misread
              \/ ~dirty[b] /\ device.done /\ data' = data /\ misread' = misread \cup {blockno[b]}
           /\ blockno[b] \notin misread' => data'[b] = Below(blockno[b])
  <1>1. /\ UNCHANGED <<lru, blockno, busy, disk, want, buf>>
        /\ idequeue' = Tail(idequeue) /\ insl(b) /\ StartNext
        /\ valid' = [valid EXCEPT ![b] = TRUE] /\ dirty' = [dirty EXCEPT ![b] = FALSE]
    BY DEF ideintr, cache, flags
  <1>0. UNCHANGED panic
    <2>1. CASE idequeue' = <<>>
      BY <1>1, <2>1 DEF StartNext
    <2>2. CASE idequeue' # <<>>
      <3>1. PICK nx : nx = Head(idequeue')
        OBVIOUS
      <3>2. nx \in Buf /\ blockno[nx] \in Block
        BY <1>1, <2>2, <3>1, NextOwner
      <3> QED
        BY <1>1, <2>2, <3>1, <3>2, Started DEF StartNext, BioInv
    <2> QED
      BY <2>1, <2>2
  <1>2. b \in Buf /\ blockno[b] \in Block
    BY HeadOwner
  <1>3. \A c \in Buf : valid'[c] <=> valid[c] \/ c = b
    BY <1>1, <1>2 DEF BioInv, TypeOK
  <1>4. \A c \in Buf : dirty'[c] <=> dirty[c] /\ c # b
    BY <1>1, <1>2 DEF BioInv, TypeOK
  <1>5. /\ \A c \in Buf : c # b => data'[c] = data[c]
        /\ \/ dirty[b] /\ data' = data /\ misread' = misread
           \/ ~dirty[b] /\ device.done /\ data'[b] = device.data /\ misread' = misread
           \/ ~dirty[b] /\ device.done /\ data' = data /\ misread' = misread \cup {blockno[b]}
    BY <1>1, <1>2 DEF insl, Ready, BioInv, TypeOK
  <1>6. /\ dirty[b] => Below(blockno[b]) = data[b]
        /\ ~dirty[b] /\ device.done =>
              device.data = disk[blockno[b]] /\ Below(blockno[b]) = disk[blockno[b]]
    BY DEF BioInv, Driver, Below
  <1> QED
    BY <1>0, <1>1, <1>2, <1>3, <1>4, <1>5, <1>6

\* ... wakes its owner ...
LEMMA IntrWakes ==
    ASSUME BioInv, ideintr, idequeue # <<>>, NEW b, b = Head(idequeue)
    PROVE  /\ \A g \in Hand :
                 pc'[g] \in Holding /\ g \in Hand =>
                    /\ pc[g] \in Holding
                    /\ pc'[g] = IF buf[g] = b THEN "iowait" ELSE pc[g]
           /\ \A g \in Hand : pc[g] \in Holding => pc'[g] \in Holding
           /\ \A g \in Hand : pc[g] = "idle" => pc'[g] = "idle"
  <1>1. PICK o \in Hand : pc[o] = "iosleep" /\ buf[o] = b
    BY HeadOwner
  <1>2. \A g \in Hand : pc[g] \in Holding /\ buf[g] = b => pc[g] = "iosleep"
    BY <1>1, Names, SMT DEF BioInv, Owners
  <1>3. pc' = Wakeup(b)
    BY DEF ideintr
  <1>4. \A g \in Hand :
           Wakeup(b)[g] = IF buf[g] # b THEN pc[g]
                          ELSE IF pc[g] = "bsleep" THEN "bget"
                          ELSE IF pc[g] = "iosleep" THEN "iowait" ELSE pc[g]
    BY WakeupDoes DEF BioInv
  <1> QED
    BY <1>2, <1>3, <1>4, Names

\* ... and gives the device the next one ...
LEMMA IntrStarts ==
    ASSUME BioInv, ideintr, idequeue # <<>>, idequeue' # <<>>, NEW nx, nx = Head(idequeue')
    PROVE  /\ nx \in Buf /\ nx # Head(idequeue) /\ blockno[nx] \in Block
           /\ device'.blk = blockno[nx] /\ ~device'.done /\ (device'.write <=> dirty[nx])
           /\ \A blk \in Block :
                 /\ (dirty[nx] => blk # blockno[nx]) => Below(blk)' = Below(blk)
                 /\ dirty[nx] /\ blk = blockno[nx] => Below(blk)' = data[nx]
  <1>1. idequeue' = Tail(idequeue) /\ idestart(nx) /\ UNCHANGED disk
    BY DEF ideintr, StartNext
  <1>2. nx \in Buf /\ nx # Head(idequeue) /\ blockno[nx] \in Block
    BY <1>1, NextOwner
  <1>3. device'.blk = blockno[nx] /\ (device'.write <=> dirty[nx]) /\ ~device'.done
    BY <1>1, <1>2, Started DEF BioInv
  <1> QED
    BY <1>1, <1>2, <1>3, StartedBelow DEF BioInv

\* ... or nothing.
LEMMA IntrIdles ==
    ASSUME BioInv, ideintr, idequeue' = <<>>
    PROVE  /\ \A blk \in Block : Below(blk)' = Below(blk)
           /\ ~device'.done => device'.blk \in Block
  <1>1. UNCHANGED disk /\ device' = IF Ready THEN Idle ELSE device
    BY DEF ideintr, StartNext
  <1>2. CASE device.done
    BY <1>1, <1>2, IdleIs DEF Ready, Below
  <1>3. CASE ~device.done
    BY <1>1, <1>3 DEF Ready, Below, BioInv, Driver
  <1> QED
    BY <1>2, <1>3

\* ideintr() takes the head off the queue, wakes its owner and starts the next.
LEMMA IntrStep ==
    ASSUME BioInv, TypeOK', ideintr
    PROVE  BioInv' /\ Keeps
  <1>1. CASE idequeue = <<>>
    <2>1. /\ UNCHANGED <<lru, blockno, busy, valid, dirty, data, idequeue, disk, misread, pc,
                         want, buf, panic>>
      BY <1>1 DEF ideintr, cache, flags
    <2>2. /\ \A blk \in Block : Below(blk)' = Below(blk)
          /\ ~device'.done => device'.blk \in Block
      BY <1>1, <2>1, IntrIdles
    <2>3. Owners' /\ Requests'
      BY <2>1, Names DEF BioInv, Owners, Requests
    <2>4. Driver'
      BY <1>1, <2>1, <2>2 DEF Driver
    <2>5. Clean'
      BY <2>1, <2>2 DEF BioInv, Clean
    <2>6. Pinned' \subseteq Pinned
      BY <2>1 DEF Pinned
    <2> QED
      BY <2>1, <2>3, <2>4, <2>5, <2>6 DEF BioInv, Keeps
  <1>2. CASE idequeue # <<>>
    <2>0. PICK b : b = Head(idequeue)
      OBVIOUS
    <2>1. /\ UNCHANGED <<lru, blockno, busy, disk, want, buf, panic>>
          /\ idequeue' = Tail(idequeue)
          /\ b \in Buf /\ blockno[b] \in Block
          /\ \A c \in Buf : valid'[c] <=> valid[c] \/ c = b
          /\ \A c \in Buf : dirty'[c] <=> dirty[c] /\ c # b
          /\ \A c \in Buf : c # b => data'[c] = data[c]
          /\ misread \subseteq misread'
          /\ blockno[b] \notin misread' => data'[b] = Below(blockno[b])
      BY <1>2, <2>0, IntrFlags, SMT
    <2>2. /\ \A g \in Hand :
                 pc'[g] \in Holding /\ g \in Hand =>
                    /\ pc[g] \in Holding
                    /\ pc'[g] = IF buf[g] = b THEN "iowait" ELSE pc[g]
          /\ \A g \in Hand : pc[g] \in Holding => pc'[g] \in Holding
          /\ \A g \in Hand : pc[g] = "idle" => pc'[g] = "idle"
      BY <1>2, <2>0, IntrWakes
    <2>3. IsInjective(idequeue') /\ Range(idequeue') = Range(idequeue) \ {b}
      BY <1>2, <2>0, <2>1, Dequeue DEF BioInv, TypeOK, Requests
    <2>4. Owners'
      <3>1. \A c \in Buf : busy'[c] => \E g \in Hand : pc'[g] \in Holding /\ buf'[g] = c
        BY <2>1, <2>2 DEF BioInv, Owners
      <3>2. \A g, r \in Hand :
               pc'[g] \in Holding /\ pc'[r] \in Holding /\ buf'[g] = buf'[r] => g = r
        BY <2>1, <2>2 DEF BioInv, Owners
      <3>3. \A g \in Hand :
               /\ pc'[g] # "idle" => want'[g] \in Block
               /\ pc'[g] \in Holding =>
                     buf'[g] \in Buf /\ busy'[buf'[g]] /\ blockno'[buf'[g]] = want'[g]
        BY <2>1, <2>2 DEF BioInv, Owners
      <3> QED
        BY <2>1, <3>1, <3>2, <3>3 DEF BioInv, Owners
    <2>5. Requests'
      <3>1. \A g \in Hand : pc[g] \in Holding => buf[g] \in Buf
        BY DEF BioInv, Owners
      <3>2. ASSUME NEW c \in Buf
            PROVE  /\ c \in Range(idequeue') <=> \E g \in Hand : pc'[g] = "iosleep" /\ buf'[g] = c
                   /\ dirty'[c] => valid'[c]
        <4>1. ASSUME NEW g \in Hand, pc'[g] = "iosleep"
              PROVE  pc[g] = "iosleep" /\ buf[g] # b
          BY <2>2, <4>1, Names
        <4>2. ASSUME NEW g \in Hand, pc[g] = "iosleep", buf[g] # b
              PROVE  pc'[g] = "iosleep"
          BY <2>2, <4>2, Names
        <4> QED
          BY <2>1, <2>3, <4>1, <4>2 DEF BioInv, Requests
      <3>3. ASSUME NEW g \in Hand
            PROVE  /\ pc'[g] = "has" => valid'[buf'[g]]
                   /\ pc'[g] \in {"iderw", "iosleep"} => (valid'[buf'[g]] => dirty'[buf'[g]])
                   /\ pc'[g] = "iowait" => valid'[buf'[g]] /\ ~dirty'[buf'[g]]
        <4>1. CASE pc'[g] \notin Holding
          BY <4>1, Names
        <4>2. CASE pc'[g] \in Holding /\ buf[g] = b
          BY <2>1, <2>2, <4>2
        <4>3. CASE pc'[g] \in Holding /\ buf[g] # b
          <5>1. pc'[g] = pc[g] /\ buf[g] \in Buf
            BY <2>2, <3>1, <4>3
          <5> QED
            BY <2>1, <4>3, <5>1, ZenonT(40) DEF BioInv, Requests
        <4> QED
          BY <4>1, <4>2, <4>3
      <3> QED
        BY <2>3, <3>2, <3>3 DEF Requests
    <2>6. Driver' /\ Clean'
      <3>1. CASE idequeue' = <<>>
        <4>1. /\ \A blk \in Block : Below(blk)' = Below(blk)
              /\ ~device'.done => device'.blk \in Block
          BY <3>1, IntrIdles
        <4>2. Driver'
          BY <3>1, <4>1 DEF Driver
        <4>3. Clean'
          BY <2>1, <4>1 DEF BioInv, Clean
        <4> QED
          BY <4>2, <4>3
      <3>2. CASE idequeue' # <<>>
        <4>0. PICK nx : nx = Head(idequeue')
          OBVIOUS
        <4>1. /\ nx \in Buf /\ nx # b /\ blockno[nx] \in Block
              /\ device'.blk = blockno[nx] /\ ~device'.done /\ (device'.write <=> dirty[nx])
              /\ \A blk \in Block :
                    /\ (dirty[nx] => blk # blockno[nx]) => Below(blk)' = Below(blk)
                    /\ dirty[nx] /\ blk = blockno[nx] => Below(blk)' = data[nx]
          BY <1>2, <2>0, <3>2, <4>0, IntrStarts
        <4>2. Driver'
          BY <2>1, <3>2, <4>0, <4>1 DEF Driver
        <4>3. ASSUME NEW c \in Buf, valid'[c], ~dirty'[c], blockno[c] \in Block \ misread'
              PROVE  data'[c] = Below(blockno[c])
          BY <2>1, <4>3 DEF BioInv, Clean
        <4>4. ASSUME NEW c \in Buf, ~dirty'[c], blockno[c] \in Block, dirty[nx]
              PROVE  blockno[c] # blockno[nx]
          BY <2>1, <4>1, <4>4, Names, SMT DEF BioInv, Owners
        <4>5. Clean'
          BY <2>1, <4>1, <4>3, <4>4 DEF Clean
        <4> QED
          BY <4>2, <4>5
      <3> QED
        BY <3>1, <3>2
    <2>7. Pinned' \subseteq Pinned
      <3>1. ASSUME NEW c \in Pinned'
            PROVE  c \in Pinned
        <4>1. c \in Buf /\ dirty[c] /\ c # b
          BY <2>1 DEF Pinned
        <4>2. ASSUME NEW g \in Hand, buf[g] = c, pc[g] \in {"iderw", "iosleep"}
              PROVE  FALSE
          <5>1. pc[g] \in Holding
            BY <4>2, Names
          <5>2. pc'[g] = pc[g] /\ buf'[g] = c
            BY <2>1, <2>2, <4>1, <4>2, <5>1
          <5> QED
            BY <4>2, <5>2 DEF Pinned
        <4> QED
          BY <4>1, <4>2 DEF Pinned
      <3> QED
        BY <3>1
    <2> QED
      BY <2>1, <2>4, <2>5, <2>6, <2>7 DEF BioInv, Keeps
  <1> QED
    BY <1>1, <1>2

\* Every step of the cache, the driver and the disk keeps the invariant.
LEMMA BioInvStep == BioInv /\ [Next]_vars => BioInv' /\ Keeps
  <1> SUFFICES ASSUME BioInv, [Next]_vars PROVE BioInv' /\ Keeps
    OBVIOUS
  <1>0. /\ TypeOK /\ Owners /\ IsInjective(idequeue)
        /\ ~device.done => device.blk \in Block
        /\ \A b \in Range(idequeue) : blockno[b] \in Block
    <2>1. ASSUME NEW b \in Range(idequeue)
          PROVE  blockno[b] \in Block
      <3>1. b \in Buf
        BY Elements DEF BioInv, TypeOK
      <3>2. PICK g \in Hand : pc[g] = "iosleep" /\ buf[g] = b
        BY <3>1 DEF BioInv, Requests
      <3> QED
        BY <3>2, Names, SMT DEF BioInv, Owners
    <2> QED
      BY <2>1 DEF BioInv, Requests, Driver
  <1>1. ASSUME NEW h \in Hand, (\E blk \in Block : bread(h, blk)) \/ bgetloop(h)
        PROVE  BioInv' /\ Keeps
    <2>1. PICK blk \in Block :
              /\ Wants(h, blk)
              /\ \/ \E b \in Buf : Sleeps(h, b, blk) \/ Takes(h, b, blk) \/ Recycles(h, b, blk)
                 \/ NoBuffers
      BY <1>0, <1>1, AskDoes
    <2>2. TypeOK'
      BY <1>0, <2>1, AskTypes
    <2> QED
      BY <2>1, <2>2, SleepsStep, TakesStep, RecyclesStep, NoBuffersStep
  <1>2. ASSUME NEW h \in Hand, NEW d \in Data, Writes(h, d) \/ log_write(h, d)
        PROVE  BioInv' /\ Keeps
    BY <1>0, <1>2, HolderTypes, WriteStep
  <1>3. ASSUME NEW h \in Hand, iderw(h) \/ iowait(h) \/ Releases(h)
        PROVE  BioInv' /\ Keeps
    BY <1>0, <1>3, HolderTypes, DriverTypes, IderwStep, IowaitStep, BrelseStep
  <1>4. CASE DiskDone \/ Spurious \/ ideintr
    BY <1>0, <1>4, DriverTypes, DiskDoneStep, SpuriousStep, IntrStep
  <1>5. CASE UNCHANGED vars \/ halted
    <2>1. /\ UNCHANGED <<lru, blockno, busy, valid, dirty, data, idequeue, device, irq, disk>>
          /\ UNCHANGED <<faults, misread, pc, want, buf, panic>>
      BY <1>5 DEF halted, vars, cache, flags, hardware
    <2>2. TypeOK'
      BY <1>0, <2>1 DEF TypeOK
    <2>3. Owners'
      BY <2>1 DEF BioInv, Owners, Holding
    <2>4. Requests'
      BY <2>1 DEF BioInv, Requests
    <2>5. Driver' /\ Clean'
      BY <2>1 DEF BioInv, Driver, Clean, Below
    <2>6. Pinned' \subseteq Pinned
      BY <2>1 DEF Pinned
    <2> QED
      BY <2>1, <2>2, <2>3, <2>4, <2>5, <2>6 DEF BioInv, Keeps
  <1> QED
    BY <1>0, <1>1, <1>2, <1>3, <1>4, <1>5, HasDoes DEF Next, Inside

=============================================================================
