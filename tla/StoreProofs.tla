---------------------------- MODULE StoreProofs -----------------------------
(***************************************************************************)
(* The theorems about the buffer cache and the disk driver: the invariant  *)
(* of BioProofs holds, the buffers are enough, and cache and disk together *)
(* implement the store of blocks, for any number of buffers, processes,    *)
(* hands and blocks.                                                       *)
(***************************************************************************)
EXTENDS BioProofs, FiniteSetTheorems

\* The provers: Zenon where nothing else is named, SMT where a step needs arithmetic
\* or much case analysis.
USE Zenon

-----------------------------------------------------------------------------
(* The buffers are enough *)

\* The size of a finite set is a number.
LEMMA SizeIs ==
    ASSUME NEW S, IsFiniteSet(S)
    PROVE  /\ Cardinality(S) \in Nat
           /\ Cardinality(S) = 0 <=> S = {}
  BY FS_CardinalityType, FS_EmptySet

\* No element, and one.
LEMMA SmallSizes ==
    /\ IsFiniteSet({}) /\ Cardinality({}) = 0
    /\ \A x : IsFiniteSet({x}) /\ Cardinality({x}) = 1
  BY FS_EmptySet, FS_Singleton

\* A part of a finite set.
LEMMA PartSize ==
    ASSUME NEW S, IsFiniteSet(S), NEW T \in SUBSET S
    PROVE  IsFiniteSet(T) /\ Cardinality(T) \in Nat /\ Cardinality(T) <= Cardinality(S)
  BY FS_Subset, FS_CardinalityType

\* One element less.
LEMMA LessOne ==
    ASSUME NEW S, IsFiniteSet(S), NEW x \in S
    PROVE  IsFiniteSet(S \ {x}) /\ Cardinality(S \ {x}) = Cardinality(S) - 1
  BY FS_RemoveElement

\* Two sets with nothing in common.
LEMMA SizeOfBoth ==
    ASSUME NEW S, IsFiniteSet(S), NEW T, IsFiniteSet(T), S \cap T = {}
    PROVE  /\ IsFiniteSet(S \cup T)
           /\ Cardinality(S \cup T) = Cardinality(S) + Cardinality(T)
  <1>1. /\ IsFiniteSet(S \cup T)
        /\ Cardinality(S \cup T) = Cardinality(S) + Cardinality(T) - Cardinality(S \cap T)
    BY FS_Union
  <1>2. Cardinality(S \cap T) = 0
    BY FS_EmptySet
  <1>3. Cardinality(S) \in Nat /\ Cardinality(T) \in Nat
    BY FS_CardinalityType
  <1> QED
    BY <1>1, <1>2, <1>3, SMT

\* A function reaches no more values than it has arguments.
LEMMA SizeOfImage ==
    ASSUME NEW S, IsFiniteSet(S), NEW T, NEW f \in [S -> T],
           \A y \in T : \E x \in S : f[x] = y
    PROVE  IsFiniteSet(T) /\ Cardinality(T) <= Cardinality(S)
  <1>1. f \in Surjection(S, T)
    BY DEF Surjection
  <1> QED
    BY <1>1, FS_Surjection

\* A list of a finite set that has no element twice has them all, and there is one.
LEMMA ListOfAll ==
    ASSUME NEW S, IsFiniteSet(S)
    PROVE  LET n == Cardinality(S)
           IN /\ \A f \in [1..n -> S] :
                    (\A i, j \in 1..n : f[i] = f[j] => i = j) => \A x \in S : \E i \in 1..n : f[i] = x
              /\ \E f \in [1..n -> S] : \A i, j \in 1..n : f[i] = f[j] => i = j
  <1> DEFINE n == Cardinality(S)
  <1>1. n \in Nat /\ ExistsBijection(1..n, S)
    BY FS_CardinalityType
  <1>2. Cardinality(1..n) = n
    BY <1>1, FS_Interval, SMT
  <1>3. ASSUME NEW f \in [1..n -> S], \A i, j \in 1..n : f[i] = f[j] => i = j
        PROVE  \A x \in S : \E i \in 1..n : f[i] = x
    <2>1. f \in Injection(1..n, S)
      BY <1>3 DEF Injection, IsInjective
    <2>2. f \in Surjection(1..n, S)
      BY <1>2, <2>1, FS_Injection
    <2> QED
      BY <2>2 DEF Surjection
  <1>4. PICK f : f \in Bijection(1..n, S)
    BY <1>1 DEF ExistsBijection
  <1>5. f \in [1..n -> S] /\ \A i, j \in 1..n : f[i] = f[j] => i = j
    BY <1>4 DEF Bijection, Injection, IsInjective
  <1> QED
    BY <1>3, <1>5

\* Every buffer is in a list of that length once.
LEMMA Listed ==
    ASSUME NEW s \in Injection(1..Cardinality(Buf), Buf)
    PROVE  /\ s \in Seq(Buf) /\ Len(s) = Cardinality(Buf) /\ Cardinality(Buf) \in Nat
           /\ \A i, j \in 1..Len(s) : s[i] = s[j] => i = j
           /\ \A b \in Buf : \E i \in 1..Len(s) : s[i] = b
  <1> DEFINE n == Cardinality(Buf)
  <1>1. n \in Nat /\ IsFiniteSet(Buf)
    BY BioConstants, SizeIs
  <1>2. s \in [1..n -> Buf] /\ \A i, j \in 1..n : s[i] = s[j] => i = j
    BY DEF Injection, IsInjective
  <1>6. \A b \in Buf : \E i \in 1..n : s[i] = b
    BY <1>1, <1>2, ListOfAll, SMT
  <1>7. s \in Seq(Buf) /\ Len(s) = n
    <2>1. s \in Seq(Buf)
      BY <1>1, <1>2, SeqIs, SMT
    <2>2. DOMAIN s = 1..n /\ DOMAIN s = 1..Len(s) /\ Len(s) \in Nat
      BY <1>2, <2>1, LenIs
    <2> QED
      BY <1>1, <2>1, <2>2, SMT
  <1> QED
    BY <1>1, <1>2, <1>6, <1>7

\* binit() makes such a list.
LEMMA ListExists == Injection(1..Cardinality(Buf), Buf) # {}
  <1>1. PICK f \in [1..Cardinality(Buf) -> Buf] :
            \A i, j \in 1..Cardinality(Buf) : f[i] = f[j] => i = j
    BY BioConstants, ListOfAll
  <1> QED
    BY <1>1 DEF Injection, IsInjective

\* binit() and ideinit() leave a state that satisfies the invariant.
LEMMA BioInvInit == Init => BioInv
  <1> SUFFICES ASSUME Init PROVE BioInv
    OBVIOUS
  <1> USE Names DEF Init
  <1>1. lru \in Seq(Buf) /\ IsInjective(lru) /\ Range(lru) = Buf
    <2>1. lru \in Injection(1..Cardinality(Buf), Buf)
      BY ListExists
    <2>2. /\ lru \in Seq(Buf)
          /\ \A i, j \in 1..Len(lru) : lru[i] = lru[j] => i = j
          /\ \A b \in Buf : \E i \in 1..Len(lru) : lru[i] = b
      BY <2>1, Listed
    <2>3. /\ Range(lru) = {lru[i] : i \in 1..Len(lru)} /\ Range(lru) \subseteq Buf
          /\ IsInjective(lru)
      BY ONLY <2>2, Elements
    <2> QED
      BY ONLY <2>2, <2>3
  <1>2. \A b \in Buf : ~busy[b] /\ ~valid[b] /\ ~dirty[b] /\ blockno[b] = NoBlock
    OBVIOUS
  <1>3. busy \in [Buf -> BOOLEAN] /\ valid \in [Buf -> BOOLEAN] /\ dirty \in [Buf -> BOOLEAN]
    OBVIOUS
  <1>4. device = Idle /\ idequeue = <<>>
    OBVIOUS
  <1>5. TypeOK
    <2>1. blockno \in [Buf -> Block \cup {NoBlock}] /\ data \in [Buf -> Data]
      BY IdleIs
    <2>2. pc \in [Hand -> Place] /\ want \in [Hand -> Block \cup {NoBlock}]
      OBVIOUS
    <2>3. buf \in [Hand -> Buf \cup {NoBuf}] /\ disk \in [Block -> Data] /\ faults \in 0..MaxFaults
      BY BioConstants, SMT
    <2>4. irq \in BOOLEAN /\ panic \in Panics \cup {"none"}
      OBVIOUS
    <2>5. misread \subseteq Block /\ idequeue \in Seq(Buf)
      BY <1>4, SMT
    <2>6. device \in [blk : Block \cup {NoBlock}, write : BOOLEAN, data : Data, done : BOOLEAN]
      BY <1>4, IdleIs
    <2> QED
      BY ONLY <1>1, <1>3, <2>1, <2>2, <2>3, <2>4, <2>5, <2>6 DEF TypeOK
  <1>6. Owners
    BY <1>2 DEF Owners
  <1>7. Requests
    <2>1. Range(idequeue) = {} /\ IsInjective(idequeue)
      BY <1>4, SMT DEF Range, IsInjective
    <2> QED
      BY <1>2, <2>1 DEF Requests
  <1>8. Driver /\ Clean
    BY <1>2, <1>4, IdleIs DEF Driver, Clean
  <1> QED
    BY <1>5, <1>6, <1>7, <1>8 DEF BioInv

\* Every reachable state of the cache and the driver satisfies the invariant.
THEOREM BioInvariance == Spec => []BioInv
  BY BioInvInit, BioInvStep, PTL DEF Spec

\* The panic "bget: no buffers" needs more pinned blocks and buffers in use than
\* there are: the hand that asks holds none itself.
LEMMA BuffersEnough ==
    ASSUME BioInv, Cardinality(Pinned) <= MaxDirty, Full
    PROVE  Cardinality(Buf) < MaxDirty + Cardinality(InUse)
  <1>0. PICK h \in InUse : pc[h] \notin Holding
    BY DEF Full
  <1> DEFINE Q == {g \in InUse \ {h} : pc[g] \in Holding}
             B == {b \in Buf : busy[b]}
             D == {b \in Buf : ~busy[b]}
             f == [g \in Q |-> buf[g]]
  <1>1. /\ IsFiniteSet(InUse) /\ IsFiniteSet(Buf) /\ Cardinality(InUse) \in Nat
        /\ Cardinality(Buf) \in Nat
    <2>1. InUse \in SUBSET Hand /\ IsFiniteSet(Hand) /\ IsFiniteSet(Buf)
      BY BioConstants DEF InUse
    <2> QED
      BY <2>1, SizeIs, PartSize
  <1>2. f \in [Q -> B] /\ \A b \in B : \E g \in Q : f[g] = b
    <2>1. f \in [Q -> B]
      BY DEF BioInv, Owners, InUse
    <2>2. ASSUME NEW b \in B
          PROVE  \E g \in Q : f[g] = b
      <3>1. PICK g \in Hand : pc[g] \in Holding /\ buf[g] = b
        BY DEF BioInv, Owners
      <3>2. pc[g] # "idle"
        BY <3>1, Names
      <3>3. want[g] \in Block
        BY <3>2 DEF BioInv, Owners
      <3>4. g \in InUse /\ g # h
        BY <1>0, <3>1, <3>3, Names DEF InUse
      <3> QED
        BY <3>1, <3>4
    <2> QED
      BY <2>1, <2>2
  <1>3. /\ IsFiniteSet(InUse \ {h}) /\ Cardinality(InUse \ {h}) = Cardinality(InUse) - 1
    BY <1>1, LessOne
  <1>4. IsFiniteSet(Q) /\ Cardinality(Q) <= Cardinality(InUse) - 1
    BY <1>3, PartSize
  <1>5. IsFiniteSet(B) /\ Cardinality(B) <= Cardinality(Q)
    BY <1>2, <1>4, SizeOfImage
  <1>6. D \subseteq Pinned
    <2>1. ASSUME NEW b \in D
          PROVE  b \in Pinned
      <3>1. \A g \in Hand : pc[g] \in Holding => buf[g] # b
        BY FreeBuffer
      <3> QED
        BY <3>1, Names DEF Pinned, Full
    <2> QED
      BY <2>1
  <1>7. IsFiniteSet(Pinned) /\ Cardinality(Pinned) <= MaxDirty
    BY <1>1, PartSize DEF Pinned
  <1>8. IsFiniteSet(D) /\ Cardinality(D) <= Cardinality(Pinned)
    BY <1>6, <1>7, PartSize
  <1>9. B \cup D = Buf /\ B \cap D = {}
    BY DEF BioInv, TypeOK
  <1>10. Cardinality(Buf) = Cardinality(B) + Cardinality(D)
    BY <1>5, <1>8, <1>9, SizeOfBoth
  <1>11. /\ Cardinality(B) \in Nat /\ Cardinality(D) \in Nat /\ Cardinality(Q) \in Nat
         /\ Cardinality(Pinned) \in Nat /\ MaxDirty \in Nat
    BY <1>4, <1>5, <1>7, <1>8, SizeIs, BioConstants
  <1> HIDE DEF B, D, Q, f
  <1> QED
    BY <1>1, <1>4, <1>5, <1>7, <1>8, <1>10, <1>11, SMT

\* Nothing is pinned when the kernel starts.
LEMMA RoomInit == Init => Room
  <1>1. Init => Pinned = {}
    BY SMT DEF Init, Pinned
  <1>2. Cardinality({}) <= MaxDirty
    BY SmallSizes, BioConstants, SMT
  <1> QED
    BY <1>1, <1>2 DEF Init, Room, NoPanic

\* A kernel that has panicked does nothing more.
LEMMA Stopped ==
    ASSUME [Next]_vars, panic # "none"
    PROVE  UNCHANGED vars
  <1>1. \A h \in Hand :
           /\ \A blk \in Block : ~bread(h, blk)
           /\ \A d \in Data : ~bwrite(h, d) /\ ~log_write(h, d)
           /\ ~bgetloop(h) /\ ~iderw(h) /\ ~iowait(h) /\ ~brelse(h)
    BY DEF bread, bwrite, log_write, bgetloop, iderw, iowait, brelse, At
  <1>2. ~DiskDone /\ ~Spurious /\ ~ideintr
    BY DEF DiskDone, Spurious, ideintr
  <1> QED
    BY <1>1, <1>2 DEF Next, Inside, halted

\* Every step leaves the room that the next panic would need.
LEMMA RoomStep == BioInv /\ BioInv' /\ Room /\ [Next]_vars => Room'
  <1> SUFFICES ASSUME BioInv, BioInv', Room, [Next]_vars, Keeps PROVE Room'
    BY BioInvStep
  <1>1. Pinned \subseteq Buf /\ IsFiniteSet(Buf) /\ MaxDirty \in Nat
    BY BioConstants DEF Pinned
  <1>2. PICK P \in SUBSET Buf : Pinned' \subseteq P /\ Cardinality(P) <= MaxDirty
    BY <1>1 DEF Keeps, Room
  <1>3. IsFiniteSet(P) /\ Cardinality(P) \in Nat
    BY <1>1, PartSize
  <1>4. Cardinality(Pinned') \in Nat /\ Cardinality(Pinned') <= Cardinality(P)
    BY <1>2, <1>3, PartSize
  <1>5. Cardinality(Pinned') <= MaxDirty
    BY <1>1, <1>2, <1>3, <1>4, SMT
  <1>6. NoPanic'
    <2>1. CASE panic # "none"
      <3>1. UNCHANGED <<panic, want>>
        BY <2>1, Stopped DEF vars
      <3> QED
        BY <3>1 DEF Room, NoPanic, InUse
    <2>2. CASE panic = "none" /\ panic' = panic
      BY <2>2 DEF NoPanic
    <2>3. CASE panic' = "bget: no buffers" /\ Full'
      <3>1. (BioInv /\ Cardinality(Pinned) <= MaxDirty /\ Full)'
                => (Cardinality(Buf) < MaxDirty + Cardinality(InUse))'
        BY BuffersEnough, PTL
      <3>2. Cardinality(Buf) < MaxDirty + Cardinality(InUse')
        BY <1>5, <2>3, <3>1
      <3> QED
        BY <2>3, <3>2 DEF NoPanic
    <2> QED
      BY <2>1, <2>2, <2>3 DEF Keeps
  <1> QED
    BY <1>5, <1>6 DEF Room

\* The panic "bget: no buffers" (bio.c:95) takes more pinned blocks and buffers in
\* use than there are buffers, and bwrite() (bio.c:116), brelse() (bio.c:127),
\* iderw() (ide.c:139, ide.c:141) and idestart() (ide.c:77) never panic.
THEOREM BioNoPanic == Spec => []NoPanic
  <1>1. Room => NoPanic
    BY DEF Room
  <1> QED
    BY <1>1, RoomInit, RoomStep, BioInvariance, PTL DEF Spec

\* The queue of the driver holds every buffer once, its head is what the disk
\* works on or has answered, and every request has one process that waits for
\* it (ide.c:111, ide.c:151, ide.c:159).
THEOREM BioQueueServed == Spec => []QueueServed
  <1>1. BioInv => QueueServed
    <2> SUFFICES ASSUME BioInv PROVE QueueServed
      OBVIOUS
    <2>1. ASSUME NEW b \in Range(idequeue)
          PROVE  Cardinality({h \in Hand : buf[h] = b /\ pc[h] \in {"iosleep", "iowait"}}) = 1
      <3>1. b \in Buf
        BY Elements DEF BioInv, TypeOK
      <3>2. PICK h \in Hand : pc[h] = "iosleep" /\ buf[h] = b
        BY <3>1 DEF BioInv, Requests
      <3>3. \A g \in Hand : buf[g] = b /\ pc[g] \in {"iosleep", "iowait"} => g = h
        BY <3>2, Names, SMT DEF BioInv, Owners
      <3>4. {g \in Hand : buf[g] = b /\ pc[g] \in {"iosleep", "iowait"}} = {h}
        BY <3>2, <3>3
      <3> QED
        BY <3>4, SmallSizes
    <2> QED
      BY <2>1 DEF QueueServed, BioInv, Requests, Driver
  <1> QED
    BY <1>1, BioInvariance, PTL

-----------------------------------------------------------------------------
(* The cache and the disk implement the store of blocks *)

\* What a block holds: the copy that has been read, or what is below.
Known ==
    /\ Content \in [Block \ misread -> Data]
    /\ \A blk \in Block \ misread :
          /\ \A b \in Buf : valid[b] /\ blockno[b] = blk => Content[blk] = data[b]
          /\ (\A b \in Buf : valid[b] => blockno[b] # blk) => Content[blk] = Below(blk)

\* What a valid buffer holds is what the abstract store holds.
LEMMA ContentKnown == BioInv => Known
  <1> SUFFICES ASSUME BioInv PROVE Known
    OBVIOUS
  <1>1. ASSUME NEW blk \in Block \ misread
        PROVE  /\ Content[blk] \in Data
               /\ \A b \in Buf : valid[b] /\ blockno[b] = blk => Content[blk] = data[b]
               /\ (\A b \in Buf : valid[b] => blockno[b] # blk) => Content[blk] = Below(blk)
    <2> DEFINE copies == {b \in Cached(blk) : valid[b] \/ dirty[b]}
    <2>1. Content[blk] = IF copies # {} THEN data[CHOOSE b \in copies : TRUE] ELSE Below(blk)
      BY DEF Content, Below
    <2>2. \A b \in Buf : b \in copies <=> valid[b] /\ blockno[b] = blk
      BY DEF Cached, BioInv, Requests
    <2>3. copies \subseteq Buf
      BY DEF Cached
    <2>4. \A b, c \in copies : b = c
      BY <2>2, <2>3, Names, SMT DEF BioInv, Owners
    <2>5. Below(blk) \in Data
      BY DEF Below, BioInv, TypeOK
    <2> HIDE DEF copies
    <2>6. copies # {} => (CHOOSE b \in copies : TRUE) \in copies
      OBVIOUS
    <2>7. \A b \in copies : Content[blk] = data[b]
      BY <2>1, <2>4, <2>6
    <2>8. copies = {} => Content[blk] = Below(blk)
      BY <2>1
    <2>9. Content[blk] \in Data
      BY <2>3, <2>5, <2>7, <2>8 DEF BioInv, TypeOK
    <2> QED
      BY <2>2, <2>3, <2>7, <2>8, <2>9
  <1>2. Content \in [Block \ misread -> Data]
    <2>1. DOMAIN Content = Block \ misread /\ Content = [blk \in DOMAIN Content |-> Content[blk]]
      BY SMT DEF Content
    <2> QED
      BY <1>1, <2>1
  <1> QED
    BY <1>1, <1>2 DEF Known

\* The content of a block changes only with its copy, or with what is below a
\* block that has none.
LEMMA ContentKept ==
    ASSUME Known, Known', misread' = misread,
           \A blk \in Block \ misread : Content'[blk] = Content[blk]
    PROVE  Content' = Content
  BY SMT DEF Known

\* What a block holds as long as its copy and what is below it stay.
LEMMA ContentStays ==
    ASSUME BioInv, BioInv', UNCHANGED <<blockno, valid, data, misread>>,
           \A blk \in Block : (\E b \in Buf : valid[b] /\ blockno[b] = blk)
                                  \/ Below(blk)' = Below(blk)
    PROVE  Content' = Content
  <1>1. Known
    BY ContentKnown
  <1>2. BioInv' => Known'
    BY ContentKnown, PTL
  <1>3. ASSUME NEW blk \in Block \ misread
        PROVE  Content'[blk] = Content[blk]
    BY <1>1, <1>2, SMT DEF Known
  <1> QED
    BY <1>1, <1>2, <1>3, ContentKept

\* A step in which nobody gets or gives back a buffer.
LEMMA HolderStays ==
    ASSUME \A h \in Hand : /\ pc'[h] \in Holding <=> pc[h] \in Holding
                           /\ pc[h] \in Holding => want'[h] = want[h]
    PROVE  Holder' = Holder
  <1>1. Holding' = Holding
    BY DEF Holding
  <1>2. ASSUME NEW blk \in Block
        PROVE  {h \in Hand : want'[h] = blk /\ pc'[h] \in Holding}
                  = {h \in Hand : want[h] = blk /\ pc[h] \in Holding}
    OBVIOUS
  <1> QED
    BY <1>1, <1>2 DEF Holder

\* bget() gives the block to a process when nobody has it.
LEMMA TakesHolds ==
    ASSUME BioInv, BioInv', NEW h \in Hand, NEW blk \in Block, Wants(h, blk),
           NEW b \in Buf, Takes(h, b, blk) \/ Recycles(h, b, blk)
    PROVE  Store!Hold(h, blk)
  <1>1. /\ UNCHANGED <<data, device, disk, misread>>
        /\ pc[h] \notin Holding /\ ~busy[b]
    BY Names DEF Wants, Takes, Recycles, hardware
  <1>2. /\ \A g \in Hand : g # h => pc'[g] = pc[g] /\ want'[g] = want[g]
        /\ pc'[h] \in Holding /\ want'[h] = blk
    BY Names, SMT DEF Wants, Takes, Recycles, BioInv, TypeOK
  <1>3. ASSUME NEW g \in Hand, want[g] = blk, pc[g] \in Holding
        PROVE  FALSE
    <2>1. buf[g] \in Buf /\ blockno[buf[g]] = blk /\ buf[g] # b
      BY <1>1, <1>3, FreeBuffer DEF BioInv, Owners
    <2>2. blockno[b] = blk
      BY <2>1 DEF Takes, Recycles
    <2> QED
      BY <2>1, <2>2, Names, SMT DEF BioInv, Owners
  <1>4. Holder[blk] = {} /\ \A c \in Block : h \notin Holder[c]
    BY <1>1, <1>3 DEF Holder
  <1>5. Holder' = [Holder EXCEPT ![blk] = {h}]
    <2>1. Holding' = Holding
      BY DEF Holding
    <2>2. ASSUME NEW c \in Block
          PROVE  {g \in Hand : want'[g] = c /\ pc'[g] \in Holding}
                    = IF c = blk THEN {h} ELSE {g \in Hand : want[g] = c /\ pc[g] \in Holding}
      <3>1. CASE c = blk
        BY <1>2, <1>3, <3>1
      <3>2. CASE c # blk
        BY <1>1, <1>2, <3>2
      <3> QED
        BY <3>1, <3>2
    <2> QED
      BY <2>1, <2>2 DEF Holder
  <1>6. Content' = Content
    <2>1. CASE Takes(h, b, blk)
      BY <1>1, <2>1, ContentStays, BelowKept DEF Takes
    <2>2. CASE Recycles(h, b, blk)
      <3>1. \A c \in Buf : /\ valid'[c] <=> valid[c] /\ c # b
                           /\ blockno'[c] = IF c = b THEN blk ELSE blockno[c]
        BY <2>2 DEF Recycles, BioInv, TypeOK
      <3>2. ~dirty[b]
        BY <2>2 DEF Recycles
      <3>3. Known
        BY ContentKnown
      <3>4. BioInv' => Known'
        BY ContentKnown, PTL
      <3>5. ASSUME NEW x \in Block \ misread
            PROVE  Content'[x] = Content[x]
        <4>1. Below(x)' = Below(x)
          BY <1>1, BelowKept
        <4>2. CASE \E c \in Buf : c # b /\ valid[c] /\ blockno[c] = x
          <5>1. PICK c \in Buf : c # b /\ valid[c] /\ blockno[c] = x
            BY <4>2
          <5>2. Content[x] = data[c]
            BY <3>3, <5>1 DEF Known
          <5>3. Content'[x] = data'[c]
            BY <1>1, <3>1, <3>4, <5>1 DEF Known
          <5> QED
            BY <1>1, <5>2, <5>3
        <4>3. CASE ~\E c \in Buf : c # b /\ valid[c] /\ blockno[c] = x
          <5>1. Content'[x] = Below(x)
            BY <1>1, <3>1, <3>4, <4>1, <4>3, SMT DEF Known
          <5>2. Content[x] = Below(x)
            <6>1. CASE valid[b] /\ blockno[b] = x
              BY <3>2, <3>3, <6>1 DEF Known, BioInv, Clean
            <6>2. CASE ~(valid[b] /\ blockno[b] = x)
              BY <3>3, <4>3, <6>2 DEF Known
            <6> QED
              BY <6>1, <6>2
          <5> QED
            BY <5>1, <5>2
        <4> QED
          BY <4>2, <4>3
      <3> QED
        BY <1>1, <3>3, <3>4, <3>5, ContentKept
    <2> QED
      BY <2>1, <2>2
  <1> QED
    BY <1>4, <1>5, <1>6 DEF Store!Hold

\* The holder of a block is its only holder.
LEMMA OneHolder ==
    ASSUME BioInv, NEW h \in Hand, pc[h] \in Holding
    PROVE  want[h] \in Block /\ Holder[want[h]] = {h}
  <1>1. want[h] \in Block /\ buf[h] \in Buf /\ blockno[buf[h]] = want[h]
    BY Names DEF BioInv, Owners
  <1>2. ASSUME NEW g \in Hand, want[g] = want[h], pc[g] \in Holding
        PROVE  g = h
    <2>1. buf[g] \in Buf /\ blockno[buf[g]] = want[h]
      BY <1>2 DEF BioInv, Owners
    <2>2. buf[g] = buf[h]
      BY <1>1, <2>1, Names, SMT DEF BioInv, Owners
    <2> QED
      BY <1>2, <2>2 DEF BioInv, Owners
  <1> QED
    BY <1>1, <1>2 DEF Holder

\* What the holder writes is what the block holds.
LEMMA WriteChanges ==
    ASSUME BioInv, BioInv', NEW h \in Hand, NEW d \in Data, Writes(h, d) \/ log_write(h, d)
    PROVE  \/ Store!Change(h, want[h])
           \/ UNCHANGED <<Content, Holder>>
  <1>1. /\ UNCHANGED <<blockno, valid, device, disk, misread, want, buf>>
        /\ pc[h] = "has" /\ pc[h] \in Holding
    BY Names DEF Writes, log_write, hardware, At
  <1>2. \A g \in Hand : pc'[g] \in Holding <=> pc[g] \in Holding
    BY <1>1, Names, SMT DEF Writes, log_write, Goto, BioInv, TypeOK
  <1>3. /\ buf[h] \in Buf /\ blockno[buf[h]] = want[h] /\ want[h] \in Block
        /\ valid[buf[h]]
    BY <1>1, HasAlone DEF BioInv, Requests
  <1>4. \A c \in Buf : data'[c] = IF c = buf[h] THEN d ELSE data[c]
    BY <1>3, SMT DEF Writes, log_write, BioInv, TypeOK
  <1>5. Known
    BY ContentKnown
  <1>6. BioInv' => Known'
    BY ContentKnown, PTL
  <1>7. ASSUME NEW x \in Block \ misread
        PROVE  Content'[x] = IF x = want[h] THEN d ELSE Content[x]
    <2>1. Below(x)' = Below(x)
      BY <1>1, BelowKept
    <2>2. CASE x = want[h]
      BY <1>1, <1>3, <1>4, <1>6, <2>2 DEF Known
    <2>3. CASE x # want[h]
      <3>1. \A c \in Buf : blockno[c] = x => data'[c] = data[c]
        BY <1>3, <1>4, <2>3
      <3> QED
        BY <1>1, <1>5, <1>6, <2>1, <2>3, <3>1, SMT DEF Known
    <2> QED
      BY <2>2, <2>3
  <1>8. Holder' = Holder
    BY <1>1, <1>2, HolderStays
  <1>9. Holder[want[h]] = {h}
    BY <1>1, OneHolder
  <1>10. CASE want[h] \in misread
    BY <1>1, <1>5, <1>6, <1>7, <1>8, <1>10, ContentKept
  <1>11. CASE want[h] \notin misread
    <2>1. Content' = [Content EXCEPT ![want[h]] = d]
      BY <1>1, <1>3, <1>5, <1>6, <1>7, <1>11, SMT DEF Known
    <2>2. want[h] \in DOMAIN Content
      BY <1>3, <1>5, <1>11 DEF Known
    <2> QED
      BY <1>8, <1>9, <2>1, <2>2 DEF Store!Change
  <1> QED
    BY <1>10, <1>11

\* brelse() gives the block back as it is.
LEMMA BrelseReleases ==
    ASSUME BioInv, BioInv', NEW h \in Hand, Releases(h)
    PROVE  want[h] \in Block /\ Store!Release(h, want[h])
  <1>1. /\ UNCHANGED <<blockno, valid, data, device, disk, misread>>
        /\ pc[h] = "has" /\ pc[h] \in Holding
    BY Names DEF Releases, hardware, At
  <1>2. want[h] \in Block /\ Holder[want[h]] = {h}
    BY <1>1, OneHolder
  <1>3. Content' = Content
    BY <1>1, ContentStays, BelowKept
  <1>4. Wakeup(buf[h]) \in [Hand -> Place]
    BY WakeupDoes DEF BioInv
  <1>5. pc'[h] \notin Holding
    BY <1>4, Names DEF Releases
  <1>6. ASSUME NEW g \in Hand, g # h
        PROVE  /\ want'[g] = want[g]
               /\ pc'[g] \in Holding <=> pc[g] \in Holding
    <2>1. pc'[g] = Wakeup(buf[h])[g]
      BY <1>4, <1>6 DEF Releases
    <2>2. Wakeup(buf[h])[g] = IF buf[g] # buf[h] THEN pc[g]
                              ELSE IF pc[g] = "bsleep" THEN "bget"
                              ELSE IF pc[g] = "iosleep" THEN "iowait" ELSE pc[g]
      BY WakeupDoes DEF BioInv
    <2>3. want'[g] = want[g]
      BY <1>6 DEF Releases, BioInv, TypeOK
    <2> QED
      BY <2>1, <2>2, <2>3, Names
  <1>7. Holder' = [Holder EXCEPT ![want[h]] = {}]
    <2>1. Holding' = Holding
      BY DEF Holding
    <2>2. \A g \in Hand : want[g] = want[h] /\ pc[g] \in Holding => g = h
      BY <1>2 DEF Holder
    <2>3. ASSUME NEW c \in Block
          PROVE  {g \in Hand : want'[g] = c /\ pc'[g] \in Holding}
                    = IF c = want[h] THEN {}
                      ELSE {g \in Hand : want[g] = c /\ pc[g] \in Holding}
      <3>1. CASE c = want[h]
        BY <1>5, <1>6, <2>2, <3>1
      <3>2. CASE c # want[h]
        BY <1>5, <1>6, <3>2
      <3> QED
        BY <3>1, <3>2
    <2> QED
      BY <2>1, <2>3 DEF Holder
  <1> QED
    BY <1>2, <1>3, <1>7 DEF Store!Release

\* The steps of the driver and the disk change nothing for the holders.
LEMMA DriverStutters ==
    ASSUME BioInv, BioInv',
           (\E h \in Hand : iderw(h) \/ iowait(h)) \/ DiskDone \/ Spurious
    PROVE  UNCHANGED <<Content, Holder>>
  <1>1. ASSUME NEW h \in Hand, iderw(h)
        PROVE  UNCHANGED <<Content, Holder>>
    <2>1. UNCHANGED <<blockno, valid, data, disk, misread, want>> /\ pc[h] = "iderw"
      BY <1>1 DEF iderw, cache, flags, At
    <2>2. \A g \in Hand : pc'[g] \in Holding <=> pc[g] \in Holding
      BY <1>1, <2>1, Names, ZenonT(40) DEF iderw, Goto, BioInv, TypeOK
    <2>3. buf[h] \in Buf /\ blockno[buf[h]] \in Block
      BY <2>1, HasAlone
    <2>4. ASSUME NEW blk \in Block
          PROVE  \/ \E b \in Buf : valid[b] /\ blockno[b] = blk
                 \/ Below(blk)' = Below(blk)
      <3>1. CASE idestart(buf[h])
        <4>1. (dirty[buf[h]] => blk # blockno[buf[h]]) => Below(blk)' = Below(blk)
          BY <2>1, <2>3, <3>1, StartedBelow DEF BioInv
        <4>2. dirty[buf[h]] => valid[buf[h]]
          BY <2>3 DEF BioInv, Requests
        <4> QED
          BY <2>3, <4>1, <4>2
      <3>2. CASE UNCHANGED device
        BY <2>1, <3>2, BelowKept
      <3> QED
        BY <1>1, <3>1, <3>2 DEF iderw
    <2> QED
      BY <2>1, <2>2, <2>4, ContentStays, HolderStays
  <1>2. ASSUME NEW h \in Hand, iowait(h)
        PROVE  UNCHANGED <<Content, Holder>>
    <2>1. UNCHANGED <<blockno, valid, data, device, disk, misread, want>> /\ pc[h] = "iowait"
      BY <1>2 DEF iowait, cache, flags, hardware, At
    <2>2. \A g \in Hand : pc'[g] \in Holding <=> pc[g] \in Holding
      BY <1>2, <2>1, Names, SMT DEF iowait, Goto, BioInv, TypeOK
    <2> QED
      BY <2>1, <2>2, ContentStays, HolderStays, BelowKept
  <1>3. CASE DiskDone
    <2>1. /\ UNCHANGED <<blockno, valid, data, misread, pc, want>>
          /\ \A blk \in Block : Below(blk)' = Below(blk)
      BY <1>3, DiskDoneDoes
    <2> QED
      BY <2>1, ContentStays, HolderStays
  <1>4. CASE Spurious
    <2>1. UNCHANGED <<blockno, valid, data, device, disk, misread, pc, want>>
      BY <1>4 DEF Spurious, cache, flags
    <2> QED
      BY <2>1, ContentStays, HolderStays, BelowKept
  <1> QED
    BY <1>1, <1>2, <1>3, <1>4

\* An interrupt changes nothing either, unless the read has failed.
LEMMA IntrMisreads ==
    ASSUME BioInv, BioInv', ideintr
    PROVE  \/ UNCHANGED <<Content, Holder>>
           \/ \E blk \in Block : Store!Misread(blk)
  <1>1. CASE idequeue = <<>>
    <2>1. UNCHANGED <<blockno, valid, data, idequeue, misread, pc, want>>
      BY <1>1 DEF ideintr, cache, flags
    <2>2. \A blk \in Block : Below(blk)' = Below(blk)
      BY <1>1, <2>1, IntrIdles
    <2> QED
      BY <2>1, <2>2, ContentStays, HolderStays
  <1>2. CASE idequeue # <<>>
    <2>0. PICK b : b = Head(idequeue)
      OBVIOUS
    <2>1. /\ UNCHANGED <<blockno, want>>
          /\ b \in Buf /\ blockno[b] \in Block
          /\ \A c \in Buf : valid'[c] <=> valid[c] \/ c = b
          /\ \A c \in Buf : c # b => data'[c] = data[c]
          /\ misread' = misread \/ misread' = misread \cup {blockno[b]}
          /\ blockno[b] \notin misread' => data'[b] = Below(blockno[b])
      BY <1>2, <2>0, IntrFlags, SMT
    <2>2. Holder' = Holder
      BY <1>2, <2>0, <2>1, IntrWakes, HolderStays
    <2>3. PICK o \in Hand : pc[o] = "iosleep" /\ buf[o] = b
      BY <1>2, <2>0, HeadOwner
    <2>4. valid[b] => data[b] = Below(blockno[b])
      BY <1>2, <2>0, <2>3, SMT DEF BioInv, Requests, Driver
    <2>5. Known
      BY ContentKnown
    <2>6. BioInv' => Known'
      BY ContentKnown, PTL
    <2>7. ASSUME NEW x \in Block
          PROVE  \/ \E c \in Buf : c # b /\ valid[c] /\ blockno[c] = x
                 \/ x = blockno[b]
                 \/ Below(x)' = Below(x)
      <3>1. CASE idequeue' = <<>>
        BY <3>1, IntrIdles
      <3>2. CASE idequeue' # <<>>
        <4>0. PICK nx : nx = Head(idequeue')
          OBVIOUS
        <4>1. /\ nx \in Buf /\ nx # b
              /\ (dirty[nx] => x # blockno[nx]) => Below(x)' = Below(x)
          BY <1>2, <2>0, <3>2, <4>0, IntrStarts
        <4>2. dirty[nx] => valid[nx]
          BY <4>1 DEF BioInv, Requests
        <4> QED
          BY <4>1, <4>2
      <3> QED
        BY <3>1, <3>2
    <2>8. ASSUME NEW x \in Block \ misread'
          PROVE  Content'[x] = Content[x]
      <3>0. x \in Block \ misread
        BY <2>1
      <3>1. CASE x = blockno[b]
        <4>1. Content'[x] = data'[b] /\ data'[b] = Below(x)
          BY <2>1, <2>6, <3>1 DEF Known
        <4>2. \A c \in Buf : blockno[c] = x => c = b
          BY <2>1, <3>1, Names, SMT DEF BioInv, Owners
        <4>3. Content[x] = Below(x)
          BY <2>1, <2>4, <2>5, <3>0, <3>1, <4>2 DEF Known
        <4> QED
          BY <4>1, <4>3
      <3>2. CASE x # blockno[b] /\ \E c \in Buf : valid[c] /\ blockno[c] = x
        <4>1. PICK c \in Buf : valid[c] /\ blockno[c] = x
          BY <3>2
        <4>2. Content[x] = data[c]
          BY <2>5, <3>0, <4>1 DEF Known
        <4>3. Content'[x] = data'[c]
          BY <2>1, <2>6, <4>1 DEF Known
        <4> QED
          BY <2>1, <3>2, <4>1, <4>2, <4>3
      <3>3. CASE x # blockno[b] /\ ~\E c \in Buf : valid[c] /\ blockno[c] = x
        <4>1. Below(x)' = Below(x)
          BY <2>7, <3>3
        <4>2. Content[x] = Below(x)
          BY <2>5, <3>0, <3>3 DEF Known
        <4>3. Content'[x] = Below(x)'
          BY <2>1, <2>6, <3>3 DEF Known
        <4> QED
          BY <4>1, <4>2, <4>3
      <3> QED
        BY <3>1, <3>2, <3>3
    <2>9. CASE misread' = misread
      BY <2>2, <2>5, <2>6, <2>8, <2>9, ContentKept, SMT
    <2>10. CASE misread' = misread \cup {blockno[b]}
      <3>1. Content' = [c \in DOMAIN Content \ {blockno[b]} |-> Content[c]]
        BY <2>5, <2>6, <2>8, <2>10 DEF Known
      <3>2. pc[o] \in Holding /\ want[o] = blockno[b]
        BY <2>3, Names, SMT DEF BioInv, Owners
      <3>3. Holder[blockno[b]] # {}
        BY <3>2, OneHolder
      <3> QED
        BY <2>1, <2>2, <3>1, <3>3 DEF Store!Misread
    <2> QED
      BY <2>1, <2>9, <2>10
  <1> QED
    BY <1>1, <1>2

\* Every step of the cache, the driver and the disk is one of the store, or none.
LEMMA StoreStep == BioInv /\ BioInv' /\ [Next]_vars => [Store!Next]_<<Content, Holder>>
  <1> SUFFICES ASSUME BioInv, BioInv', [Next]_vars
               PROVE  Store!Next \/ UNCHANGED <<Content, Holder>>
    OBVIOUS
  <1>1. ASSUME NEW h \in Hand, (\E blk \in Block : bread(h, blk)) \/ bgetloop(h)
        PROVE  Store!Next \/ UNCHANGED <<Content, Holder>>
    <2>1. PICK blk \in Block :
              /\ Wants(h, blk)
              /\ \/ \E b \in Buf : Sleeps(h, b, blk) \/ Takes(h, b, blk) \/ Recycles(h, b, blk)
                 \/ NoBuffers
      BY <1>1, AskDoes DEF BioInv
    <2>2. CASE \E b \in Buf : Takes(h, b, blk) \/ Recycles(h, b, blk)
      BY <2>1, <2>2, TakesHolds DEF Store!Next
    <2>3. CASE NoBuffers \/ \E b \in Buf : Sleeps(h, b, blk)
      <3>1. UNCHANGED <<blockno, valid, data, device, disk, misread>>
        BY <2>1, <2>3 DEF Sleeps, NoBuffers, Wants, cache, flags, hardware
      <3>2. /\ \A g \in Hand : pc'[g] \in Holding <=> pc[g] \in Holding
            /\ \A g \in Hand : g # h => want'[g] = want[g]
            /\ pc[h] \notin Holding
        <4>1. /\ pc[h] \in {"idle", "bget"} /\ want' = [want EXCEPT ![h] = blk]
              /\ pc' = pc \/ pc' = [pc EXCEPT ![h] = "bsleep"]
          BY <2>1, <2>3 DEF Sleeps, NoBuffers, Wants
        <4>2. pc \in [Hand -> Place] /\ want \in [Hand -> Block \cup {NoBlock}]
          BY DEF BioInv, TypeOK
        <4> QED
          BY ONLY <4>1, <4>2, Names
      <3> QED
        BY <3>1, <3>2, ContentStays, HolderStays, BelowKept
    <2> QED
      BY <2>1, <2>2, <2>3
  <1>2. ASSUME NEW h \in Hand, NEW d \in Data, bwrite(h, d) \/ log_write(h, d)
        PROVE  Store!Next \/ UNCHANGED <<Content, Holder>>
    <2>1. want[h] \in Block
      <3>1. pc[h] = "has"
        BY <1>2 DEF bwrite, log_write, At
      <3> QED
        BY <3>1, HasAlone
    <2> QED
      BY <1>2, <2>1, WriteChanges, HasDoes DEF Store!Next, BioInv
  <1>3. ASSUME NEW h \in Hand, brelse(h)
        PROVE  Store!Next
    <2>1. Releases(h)
      BY <1>3, HasDoes DEF BioInv
    <2> QED
      BY <2>1, BrelseReleases DEF Store!Next
  <1>4. CASE (\E h \in Hand : iderw(h) \/ iowait(h)) \/ DiskDone \/ Spurious
    BY <1>4, DriverStutters
  <1>5. CASE ideintr
    BY <1>5, IntrMisreads DEF Store!Next
  <1>6. CASE UNCHANGED vars \/ halted
    <2>1. UNCHANGED <<blockno, valid, dirty, data, device, disk, misread, pc, want>>
      BY <1>6 DEF halted, vars, cache, flags, hardware
    <2> QED
      BY <2>1, ContentStays, HolderStays, BelowKept
  <1> QED
    BY <1>1, <1>2, <1>3, <1>4, <1>5, <1>6 DEF Next, Inside

\* bread() hands out a block to one process at a time, with what its last
\* holder left in it: the cache and the disk implement the store of blocks.
THEOREM BioIsBlockStore == Spec => IsBlockStore
  <1>1. Init => Store!Init
    <2> SUFFICES ASSUME Init PROVE Store!Init
      OBVIOUS
    <2>1. BioInv /\ misread = {}
      BY BioInvInit DEF Init
    <2>2. Content \in [Block -> Data]
      BY <2>1, ContentKnown DEF Known
    <2>3. \A h \in Hand : pc[h] \notin Holding
      BY Names DEF Init
    <2>4. Holder = [blk \in Block |-> {}]
      BY <2>3 DEF Holder
    <2> QED
      BY <2>2, <2>4 DEF Store!Init
  <1> QED
    BY <1>1, StoreStep, BioInvStep, BioInvariance, PTL DEF Spec, IsBlockStore, Store!Spec, Store!vars

=============================================================================
