----------------------------- MODULE LogProofs ------------------------------
(***************************************************************************)
(* The log implements an atomic disk, for every number of processes,       *)
(* blocks and log entries, provided that a call adds fewer blocks to the   *)
(* log than begin_op() reserves for it.                                    *)
(***************************************************************************)
EXTENDS Log, FiniteSetTheorems, TLAPS

\* The provers: Zenon where nothing else is named, SMT where a step needs arithmetic
\* or much case analysis.
USE Zenon

ASSUME ProcFinite == IsFiniteSet(Proc)

(***************************************************************************)
(* The most that the log can hold: one call alone adds OpBlocks; with a    *)
(* second call outstanding each of the two leaves part of its reservation. *)
(***************************************************************************)
LogBound ==
    LET shared == LOGSIZE - 2 * (MAXOPBLOCKS - OpBlocks)
    IN  IF shared < OpBlocks THEN OpBlocks ELSE shared

(***************************************************************************)
(* log_write() needs a free entry even for a block it will absorb.         *)
(***************************************************************************)
SpaceSuffices ==
    /\ OpBlocks <= MAXOPBLOCKS
    /\ LogBound < LOGSIZE /\ LogBound < NLOG - 1

-----------------------------------------------------------------------------
(* The inductive invariant. *)

\* The entries that calls with budgets bgt may still add to the log.
Tokens(bgt) == {t \in Proc \X (1..OpBlocks) : t[2] <= bgt[t[1]]}

Space ==
    /\ \A p \in Proc : budget[p] <= OpBlocks /\ (pc[p] # "op" => budget[p] = 0)
    /\ Len(lh) + Cardinality(Tokens(budget)) <= LogBound
    /\ Len(dhead) <= LogBound

Injective(s) == \A i, j \in 1..Len(s) : s[i] = s[j] => i = j

Control ==
    /\ phase # "panic"
    /\ outstanding = Cardinality(Active)
    /\ committing <=> phase \in {"write_log", "install", "installed"}
    /\ phase # "run" => Active = {}
    /\ phase = "run" /\ Active = {} => lh = <<>>
    /\ ~Booted => \A p \in Proc : pc[p] = "idle"
    /\ phase \in {"read_head", "installed"} => lh = <<>>

Holding ==
    \A p \in Proc : held[p] # NoBlock =>
        /\ pc[p] = "op"
        /\ cache[held[p]] # NoData
        /\ InLog(held[p]) \/ budget[p] > 0
        /\ \A q \in Proc : held[q] = held[p] => q = p

\* What has not been installed yet, and hence must stay in the cache.
Pending(b) ==
    \E i \in 1..Len(lh) : lh[i] = b /\ (phase = "install" => i > tail)

Cache ==
    \A b \in Home :
        /\ b \in dirty => cache[b] # NoData
        /\ b \notin dirty /\ ~Busy(b) => bread(b) = disk[b]
        /\ IF Booted THEN b \in dirty <=> Pending(b) ELSE b \notin dirty
        /\ phase = "read_head" => cache[b] = NoData

Journal ==
    /\ Injective(lh) /\ Injective(dhead)
    /\ phase \in {"run", "write_log", "installed"} => dhead = <<>>
    /\ phase \in {"recover", "install"} => dhead = lh
    /\ tail <= Len(lh)
    /\ phase = "write_log" =>
         \A i \in 1..tail : disk[Slot(i)] = cache[lh[i]]
    /\ phase = "install" =>
         \A i \in 1..Len(lh) : disk[Slot(i)] = bread(lh[i])
    /\ phase \in {"recover", "install"} =>
         \A i \in 1..tail : disk[lh[i]] = disk[Slot(i)]

(***************************************************************************)
(* The inductive invariant of the log: what the cache, the log in memory   *)
(* and the log on disk have to do with each other in every phase of        *)
(* begin_op(), log_write(), commit() and recover_from_log().               *)
(***************************************************************************)
IInv == TypeOK /\ Space /\ Control /\ Holding /\ Cache /\ Journal

-----------------------------------------------------------------------------
(* Counting reserved log entries. *)

(***************************************************************************)
(* The reservations of finitely many calls are finitely many entries.      *)
(***************************************************************************)
LEMMA TokensFinite ==
    ASSUME NEW bgt
    PROVE  IsFiniteSet(Tokens(bgt)) /\ Cardinality(Tokens(bgt)) \in Nat
<1>1. IsFiniteSet(1..OpBlocks)
  BY LogConstants, FS_Interval, SMT
<1>2. IsFiniteSet(Proc \X (1..OpBlocks))
  BY <1>1, ProcFinite, FS_Product
<1>3. Tokens(bgt) \subseteq Proc \X (1..OpBlocks)
  BY DEF Tokens
<1> QED
  BY <1>2, <1>3, FS_Subset, FS_CardinalityType

(***************************************************************************)
(* A call that adds a block to the log in log_write() uses up one entry.   *)
(***************************************************************************)
LEMMA TokenSpent ==
    ASSUME NEW bgt \in [Proc -> Nat], NEW p \in Proc,
           bgt[p] > 0, bgt[p] <= OpBlocks
    PROVE  Cardinality(Tokens([bgt EXCEPT ![p] = @ - 1]))
              = Cardinality(Tokens(bgt)) - 1
<1> DEFINE t == <<p, bgt[p]>>
           new == [bgt EXCEPT ![p] = @ - 1]
<1>1. t \in Tokens(bgt)
  BY LogConstants, SMT DEF Tokens
<1>2. ASSUME NEW u \in Proc \X (1..OpBlocks)
      PROVE  u \in Tokens(new) <=> u \in Tokens(bgt) /\ u # t
  <2>1. PICK q \in Proc, i \in 1..OpBlocks : u = <<q, i>>
    BY <1>2, SMT
  <2>2. u \in Tokens(new) <=> i <= new[q]
    BY <2>1 DEF Tokens
  <2>3. u \in Tokens(bgt) <=> i <= bgt[q]
    BY <2>1 DEF Tokens
  <2>4. u = t <=> q = p /\ i = bgt[p]
    BY <2>1
  <2> QED
    BY <2>2, <2>3, <2>4, LogConstants, SMT
<1>3. Tokens(new) = Tokens(bgt) \ {t}
  BY <1>2 DEF Tokens
<1> HIDE DEF new, t
<1>4. Cardinality(Tokens(bgt) \ {t}) = Cardinality(Tokens(bgt)) - 1
  BY <1>1, TokensFinite, FS_RemoveElement
<1> QED
  BY <1>3, <1>4 DEF new

(***************************************************************************)
(* A call that gives its reservation back in end_op() adds no entry.       *)
(***************************************************************************)
LEMMA TokensDropped ==
    ASSUME NEW bgt \in [Proc -> Nat], NEW p \in Proc
    PROVE  Cardinality(Tokens([bgt EXCEPT ![p] = 0])) <= Cardinality(Tokens(bgt))
<1>1. Tokens([bgt EXCEPT ![p] = 0]) \subseteq Tokens(bgt)
  BY LogConstants, SMT DEF Tokens
<1> QED
  BY <1>1, TokensFinite, FS_Subset

(***************************************************************************)
(* The calls in A hold at most OpBlocks entries each.                      *)
(***************************************************************************)
LEMMA TokensBound ==
    ASSUME NEW bgt \in [Proc -> Nat], NEW A \in SUBSET Proc,
           \A q \in Proc \ A : bgt[q] = 0
    PROVE  Cardinality(Tokens(bgt)) <= Cardinality(A) * OpBlocks
<1>1. IsFiniteSet(A)
  BY ProcFinite, FS_Subset
<1>2. IsFiniteSet(1..OpBlocks) /\ Cardinality(1..OpBlocks) = OpBlocks
  BY LogConstants, FS_Interval, SMT
<1>3. /\ IsFiniteSet(A \X (1..OpBlocks))
      /\ Cardinality(A \X (1..OpBlocks)) = Cardinality(A) * OpBlocks
  BY <1>1, <1>2, FS_Product
<1>4. Tokens(bgt) \subseteq A \X (1..OpBlocks)
  <2>1. SUFFICES ASSUME NEW q \in Proc, NEW i \in 1..OpBlocks, i <= bgt[q]
                 PROVE  q \in A
    BY DEF Tokens
  <2> QED
    BY <2>1, LogConstants, SMT
<1> QED
  BY <1>3, <1>4, FS_Subset

-----------------------------------------------------------------------------
(* The invariant holds initially and no step breaks it. *)

(***************************************************************************)
(* The log blocks of a header that fits lie inside the log, and the blocks *)
(* it names lie behind the log: copying one way never disturbs the other.  *)
(***************************************************************************)
LEMMA SlotsApart ==
    ASSUME SpaceSuffices, NEW s \in Seq(Home), Len(s) <= LogBound,
           NEW i \in 1..Len(s)
    PROVE  /\ s[i] \in Home /\ s[i] \in Addr
           /\ Slot(i) \in Addr /\ Slot(i) \notin Home
           /\ \A j \in 1..Len(s) : Slot(i) # s[j]
<1>1. \A j \in 1..Len(s) : s[j] \in Home
  BY SMT
<1>2. Len(s) \in Nat /\ Len(s) < NLOG - 1
  BY LogConstants, SMT DEF SpaceSuffices, LogBound
<1> QED
  BY <1>1, <1>2, LogConstants, SMT DEF Slot, Home, Addr

(***************************************************************************)
(* The kernel starts in a state that satisfies the invariant.              *)
(***************************************************************************)
LEMMA InitInv == ASSUME Init PROVE IInv
<1> USE DEF Init
<1>1. TypeOK
  <2>1. lh \in Seq(Home) /\ dhead \in Seq(Home)
    BY SMT
  <2> QED
    BY <2>1 DEF TypeOK
<1>2. Active = {} /\ Tokens(budget) = {}
  BY LogConstants, SMT DEF Active, Tokens
<1>count. Cardinality(Active) = 0 /\ Cardinality(Tokens(budget)) = 0
  BY <1>2, FS_EmptySet
<1>3. Space
  BY <1>count, LogConstants, SMT DEF Space, LogBound
<1>4. Control
  BY <1>count, <1>2 DEF Control, Booted
<1>5. Holding
  BY DEF Holding
<1>6. Cache
  BY DEF Cache, Booted, bread
<1>7. Journal
  BY SMT DEF Journal, Injective
<1> QED
  BY <1>1, <1>3, <1>4, <1>5, <1>6, <1>7 DEF IInv

(***************************************************************************)
(* A crash loses the memory: what is left on disk satisfies the invariant. *)
(***************************************************************************)
LEMMA CrashInv == ASSUME IInv, Crash PROVE IInv'
<1> USE DEF IInv, Crash, diskVars
<1>1. TypeOK'
  <2>1. lh' \in Seq(Home)
    BY SMT
  <2> QED
    BY <2>1 DEF TypeOK
<1>2. Active' = {} /\ Tokens(budget') = {}
  BY LogConstants, SMT DEF Active, Tokens
<1>count. Cardinality(Active') = 0 /\ Cardinality(Tokens(budget')) = 0
  BY <1>2, FS_EmptySet
<1>3. Space'
  BY <1>count, LogConstants, SMT DEF Space, LogBound
<1>4. Control'
  BY <1>count, <1>2 DEF Control, Booted
<1>5. Holding'
  BY DEF Holding
<1>6. Cache'
  BY DEF Cache, Booted, bread
<1>7. Journal'
  BY SMT DEF Journal, Injective
<1> QED
  BY <1>1, <1>3, <1>4, <1>5, <1>6, <1>7

(***************************************************************************)
(* read_head(): the header on disk becomes the log in memory.              *)
(***************************************************************************)
LEMMA ReadHeadInv == ASSUME IInv, read_head PROVE IInv'
<1> USE DEF IInv, read_head, diskVars, cacheVars, procVars
<1>1. TypeOK'
  BY DEF TypeOK
<1>2. Active' = Active /\ \A p \in Proc : pc[p] = "idle" /\ budget[p] = 0
  BY DEF Active, Control, Booted, Space
<1>3. Space'
  <2>1. Tokens(budget) = {}
    BY <1>2, LogConstants, SMT DEF Tokens
  <2>2. Cardinality(Tokens(budget)) = 0
    BY <2>1, FS_EmptySet
  <2> QED
    BY <1>2, <2>2, LogConstants, SMT DEF Space, TypeOK, LogBound
<1>4. Control'
  BY <1>2 DEF Control, Booted
<1>5. Holding'
  BY <1>2 DEF Holding
<1>6. Cache'
  BY DEF Cache, Booted, bread, Busy, TypeOK
<1>7. Journal'
  BY SMT DEF Journal, Injective, TypeOK
<1> QED
  BY <1>1, <1>3, <1>4, <1>5, <1>6, <1>7

(***************************************************************************)
(* A round of install_trans() makes a home block equal to its log block,   *)
(* and leaves every other block and every log block alone.                 *)
(***************************************************************************)
LEMMA InstallInv == ASSUME SpaceSuffices, IInv, install_trans PROVE IInv'
<1> USE DEF IInv
<1>0. PICK k, b, d : k = tail + 1 /\ b = lh[k] /\ d = disk[Slot(k)]
  OBVIOUS
<1>1. /\ phase \in {"recover", "install"} /\ k \in 1..Len(lh)
      /\ disk' = [disk EXCEPT ![b] = d]
      /\ cache' = [cache EXCEPT ![b] = d] /\ dirty' = dirty \ {b}
      /\ tail' = k
      /\ UNCHANGED <<dhead, lh, outstanding, committing, phase, pc, held, budget>>
  BY <1>0, SMT DEF install_trans, logVars, procVars, TypeOK
<1>2. lh \in Seq(Home) /\ Len(lh) <= LogBound /\ Len(lh) \in Nat
  <2>1. Cardinality(Tokens(budget)) \in Nat
    BY TokensFinite
  <2> QED
    BY <2>1, LogConstants, SMT DEF TypeOK, Space, LogBound
<1>3. /\ b \in Home /\ b \in Addr
      /\ \A i \in 1..Len(lh) : lh[i] \in Home /\ Slot(i) \in Addr /\ Slot(i) # b
  BY <1>0, <1>1, <1>2, SlotsApart
<1>4. d \in Data
  BY <1>0, <1>1, <1>3 DEF TypeOK
<1>5. TypeOK'
  BY <1>1, <1>3, <1>4, SMT DEF TypeOK
<1>6. Space'
  BY <1>1 DEF Space
<1>7. Control'
  BY <1>1 DEF Control, Booted, Active
<1>8. Holding'
  BY <1>1, <1>3, <1>4, LogConstants DEF Holding, InLog, TypeOK
<1>9. /\ \A i \in 1..Len(lh) : disk'[Slot(i)] = disk[Slot(i)]
      /\ disk'[b] = d /\ cache'[b] = d
      /\ \A c \in Home \ {b} : disk'[c] = disk[c] /\ cache'[c] = cache[c]
  BY <1>1, <1>3, SMT DEF TypeOK, Home, Addr
<1>10. Cache'
  <2>1. SUFFICES ASSUME NEW c \in Home
                 PROVE  /\ c \in dirty' => cache'[c] # NoData
                        /\ c \notin dirty' /\ ~Busy(c)' => bread(c)' = disk'[c]
                        /\ Booted' => (c \in dirty' <=> Pending(c)')
                        /\ ~Booted' => c \notin dirty'
    BY <1>1 DEF Cache
  <2>2. CASE c = b
    <3>1. ~Pending(b)' \/ phase # "install"
      BY <1>0, <1>1, <1>2, SMT DEF Pending, Journal, Injective
    <3> QED
      BY <1>1, <1>4, <1>9, <2>2, <3>1, LogConstants DEF Booted, bread
  <2>3. CASE c # b
    <3>1. Pending(c)' <=> Pending(c)
      BY <1>0, <1>1, <1>2, <2>3, SMT DEF Pending, TypeOK
    <3>2. Busy(c)' <=> Busy(c)
      BY <1>1 DEF Busy
    <3>3. bread(c)' = bread(c)
      BY <1>9, <2>3 DEF bread
    <3> QED
      BY <1>1, <1>9, <2>3, <3>1, <3>2, <3>3 DEF Booted, Cache
  <2> QED
    BY <2>2, <2>3
<1>11. Journal'
  <2>1. tail' <= Len(lh')
    BY <1>1, SMT
  <2>2. phase = "install" =>
          \A i \in 1..Len(lh) : disk'[Slot(i)] = bread(lh[i])'
    BY <1>0, <1>1, <1>2, <1>3, <1>4, <1>9, LogConstants, SMT
       DEF Journal, bread, Injective
  <2>3. \A i \in 1..k : disk'[lh[i]] = disk'[Slot(i)]
    <3>1. SUFFICES ASSUME NEW i \in 1..k PROVE disk'[lh[i]] = disk'[Slot(i)]
      OBVIOUS
    <3>2. CASE i = k
      BY <1>0, <1>1, <1>9, <3>2
    <3>3. CASE i # k
      <4>1. i \in 1..tail /\ i \in 1..Len(lh) /\ lh[i] # b
        BY <1>0, <1>1, <1>2, <3>3, SMT DEF Journal, Injective, TypeOK
      <4> QED
        BY <1>1, <1>3, <1>9, <4>1 DEF Journal
    <3> QED
      BY <3>2, <3>3
  <2> QED
    BY <1>1, <2>1, <2>2, <2>3, SMT DEF Journal, Injective
<1> QED
  BY <1>5, <1>6, <1>7, <1>8, <1>10, <1>11

(***************************************************************************)
(* Erasing the header after every block has been installed loses nothing.  *)
(***************************************************************************)
LEMMA ClearHeadInv == ASSUME IInv, clear_head PROVE IInv'
<1> USE DEF IInv, clear_head, cacheVars, procVars
<1>1. TypeOK'
  <2>1. lh' \in Seq(Home) /\ dhead' \in Seq(Home)
    BY SMT
  <2> QED
    BY <2>1 DEF TypeOK
<1>2. Active' = Active
  BY DEF Active
<1>3. Space'
  <2>1. Cardinality(Tokens(budget)) \in Nat /\ Len(lh) \in Nat /\ Len(lh') = 0
    BY TokensFinite DEF TypeOK
  <2> QED
    BY <2>1, LogConstants, SMT DEF Space, LogBound
<1>4. Control'
  BY <1>2 DEF Control, Booted
<1>5. \A p \in Proc : held[p] = NoBlock
  BY DEF Holding, Control, Active
<1>6. Holding'
  BY <1>5 DEF Holding
<1>7. Cache'
  <2>1. ASSUME NEW b \in Home PROVE b \notin dirty /\ ~Pending(b)'
    BY <2>1, SMT DEF Cache, Pending, Booted, TypeOK
  <2>2. \A b \in Home : bread(b)' = bread(b) /\ ~Busy(b)
    BY <1>5, LogConstants, SMT DEF bread, Busy, NoBlock, Home
  <2> QED
    BY <2>1, <2>2 DEF Cache, Booted
<1>8. Journal'
  BY SMT DEF Journal, Injective
<1> QED
  BY <1>1, <1>3, <1>4, <1>6, <1>7, <1>8

(***************************************************************************)
(* A step that only moves processes outside their calls keeps the          *)
(* invariant: entering begin_op(), going to sleep in it, waking up.        *)
(***************************************************************************)
LEMMA MoveInv ==
    ASSUME IInv, phase \notin {"read_head", "recover"},
           UNCHANGED <<diskVars, cacheVars, logVars, stepVars, held, budget>>,
           pc' \in [Proc -> {"idle", "begin", "asleep", "op", "commit"}],
           \A p \in Proc : pc'[p] = "op" <=> pc[p] = "op"
    PROVE  IInv'
<1> USE DEF IInv, diskVars, cacheVars, logVars, stepVars
<1>1. TypeOK'
  BY DEF TypeOK
<1>2. Active' = Active
  BY DEF Active
<1>3. Space'
  BY DEF Space
<1>4. Control'
  BY <1>2 DEF Control, Booted
<1>5. Holding'
  BY DEF Holding, InLog
<1>6. Cache'
  BY DEF Cache, Booted, bread, Busy, Pending
<1>7. Journal'
  BY SMT DEF Journal, Injective, bread
<1> QED
  BY <1>1, <1>3, <1>4, <1>5, <1>6, <1>7

\* Entering begin_op() keeps the invariant.
LEMMA CallInv == ASSUME IInv, NEW p \in Proc, Call(p) PROVE IInv'
<1>1. /\ pc' \in [Proc -> {"idle", "begin", "asleep", "op", "commit"}]
      /\ \A q \in Proc : pc'[q] = "op" <=> pc[q] = "op"
      /\ phase \notin {"read_head", "recover"}
      /\ UNCHANGED <<diskVars, cacheVars, logVars, stepVars, held, budget>>
  BY DEF IInv, TypeOK, Call, Booted
<1> QED
  BY <1>1, MoveInv

\* kill() of a process asleep in begin_op() keeps the invariant.
LEMMA KillWakesInv == ASSUME IInv, NEW p \in Proc, KillWakes(p) PROVE IInv'
<1>1. /\ pc' \in [Proc -> {"idle", "begin", "asleep", "op", "commit"}]
      /\ \A q \in Proc : pc'[q] = "op" <=> pc[q] = "op"
      /\ phase \notin {"read_head", "recover"}
      /\ UNCHANGED <<diskVars, cacheVars, logVars, stepVars, held, budget>>
  BY DEF IInv, TypeOK, Control, KillWakes, Booted
<1> QED
  BY <1>1, MoveInv

(***************************************************************************)
(* begin_op() admits a call only when the log has room for it and for      *)
(* everything the calls in progress have reserved.                         *)
(***************************************************************************)
LEMMA BeginInv ==
    ASSUME SpaceSuffices, IInv, NEW p \in Proc, begin_op(p)
    PROVE  IInv'
<1> USE DEF IInv
<1>1. CASE MustWait
  <2>1. /\ pc' \in [Proc -> {"idle", "begin", "asleep", "op", "commit"}]
        /\ \A q \in Proc : pc'[q] = "op" <=> pc[q] = "op"
        /\ phase \notin {"read_head", "recover"}
        /\ UNCHANGED <<diskVars, cacheVars, logVars, stepVars, held, budget>>
    BY <1>1 DEF IInv, TypeOK, Control, begin_op, Booted, logVars
  <2> QED
    BY <2>1, MoveInv
<1>2. CASE ~MustWait
  <2>1. /\ pc[p] = "begin" /\ pc' = [pc EXCEPT ![p] = "op"]
        /\ outstanding' = outstanding + 1
        /\ budget' = [budget EXCEPT ![p] = OpBlocks]
        /\ UNCHANGED <<disk, dhead, cache, dirty, lh, committing, phase, tail,
                       held>>
    BY <1>2 DEF begin_op, diskVars, cacheVars, stepVars
  <2>2. ~committing /\ phase = "run"
    BY <1>2, <2>1 DEF MustWait, Control, TypeOK, Booted
  <2>3. TypeOK'
    BY <2>1, LogConstants, SMT DEF TypeOK
  <2>4. Active' = Active \cup {p} /\ p \notin Active
    BY <2>1 DEF Active, TypeOK
  <2>5. IsFiniteSet(Active)
    BY ProcFinite, FS_Subset DEF Active
  <2>6. Cardinality(Active') = outstanding + 1
    BY <2>4, <2>5, FS_AddElement DEF Control
  <2>7. Len(lh) + (outstanding + 1) * MAXOPBLOCKS <= LOGSIZE
    BY <1>2, LogConstants, SMT DEF MustWait, TypeOK
  <2>8. Cardinality(Tokens(budget')) <= (outstanding + 1) * OpBlocks
    <3>1. \A q \in Proc \ Active' : budget'[q] = 0
      BY <2>1, <2>4 DEF Active, TypeOK, Space
    <3>2. Active' \in SUBSET Proc /\ budget' \in [Proc -> Nat]
      BY <2>3 DEF Active, TypeOK
    <3> QED
      BY <2>6, <3>1, <3>2, TokensBound
  <2>9. Len(lh) + (outstanding + 1) * OpBlocks <= LogBound
    <3>1. CASE outstanding = 0
      <4>1. Active = {}
        BY <2>5, <3>1, FS_EmptySet DEF Control
      <4>2. Len(lh) = 0
        BY <2>2, <4>1, SMT DEF Control
      <4> QED
        BY <3>1, <4>2, LogConstants, SMT DEF LogBound
    <3>2. CASE outstanding # 0
      <4>1. outstanding >= 1 /\ MAXOPBLOCKS - OpBlocks >= 0
        BY <3>2, LogConstants, SMT DEF TypeOK, SpaceSuffices
      <4> DEFINE n == outstanding + 1
                 spare == MAXOPBLOCKS - OpBlocks
      <4>2. n \in Nat /\ spare \in Nat /\ n >= 2
        BY <4>1, LogConstants, SMT DEF TypeOK
      <4>3. n * spare >= 2 * spare
        <5> HIDE DEF n, spare
        <5> QED BY <4>2, SMT
      <4>4. n * MAXOPBLOCKS = n * OpBlocks + n * spare
        BY <4>2, LogConstants, SMT
      <4> QED
        BY <2>7, <4>2, <4>3, <4>4, LogConstants, SMT DEF LogBound, TypeOK
    <3> QED
      BY <3>1, <3>2
  <2>10. Space'
    <3>1. Cardinality(Tokens(budget')) \in Nat
      BY TokensFinite
    <3>2. Len(lh) + Cardinality(Tokens(budget')) <= LogBound
      <4>1. Len(lh) \in Nat /\ outstanding \in Nat /\ LogBound \in Int
            /\ (outstanding + 1) * OpBlocks \in Nat
        BY LogConstants, SMT DEF TypeOK, LogBound
      <4> QED
        BY <2>8, <2>9, <3>1, <4>1, SMT
    <3> QED
      BY <2>1, <3>2, LogConstants, SMT DEF Space, TypeOK
  <2>11. Control'
    BY <2>1, <2>2, <2>4, <2>6 DEF Control, Booted
  <2>12. Holding'
    BY <2>1 DEF Holding, InLog, TypeOK
  <2>13. Cache'
    BY <2>1 DEF Cache, Booted, bread, Busy, Pending
  <2>14. Journal'
    BY <2>1, SMT DEF Journal, Injective, bread
  <2> QED
    BY <2>3, <2>10, <2>11, <2>12, <2>13, <2>14
<1> QED
  BY <1>1, <1>2

(***************************************************************************)
(* bread() and the recycling of a clean buffer change no visible contents. *)
(***************************************************************************)
LEMMA CacheInv ==
    ASSUME IInv, NEW b \in Home, Read(b) \/ Recycle(b)
    PROVE  IInv'
<1> USE DEF IInv
<1>1. /\ cache' \in [Home -> Data \cup {NoData}]
      /\ \A c \in Home \ {b} : cache'[c] = cache[c]
      /\ cache'[b] # disk[b] => cache'[b] = NoData /\ ~Busy(b) /\ b \notin dirty
      /\ disk[b] \in Data /\ bread(b) = disk[b] /\ phase # "read_head"
      /\ UNCHANGED <<disk, dhead, dirty, lh, outstanding, committing, phase,
                     tail, pc, held, budget>>
  <2> USE DEF diskVars, logVars, stepVars, procVars
  <2>1. disk[b] \in Data /\ b \in DOMAIN cache
    BY LogConstants, SMT DEF TypeOK, Home, Addr
  <2>2. CASE Read(b)
    BY <2>1, <2>2 DEF Read, TypeOK, bread, Booted
  <2>3. CASE Recycle(b)
    BY <2>1, <2>3 DEF Recycle, TypeOK, Cache
  <2> QED
    BY <2>2, <2>3
<1>2. \A c \in Home : bread(c)' = bread(c)
  BY <1>1, LogConstants DEF bread
<1>3. TypeOK'
  BY <1>1 DEF TypeOK
<1>4. Space'
  BY <1>1 DEF Space
<1>5. Control'
  BY <1>1 DEF Control, Booted, Active
<1>6. Holding'
  <2>1. \A p \in Proc : held[p] # NoBlock =>
           held[p] \in Home /\ cache'[held[p]] # NoData
    BY <1>1, LogConstants DEF Holding, Busy, TypeOK
  <2> QED
    BY <1>1, <2>1 DEF Holding, InLog
<1>7. Cache'
  BY <1>1, <1>2, LogConstants DEF Cache, Booted, Busy, Pending
<1>8. Journal'
  <2>1. phase = "write_log" =>
           \A i \in 1..tail : disk[Slot(i)] = cache'[lh[i]]
    <3>1. SUFFICES ASSUME phase = "write_log", NEW i \in 1..tail
                   PROVE  cache'[lh[i]] = cache[lh[i]]
      BY DEF Journal
    <3>2. i \in 1..Len(lh) /\ lh[i] \in Home
      BY SMT DEF Journal, TypeOK
    <3>3. lh[i] \in dirty /\ cache[lh[i]] # NoData
      BY <3>1, <3>2 DEF Cache, Pending, Booted
    <3> QED
      BY <1>1, <1>2, <3>2, <3>3, LogConstants DEF bread
  <2>2. \A i \in 1..Len(lh) : lh[i] \in Home
    BY SMT DEF TypeOK
  <2> QED
    BY <1>1, <1>2, <2>1, <2>2, SMT DEF Journal, Injective
<1> QED
  BY <1>3, <1>4, <1>5, <1>6, <1>7, <1>8

(***************************************************************************)
(* log_write() up to its tests: the tests, made without log.lock, always   *)
(* find a free entry.                                                      *)
(***************************************************************************)
LEMMA LogWriteTestInv ==
    ASSUME SpaceSuffices, IInv,
           NEW p \in Proc, NEW b \in Home, NEW d \in Data, log_write_test(p, b, d)
    PROVE  IInv'
<1> USE DEF IInv
<1>1. /\ pc[p] = "op" /\ held[p] = NoBlock /\ ~Busy(b)
      /\ InLog(b) \/ budget[p] > 0
      /\ cache' = [cache EXCEPT ![b] = d]
      /\ held' = [held EXCEPT ![p] = b]
      /\ UNCHANGED <<disk, dhead, dirty, lh, outstanding, committing, tail, pc,
                     budget>>
  BY DEF log_write_test, diskVars, logVars
<1>2. phase = "run" /\ p \in Active
  BY <1>1 DEF Control, Active
<1>3. outstanding >= 1
  <2>1. IsFiniteSet(Active) /\ Active # {}
    BY <1>2, ProcFinite, FS_Subset DEF Active
  <2> QED
    BY <2>1, FS_EmptySet, SMT DEF Control, TypeOK
<1>4. Len(lh) < LOGSIZE /\ Len(lh) < NLOG - 1
  <2>1. Cardinality(Tokens(budget)) \in Nat /\ Len(lh) \in Nat
    BY TokensFinite, SMT DEF TypeOK
  <2> QED
    BY <2>1, LogConstants, SMT DEF Space, SpaceSuffices, LogBound
<1>5. phase' = phase
  BY <1>3, <1>4, LogConstants, SMT DEF log_write_test, TypeOK
<1>6. TypeOK'
  BY <1>1, <1>5 DEF TypeOK
<1>7. Space'
  BY <1>1 DEF Space
<1>8. Control'
  BY <1>1, <1>5 DEF Control, Booted, Active
<1>9. b # NoBlock /\ d # NoData
  BY LogConstants, SMT DEF Home, NoBlock
<1>10. Holding'
  <2>1. SUFFICES ASSUME NEW q \in Proc, held'[q] # NoBlock
                 PROVE  /\ pc[q] = "op"
                        /\ cache'[held'[q]] # NoData
                        /\ InLog(held'[q]) \/ budget[q] > 0
                        /\ \A r \in Proc : held'[r] = held'[q] => r = q
    BY <1>1 DEF Holding, InLog
  <2>2. CASE q = p
    BY <1>1, <1>9, <2>2 DEF Busy, TypeOK
  <2>3. CASE q # p
    BY <1>1, <1>9, <2>1, <2>3 DEF Busy, TypeOK, Holding
  <2> QED
    BY <2>2, <2>3
<1>11. Cache'
  <2>1. Busy(b)'
    BY <1>1 DEF Busy, TypeOK
  <2>2. \A c \in Home \ {b} : Busy(c)' <=> Busy(c)
    BY <1>1, LogConstants, SMT DEF Busy, TypeOK, NoBlock, Home
  <2>3. \A c \in Home \ {b} : bread(c)' = bread(c)
    BY <1>1 DEF bread, TypeOK
  <2>4. \A c \in Home : Pending(c)' <=> Pending(c)
    BY <1>1, <1>5 DEF Pending
  <2> QED
    BY <1>1, <1>2, <1>5, <1>9, <2>1, <2>2, <2>3, <2>4 DEF Cache, Booted, TypeOK
<1>12. Journal'
  BY <1>1, <1>2, <1>5, SMT DEF Journal, Injective
<1> QED
  BY <1>6, <1>7, <1>8, <1>10, <1>11, <1>12

(***************************************************************************)
(* The rest of log_write(): the block is in the log and pinned in the      *)
(* cache, and a new entry comes out of the reservation of the call.        *)
(***************************************************************************)
LEMMA LogWriteInv == ASSUME IInv, NEW p \in Proc, log_write(p) PROVE IInv'
<1> USE DEF IInv
<1>0. PICK h : h = held[p]
  OBVIOUS
<1>1. /\ h # NoBlock /\ h \in Home /\ pc[p] = "op" /\ cache[h] # NoData
      /\ dirty' = dirty \cup {h}
      /\ held' = [held EXCEPT ![p] = NoBlock]
      /\ UNCHANGED <<disk, dhead, cache, outstanding, committing, phase, tail,
                     pc>>
  BY <1>0 DEF log_write, Holding, TypeOK, diskVars, stepVars
<1>2. phase = "run" /\ p \in Active /\ Active' = Active
  BY <1>1 DEF Control, Active
<1>3. CASE InLog(h)
  <2>1. UNCHANGED <<lh, budget>>
    BY <1>0, <1>3 DEF log_write
  <2>2. TypeOK'
    BY <1>1, <2>1 DEF TypeOK
  <2>3. Space'
    BY <1>1, <2>1 DEF Space
  <2>4. Control'
    BY <1>1, <1>2, <2>1 DEF Control, Booted
  <2>5. Holding'
    BY <1>1, <2>1 DEF Holding, InLog, TypeOK
  <2>6. Cache'
    <3>1. \A c \in Home : Pending(c)' <=> Pending(c)
      BY <1>1, <2>1 DEF Pending
    <3>2. Pending(h)
      BY <1>2, <1>3 DEF Pending, InLog
    <3>3. \A c \in Home \ {h} : Busy(c)' <=> Busy(c)
      BY <1>0, <1>1, LogConstants, SMT DEF Busy, TypeOK, NoBlock, Home
    <3>4. \A c \in Home : bread(c)' = bread(c)
      BY <1>1 DEF bread
    <3> QED
      BY <1>1, <1>2, <3>1, <3>2, <3>3, <3>4 DEF Cache, Booted
  <2>7. Journal'
    BY <1>1, <1>2, <2>1, SMT DEF Journal, Injective
  <2> QED
    BY <2>2, <2>3, <2>4, <2>5, <2>6, <2>7
<1>4. CASE ~InLog(h)
  <2>1. /\ lh' = Append(lh, h)
        /\ budget' = [budget EXCEPT ![p] = @ - 1]
    BY <1>0, <1>4 DEF log_write
  <2>2. budget[p] > 0 /\ budget[p] <= OpBlocks /\ budget \in [Proc -> Nat]
    BY <1>0, <1>1, <1>4 DEF Holding, TypeOK, Space
  <2>3. /\ lh \in Seq(Home) /\ lh' \in Seq(Home) /\ Len(lh) \in Nat
        /\ Len(lh') = Len(lh) + 1
        /\ \A i \in 1..Len(lh) : lh'[i] = lh[i]
        /\ lh'[Len(lh) + 1] = h
    BY <1>1, <2>1, SMT DEF TypeOK
  <2>4. TypeOK'
    BY <1>1, <2>1, <2>2, <2>3, SMT DEF TypeOK
  <2>5. Space'
    <3>1. Cardinality(Tokens(budget')) = Cardinality(Tokens(budget)) - 1
      BY <2>1, <2>2, TokenSpent
    <3>2. Cardinality(Tokens(budget)) \in Nat
      BY TokensFinite
    <3>3. Len(lh') + Cardinality(Tokens(budget')) <= LogBound
      BY <2>3, <3>1, <3>2, SMT DEF Space
    <3>4. \A q \in Proc : /\ budget'[q] <= OpBlocks
                          /\ pc'[q] # "op" => budget'[q] = 0
      BY <1>1, <2>1, <2>2, LogConstants, SMT DEF Space
    <3> QED
      BY <1>1, <3>3, <3>4 DEF Space
  <2>6. Control'
    BY <1>1, <1>2 DEF Control, Booted
  <2>7. Holding'
    <3>1. \A c : InLog(c) => InLog(c)'
      BY <2>3, SMT DEF InLog
    <3>2. \A q \in Proc \ {p} : held'[q] = held[q] /\ budget'[q] = budget[q]
      BY <1>1, <2>1, <2>2 DEF TypeOK
    <3>3. held'[p] = NoBlock
      BY <1>1 DEF TypeOK
    <3> QED
      BY <1>1, <3>1, <3>2, <3>3, SMT DEF Holding
  <2>8. Cache'
    <3>1. \A c \in Home : Pending(c)' <=> Pending(c) \/ c = h
      BY <1>1, <1>2, <2>3, SMT DEF Pending
    <3>2. \A c \in Home \ {h} : Busy(c)' <=> Busy(c)
      BY <1>0, <1>1, LogConstants, SMT DEF Busy, TypeOK, NoBlock, Home
    <3>3. \A c \in Home : bread(c)' = bread(c)
      BY <1>1 DEF bread
    <3> QED
      BY <1>1, <1>2, <3>1, <3>2, <3>3 DEF Cache, Booted
  <2>9. Journal'
    <3>1. Injective(lh)'
      BY <1>4, <2>3, SMT DEF Journal, Injective, InLog
    <3> QED
      BY <1>1, <1>2, <2>3, <3>1, SMT DEF Journal, Injective, TypeOK
  <2> QED
    BY <2>4, <2>5, <2>6, <2>7, <2>8, <2>9
<1> QED
  BY <1>3, <1>4

(***************************************************************************)
(* end_op(): the last call out starts a commit, with no call in progress.  *)
(***************************************************************************)
LEMMA EndInv == ASSUME IInv, NEW p \in Proc, end_op(p) PROVE IInv'
<1> USE DEF IInv
<1>1. /\ pc[p] = "op" /\ held[p] = NoBlock
      /\ outstanding' = outstanding - 1
      /\ budget' = [budget EXCEPT ![p] = 0]
      /\ UNCHANGED <<disk, dhead, cache, dirty, lh, held>>
  BY DEF end_op, diskVars, cacheVars
<1>2. phase = "run" /\ ~committing /\ p \in Active
  BY <1>1 DEF Control, Active
<1>3. /\ IsFiniteSet(Active) /\ IsFiniteSet(Active \ {p})
      /\ Cardinality(Active \ {p}) = outstanding - 1
      /\ outstanding >= 1 /\ outstanding \in Nat
  <2>1. IsFiniteSet(Active)
    BY ProcFinite, FS_Subset DEF Active
  <2>2. Active # {}
    BY <1>2
  <2>3. outstanding # 0
    BY <2>1, <2>2, FS_EmptySet DEF Control
  <2> QED
    BY <1>2, <2>1, <2>3, FS_RemoveElement, FS_Subset, SMT DEF Control, TypeOK
<1>4. /\ pc' \in [Proc -> {"idle", "begin", "asleep", "op", "commit"}]
      /\ \A q \in Proc : pc'[q] = "op" <=> q # p /\ pc[q] = "op"
  BY <1>1, <1>2 DEF end_op, Woken, TypeOK
<1>5. Active' = Active \ {p}
  BY <1>4 DEF Active
<1>6. Space'
  <2>1. Cardinality(Tokens(budget')) <= Cardinality(Tokens(budget))
    BY <1>1, TokensDropped DEF TypeOK
  <2>2. Cardinality(Tokens(budget')) \in Nat /\ Cardinality(Tokens(budget)) \in Nat
    BY TokensFinite
  <2>3. LogBound \in Int /\ Len(lh) \in Nat
    BY LogConstants, SMT DEF LogBound, TypeOK
  <2>4. \A q \in Proc : budget'[q] <= OpBlocks /\ (pc'[q] # "op" => budget'[q] = 0)
    BY <1>1, <1>4, LogConstants, SMT DEF Space, TypeOK
  <2> QED
    BY <1>1, <2>1, <2>2, <2>3, <2>4, SMT DEF Space
<1>7. Holding'
  BY <1>1, <1>4 DEF Holding, InLog, TypeOK
<1>8. CASE outstanding = 1
  <2>1. /\ committing' = TRUE /\ tail' = 0
        /\ phase' = IF lh = <<>> THEN "installed" ELSE "write_log"
    BY <1>2, <1>8 DEF end_op
  <2>2. Active' = {}
    BY <1>3, <1>5, <1>8, FS_EmptySet, SMT
  <2>3. TypeOK'
    <3>1. outstanding' \in Nat /\ budget' \in [Proc -> Nat]
      BY <1>1, <1>3, SMT DEF TypeOK
    <3> QED
      BY <1>1, <1>4, <2>1, <3>1 DEF TypeOK
  <2>4. Control'
    BY <1>1, <1>3, <1>5, <2>1, <2>2 DEF Control, Booted
  <2>5. Cache'
    <3>1. \A c \in Home : Pending(c)' <=> Pending(c)
      BY <1>1, <1>2, <2>1 DEF Pending
    <3>2. \A c \in Home : bread(c)' = bread(c) /\ (Busy(c)' <=> Busy(c))
      BY <1>1 DEF bread, Busy
    <3> QED
      BY <1>1, <1>2, <2>1, <3>1, <3>2 DEF Cache, Booted
  <2>6. Journal'
    BY <1>1, <1>2, <2>1, SMT DEF Journal, Injective, TypeOK
  <2> QED
    BY <1>6, <1>7, <2>3, <2>4, <2>5, <2>6
<1>9. CASE outstanding # 1
  <2>1. UNCHANGED <<committing, phase, tail>>
    BY <1>2, <1>9 DEF end_op, stepVars
  <2>2. Active' # {}
    BY <1>3, <1>5, <1>9, FS_EmptySet, SMT
  <2>3. TypeOK'
    <3>1. outstanding' \in Nat /\ budget' \in [Proc -> Nat]
      BY <1>1, <1>3, SMT DEF TypeOK
    <3> QED
      BY <1>1, <1>4, <2>1, <3>1 DEF TypeOK
  <2>4. Control'
    BY <1>1, <1>2, <1>3, <1>5, <2>1, <2>2 DEF Control, Booted
  <2>5. Cache'
    BY <1>1, <2>1 DEF Cache, Booted, bread, Busy, Pending
  <2>6. Journal'
    BY <1>1, <2>1, SMT DEF Journal, Injective, bread
  <2> QED
    BY <1>6, <1>7, <2>3, <2>4, <2>5, <2>6
<1> QED
  BY <1>8, <1>9

(***************************************************************************)
(* A round of write_log() fills a log block and leaves the home blocks,    *)
(* and the log blocks filled before, alone.                                *)
(***************************************************************************)
LEMMA WriteLogInv == ASSUME SpaceSuffices, IInv, write_log PROVE IInv'
<1> USE DEF IInv
<1>0. PICK k, d : k = tail + 1 /\ d = bread(lh[k])
  OBVIOUS
<1>1. /\ phase = "write_log" /\ k \in 1..Len(lh) /\ tail' = k
      /\ disk' = [disk EXCEPT ![Slot(k)] = d]
      /\ UNCHANGED <<dhead, cache, dirty, lh, outstanding, committing, phase,
                     pc, held, budget>>
  BY <1>0, SMT DEF write_log, cacheVars, logVars, procVars, TypeOK
<1>2. lh \in Seq(Home) /\ Len(lh) <= LogBound /\ Len(lh) \in Nat
  <2>1. Cardinality(Tokens(budget)) \in Nat
    BY TokensFinite
  <2> QED
    BY <2>1, LogConstants, SMT DEF TypeOK, Space, LogBound
<1>3. \A i \in 1..Len(lh) :
         lh[i] \in Home /\ Slot(i) \in Addr /\ Slot(i) \notin Home
  BY <1>2, SlotsApart
<1>4. cache[lh[k]] = d /\ d \in Data
  <2>1. cache[lh[k]] # NoData
    BY <1>1, <1>3 DEF Cache, Pending, Booted
  <2> QED
    BY <1>0, <1>1, <1>3, <2>1 DEF bread, TypeOK
<1>5. \A c \in Home : disk'[c] = disk[c]
  BY <1>1, <1>3, SMT DEF TypeOK, Home, Addr
<1>6. \A i \in 1..k : disk'[Slot(i)] = IF i = k THEN d ELSE disk[Slot(i)]
  <2>1. SUFFICES ASSUME NEW i \in 1..k
                 PROVE  disk'[Slot(i)] = IF i = k THEN d ELSE disk[Slot(i)]
    OBVIOUS
  <2>2. i \in 1..Len(lh) /\ (i # k => Slot(i) # Slot(k))
    BY <1>1, <1>2, LogConstants, SMT DEF Slot
  <2> QED
    BY <1>1, <1>3, <2>2 DEF TypeOK
<1>7. TypeOK'
  <2>1. tail' \in Nat
    BY <1>1, <1>2, SMT
  <2>2. disk' \in [Addr -> Data]
    BY <1>1, <1>4 DEF TypeOK
  <2> QED
    BY <1>1, <2>1, <2>2 DEF TypeOK
<1>8. Space'
  BY <1>1 DEF Space
<1>9. Control'
  BY <1>1 DEF Control, Booted, Active
<1>10. Holding'
  BY <1>1 DEF Holding, InLog
<1>11. Cache'
  BY <1>1, <1>5 DEF Cache, Booted, bread, Busy, Pending
<1>12. Journal'
  <2>1. \A i \in 1..k : disk'[Slot(i)] = cache[lh[i]]
    <3>1. SUFFICES ASSUME NEW i \in 1..k, i # k
                   PROVE  disk'[Slot(i)] = cache[lh[i]]
      BY <1>4, <1>6
    <3>2. i \in 1..tail
      BY <1>0, <3>1, SMT DEF TypeOK
    <3> QED
      BY <1>1, <1>6, <3>1, <3>2 DEF Journal
  <2> QED
    BY <1>1, <2>1, SMT DEF Journal, Injective
<1> QED
  BY <1>7, <1>8, <1>9, <1>10, <1>11, <1>12

(***************************************************************************)
(* write_head() names the filled log blocks in the header.                 *)
(***************************************************************************)
LEMMA WriteHeadInv == ASSUME IInv, write_head PROVE IInv'
<1> USE DEF IInv
<1>1. /\ phase = "write_log" /\ tail = Len(lh)
      /\ phase' = "install" /\ tail' = 0 /\ dhead' = lh
      /\ UNCHANGED <<disk, cache, dirty, lh, outstanding, committing, pc, held,
                     budget>>
  BY DEF write_head, cacheVars, logVars, procVars
<1>2. lh \in Seq(Home) /\ Len(lh) \in Nat /\ \A i \in 1..Len(lh) : lh[i] \in Home
  BY SMT DEF TypeOK
<1>3. TypeOK'
  BY <1>1 DEF TypeOK
<1>4. Space'
  <2>1. Cardinality(Tokens(budget)) \in Nat /\ LogBound \in Int
    BY TokensFinite, LogConstants, SMT DEF LogBound
  <2> QED
    BY <1>1, <1>2, <2>1, SMT DEF Space
<1>5. Control'
  BY <1>1 DEF Control, Booted, Active
<1>6. Holding'
  BY <1>1 DEF Holding, InLog
<1>7. Cache'
  <2>1. \A c \in Home : Pending(c)' <=> Pending(c)
    BY <1>1, <1>2, SMT DEF Pending
  <2>2. \A c \in Home : bread(c)' = bread(c) /\ (Busy(c)' <=> Busy(c))
    BY <1>1 DEF bread, Busy
  <2> QED
    BY <1>1, <2>1, <2>2 DEF Cache, Booted
<1>8. Journal'
  <2>1. \A i \in 1..Len(lh) : disk[Slot(i)] = bread(lh[i])
    <3>1. SUFFICES ASSUME NEW i \in 1..Len(lh)
                   PROVE  disk[Slot(i)] = bread(lh[i])
      OBVIOUS
    <3>2. cache[lh[i]] # NoData
      BY <1>1, <1>2 DEF Cache, Pending, Booted
    <3> QED
      BY <1>1, <3>2 DEF Journal, bread
  <2>2. \A i \in 1..Len(lh) : bread(lh[i])' = bread(lh[i])
    BY <1>1 DEF bread
  <2> QED
    BY <1>1, <1>2, <2>1, <2>2, SMT DEF Journal, Injective
<1> QED
  BY <1>3, <1>4, <1>5, <1>6, <1>7, <1>8

(***************************************************************************)
(* The end of a commit.                                                    *)
(***************************************************************************)
LEMMA CommitDoneInv == ASSUME IInv, NEW p \in Proc, commit_done(p) PROVE IInv'
<1> USE DEF IInv
<1>1. /\ phase = "installed" /\ committing' = FALSE /\ phase' = "run"
      /\ UNCHANGED <<disk, dhead, cache, dirty, lh, outstanding, tail, held,
                     budget>>
  BY DEF commit_done, diskVars, cacheVars
<1>2. /\ pc' \in [Proc -> {"idle", "begin", "asleep", "op", "commit"}]
      /\ \A q \in Proc : pc'[q] = "op" <=> pc[q] = "op"
  BY DEF commit_done, Woken, TypeOK
<1>3. Active' = Active /\ Active = {} /\ lh = <<>>
  BY <1>1, <1>2 DEF Active, Control
<1>4. TypeOK'
  BY <1>1, <1>2 DEF TypeOK
<1>5. Space'
  BY <1>1, <1>2 DEF Space
<1>6. Control'
  BY <1>1, <1>3 DEF Control, Booted
<1>7. Holding'
  BY <1>1, <1>2 DEF Holding, InLog
<1>8. Cache'
  BY <1>1 DEF Cache, Booted, bread, Busy, Pending
<1>9. Journal'
  BY <1>1, SMT DEF Journal, Injective
<1> QED
  BY <1>4, <1>5, <1>6, <1>7, <1>8, <1>9

(***************************************************************************)
(* Every step of the log preserves the invariant.                          *)
(***************************************************************************)
LEMMA NextInv == ASSUME SpaceSuffices, IInv, [Next]_vars PROVE IInv'
<1>1. CASE UNCHANGED vars
  <2> USE <1>1 DEF vars, diskVars, cacheVars, logVars, stepVars, procVars, IInv
  <2>1. TypeOK'
    BY DEF TypeOK
  <2>2. Space'
    BY DEF Space
  <2>3. Control'
    BY DEF Control, Booted, Active
  <2>4. Holding'
    BY DEF Holding, InLog
  <2>5. Cache'
    BY DEF Cache, Booted, bread, Busy, Pending
  <2>6. Journal'
    BY SMT DEF Journal, Injective, bread
  <2> QED
    BY <2>1, <2>2, <2>3, <2>4, <2>5, <2>6
<1>2. CASE Next
  BY <1>2, CrashInv, ReadHeadInv, InstallInv, ClearHeadInv, WriteLogInv,
     WriteHeadInv, CommitDoneInv, CallInv, BeginInv, KillWakesInv,
     LogWriteInv, EndInv, LogWriteTestInv, CacheInv
  DEF Next, Recover, Commit
<1> QED
  BY <1>1, <1>2

(***************************************************************************)
(* The inductive invariant holds in every reachable state of the log.      *)
(***************************************************************************)
THEOREM Invariance == ASSUME SpaceSuffices PROVE Spec => []IInv
<1>1. Init => IInv
  BY InitInv
<1>2. IInv /\ [Next]_vars => IInv'
  BY NextInv
<1> QED
  BY <1>1, <1>2, PTL DEF Spec

(***************************************************************************)
(* The log's variables keep their types.                                   *)
(***************************************************************************)
THEOREM TypeCorrect == ASSUME SpaceSuffices PROVE Spec => []TypeOK
<1>1. IInv => TypeOK
  BY DEF IInv
<1> QED
  BY <1>1, Invariance, PTL

(***************************************************************************)
(* begin_op()'s reservation suffices when each call stays below it:        *)
(* log_write() does not panic and the log stays inside its blocks.         *)
(***************************************************************************)
THEOREM ReservationSuffices == ASSUME SpaceSuffices PROVE Spec => []LogFits
<1>1. IInv => LogFits
  <2>1. ASSUME IInv PROVE Len(lh) <= LogBound /\ Len(lh) \in Nat
    <3>1. Cardinality(Tokens(budget)) \in Nat /\ Len(lh) \in Nat /\ LogBound \in Int
      BY <2>1, TokensFinite, LogConstants, SMT DEF IInv, TypeOK, LogBound
    <3> QED
      BY <2>1, <3>1, SMT DEF IInv, Space
  <2>2. LogBound \in Int
    BY LogConstants, SMT DEF LogBound
  <2> QED
    BY <2>1, <2>2, LogConstants, SMT DEF IInv, Control, LogFits, SpaceSuffices
<1> QED
  BY <1>1, Invariance, PTL

(***************************************************************************)
(* No process misses the wakeup(&log) it waits for, as long as one call    *)
(* alone fits in the log.                                                  *)
(***************************************************************************)
THEOREM WakeupsArrive ==
    ASSUME SpaceSuffices, MAXOPBLOCKS <= LOGSIZE
    PROVE  Spec => []NoMissedWakeup
<1>1. Init => NoMissedWakeup
  BY DEF Init, NoMissedWakeup
<1>2. ASSUME IInv, NoMissedWakeup, [Next]_vars PROVE NoMissedWakeup'
  <2> USE DEF NoMissedWakeup, diskVars, cacheVars, logVars, stepVars, procVars
  <2>1. CASE UNCHANGED vars
    BY <1>2, <2>1 DEF vars
  <2>2. CASE Crash
    BY <2>2 DEF Crash
  <2>3. CASE Recover
    BY <1>2, <2>3 DEF Recover, read_head, install_trans, clear_head
  <2>4. CASE write_log \/ write_head
    BY <1>2, <2>4 DEF write_log, write_head
  <2>5. ASSUME NEW p \in Proc, commit_done(p) PROVE NoMissedWakeup'
    <3>1. \A q \in Proc : pc'[q] # "asleep"
      BY <1>2, <2>5 DEF commit_done, Woken, IInv, TypeOK
    <3> QED
      BY <3>1
  <2>6. ASSUME NEW p \in Proc, Call(p) \/ KillWakes(p) PROVE NoMissedWakeup'
    BY <1>2, <2>6 DEF Call, KillWakes, IInv, TypeOK
  <2>7. ASSUME NEW p \in Proc, begin_op(p) PROVE NoMissedWakeup'
    <3>1. CASE MustWait
      <4>1. SUFFICES ASSUME outstanding = 0, ~committing PROVE FALSE
        BY <2>7, <3>1, <1>2, SMT DEF begin_op, IInv, TypeOK
      <4>2. Active = {}
        BY <1>2, <4>1, ProcFinite, FS_Subset, FS_EmptySet DEF IInv, Control, Active
      <4>3. phase = "run"
        BY <1>2, <2>7, <4>1 DEF begin_op, IInv, TypeOK, Control, Booted
      <4>4. Len(lh) = 0
        BY <1>2, <4>2, <4>3, SMT DEF IInv, Control
      <4> QED
        BY <3>1, <4>1, <4>4, LogConstants, SMT DEF MustWait
    <3>2. CASE ~MustWait
      BY <1>2, <2>7, <3>2, SMT DEF begin_op, IInv, TypeOK
    <3> QED
      BY <3>1, <3>2
  <2>8. ASSUME NEW p \in Proc, log_write(p) PROVE NoMissedWakeup'
    BY <1>2, <2>8 DEF log_write
  <2>9. ASSUME NEW p \in Proc, NEW b \in Home, NEW d \in Data,
               log_write_test(p, b, d)
        PROVE  NoMissedWakeup'
    BY <1>2, <2>9 DEF log_write_test
  <2>10. ASSUME NEW p \in Proc, end_op(p) PROVE NoMissedWakeup'
    <3>1. ~committing
      BY <1>2, <2>10 DEF end_op, IInv, Control, Active
    <3>2. CASE outstanding = 1
      BY <2>10, <3>1, <3>2 DEF end_op
    <3>3. CASE outstanding # 1
      <4>1. \A q \in Proc : pc'[q] # "asleep"
        BY <1>2, <2>10, <3>1, <3>3 DEF end_op, Woken, IInv, TypeOK
      <4> QED
        BY <4>1
    <3> QED
      BY <3>2, <3>3
  <2>11. ASSUME NEW b \in Home, Read(b) \/ Recycle(b) PROVE NoMissedWakeup'
    BY <1>2, <2>11 DEF Read, Recycle
  <2> QED
    BY <1>2, <2>1, <2>2, <2>3, <2>4, <2>5, <2>6, <2>7, <2>8, <2>9, <2>10, <2>11
       DEF Next, Commit
<1> QED
  BY <1>1, <1>2, Invariance, PTL DEF Spec

-----------------------------------------------------------------------------
(* The log implements an atomic disk. *)

(***************************************************************************)
(* What recovery makes of a block: the log block that the header names     *)
(* for it, if there is one.                                                *)
(***************************************************************************)
LEMMA ReplayAt ==
    ASSUME NEW dsk, NEW head \in Seq(Home), Injective(head), NEW b \in Home
    PROVE  /\ \A i \in 1..Len(head) :
                 head[i] = b => Replay(dsk, head)[b] = dsk[Slot(i)]
           /\ (\A i \in 1..Len(head) : head[i] # b)
                 => Replay(dsk, head)[b] = dsk[b]
<1>1. ASSUME NEW i \in 1..Len(head), head[i] = b
      PROVE  Replay(dsk, head)[b] = dsk[Slot(i)]
  <2>1. (CHOOSE j \in 1..Len(head) : head[j] = b) = i
    BY <1>1 DEF Injective
  <2> QED
    BY <1>1, <2>1 DEF Replay
<1>2. ASSUME \A i \in 1..Len(head) : head[i] # b
      PROVE  Replay(dsk, head)[b] = dsk[b]
  BY <1>2 DEF Replay
<1> QED
  BY <1>1, <1>2

(***************************************************************************)
(* The kernel boots on a disk whose log is empty.                          *)
(***************************************************************************)
LEMMA AtomicInit == ASSUME Init PROVE AD!Init
<1>1. Recovered \in [Home -> Data]
  <2>1. \A b \in Home : b \in Addr
    BY LogConstants, SMT DEF Home, Addr
  <2> QED
    BY <2>1, SMT DEF Init, Recovered, Replay
<1>2. Visible = Recovered
  BY DEF Init, Visible, Booted
<1>3. Active = {}
  BY DEF Init, Active
<1> QED
  BY <1>1, <1>2, <1>3 DEF AD!Init

(***************************************************************************)
(* Recovery changes neither the recovered contents nor the visible ones.   *)
(***************************************************************************)
LEMMA AtomicInstall ==
    ASSUME SpaceSuffices, IInv, install_trans
    PROVE  UNCHANGED <<Recovered, Visible, Active>>
<1> USE DEF IInv
<1>0. PICK k, b, d : k = tail + 1 /\ b = lh[k] /\ d = disk[Slot(k)]
  OBVIOUS
<1>1. /\ phase \in {"recover", "install"} /\ k \in 1..Len(lh)
      /\ disk' = [disk EXCEPT ![b] = d]
      /\ cache' = [cache EXCEPT ![b] = d]
      /\ lh = dhead
      /\ UNCHANGED <<dhead, lh, phase, pc>>
  BY <1>0, SMT DEF install_trans, logVars, procVars, TypeOK, Journal
<1>2. lh \in Seq(Home) /\ Len(lh) <= LogBound /\ Injective(lh)
  BY <1>1 DEF TypeOK, Space, Journal
<1>3. /\ b \in Home /\ b \in Addr
      /\ \A i \in 1..Len(lh) : Slot(i) \in Addr /\ Slot(i) # b
  BY <1>0, <1>1, <1>2, SlotsApart
<1>4. /\ \A i \in 1..Len(lh) : disk'[Slot(i)] = disk[Slot(i)]
      /\ disk'[b] = d /\ cache'[b] = d /\ d \in Data
      /\ \A c \in Home \ {b} : disk'[c] = disk[c] /\ cache'[c] = cache[c]
  BY <1>0, <1>1, <1>3, SMT DEF TypeOK, Home, Addr
<1>5. Recovered' = Recovered
  <2>1. SUFFICES ASSUME NEW c \in Home
                 PROVE  Replay(disk', lh)[c] = Replay(disk, lh)[c]
    BY <1>1, SMT DEF Recovered, Replay
  <2>2. ASSUME NEW i \in 1..Len(lh), lh[i] = c
        PROVE  Replay(disk', lh)[c] = Replay(disk, lh)[c]
    <3>1. Replay(disk', lh)[c] = disk'[Slot(i)]
      BY <1>2, <2>2, ReplayAt
    <3>2. Replay(disk, lh)[c] = disk[Slot(i)]
      BY <1>2, <2>2, ReplayAt
    <3> QED
      BY <1>4, <3>1, <3>2
  <2>3. ASSUME \A i \in 1..Len(lh) : lh[i] # c
        PROVE  Replay(disk', lh)[c] = Replay(disk, lh)[c]
    <3>1. Replay(disk', lh)[c] = disk'[c]
      BY <1>2, <2>3, ReplayAt
    <3>2. Replay(disk, lh)[c] = disk[c]
      BY <1>2, <2>3, ReplayAt
    <3>3. c # b
      BY <1>0, <1>1, <2>3
    <3> QED
      BY <1>4, <3>1, <3>2, <3>3
  <2> QED
    BY <2>2, <2>3
<1>6. Visible' = Visible
  <2>1. CASE phase = "recover"
    BY <1>1, <1>5, <2>1 DEF Visible, Booted
  <2>2. CASE phase = "install"
    <3>1. \A c \in Home : bread(c)' = bread(c)
      BY <1>0, <1>1, <1>4, <2>2, LogConstants, SMT DEF bread, Journal
    <3> QED
      BY <1>1, <2>2, <3>1 DEF Visible, Booted
  <2> QED
    BY <1>1, <2>1, <2>2
<1> QED
  BY <1>1, <1>5, <1>6 DEF Active

(***************************************************************************)
(* Erasing the header is invisible: every block it names is in its place.  *)
(***************************************************************************)
LEMMA AtomicClear ==
    ASSUME IInv, clear_head
    PROVE  UNCHANGED <<Recovered, Visible, Active>>
<1> USE DEF IInv
<1>1. /\ phase \in {"recover", "install"} /\ tail = Len(lh) /\ lh = dhead
      /\ dhead' = <<>>
      /\ phase' = IF phase = "recover" THEN "run" ELSE "installed"
      /\ UNCHANGED <<disk, cache, dirty, pc>>
  BY DEF clear_head, cacheVars, procVars, Journal
<1>2. lh \in Seq(Home) /\ Injective(lh)
  BY DEF TypeOK, Journal
<1>3. \A c \in Home : Recovered[c] = disk[c]
  <2>1. SUFFICES ASSUME NEW c \in Home PROVE Replay(disk, lh)[c] = disk[c]
    BY <1>1 DEF Recovered
  <2>2. \A i \in 1..Len(lh) : disk[Slot(i)] = disk[lh[i]]
    BY <1>1 DEF Journal
  <2> QED
    BY <1>2, <2>2, ReplayAt, SMT
<1>4. \A c \in Home : Recovered'[c] = disk[c]
  BY <1>1, SMT DEF Recovered, Replay
<1>5. Recovered' = Recovered
  BY <1>3, <1>4, SMT DEF Recovered, Replay
<1>6. Visible' = Visible
  <2>1. \A c \in Home : bread(c)' = bread(c)
    BY <1>1 DEF bread
  <2>2. CASE phase = "recover"
    <3>1. \A c \in Home : bread(c) = disk[c]
      <4>1. \A p \in Proc : held[p] = NoBlock
        BY <2>2 DEF Holding, Control, Active
      <4>2. \A c \in Home : ~Busy(c) /\ c \notin dirty
        BY <2>2, <4>1, LogConstants, SMT DEF Busy, NoBlock, Home, Cache, Booted
      <4> QED
        BY <4>2 DEF Cache
    <3>2. Visible = Recovered /\ Visible' = [c \in Home |-> bread(c)']
      BY <1>1, <2>2 DEF Visible, Booted
    <3> QED
      BY <1>3, <2>1, <3>1, <3>2, SMT DEF Recovered, Replay
  <2>3. CASE phase = "install"
    BY <1>1, <2>1, <2>3 DEF Visible, Booted
  <2> QED
    BY <1>1, <2>2, <2>3
<1> QED
  BY <1>1, <1>5, <1>6 DEF Active

(***************************************************************************)
(* Before write_head() the log blocks do not count.                        *)
(***************************************************************************)
LEMMA AtomicWriteLog ==
    ASSUME SpaceSuffices, IInv, write_log
    PROVE  UNCHANGED <<Recovered, Visible, Active>>
<1> USE DEF IInv
<1>0. PICK k, d : k = tail + 1 /\ d = bread(lh[k])
  OBVIOUS
<1>1. /\ phase = "write_log" /\ k \in 1..Len(lh) /\ dhead = <<>>
      /\ disk' = [disk EXCEPT ![Slot(k)] = d]
      /\ UNCHANGED <<dhead, cache, phase, pc>>
  BY <1>0, SMT DEF write_log, cacheVars, procVars, TypeOK, Journal
<1>2. Slot(k) \notin Home
  <2>1. Cardinality(Tokens(budget)) \in Nat /\ LogBound \in Int /\ Len(lh) \in Nat
    BY TokensFinite, LogConstants, SMT DEF LogBound, TypeOK
  <2>2. lh \in Seq(Home) /\ Len(lh) <= LogBound
    BY <2>1, SMT DEF TypeOK, Space
  <2> QED
    BY <1>1, <2>2, SlotsApart
<1>3. \A c \in Home : disk'[c] = disk[c]
  BY <1>1, <1>2, SMT DEF TypeOK, Home, Addr
<1>4. Recovered' = Recovered
  BY <1>1, <1>3, SMT DEF Recovered, Replay
<1>5. Visible' = Visible
  BY <1>1, <1>3 DEF Visible, Booted, bread
<1> QED
  BY <1>1, <1>4, <1>5 DEF Active

(***************************************************************************)
(* write_head() is the commit: at that very step everything visible        *)
(* becomes durable, and no call is in progress.                            *)
(***************************************************************************)
LEMMA AtomicWriteHead == ASSUME IInv, write_head PROVE AD!Commit
<1> USE DEF IInv
<1>1. /\ phase = "write_log" /\ tail = Len(lh)
      /\ dhead' = lh /\ phase' = "install"
      /\ UNCHANGED <<disk, cache, lh, pc>>
  BY DEF write_head, cacheVars, logVars, procVars
<1>2. /\ lh \in Seq(Home) /\ Injective(lh)
      /\ \A i \in 1..Len(lh) : lh[i] \in Home
  BY SMT DEF TypeOK, Journal
<1>3. \A c \in Home : bread(c)' = bread(c)
  BY <1>1 DEF bread
<1>4. Visible' = Visible /\ Active' = Active /\ Active = {}
  BY <1>1, <1>3 DEF Visible, Booted, Active, Control
<1>5. Recovered' = Visible
  <2>1. Recovered' = Replay(disk, lh)
    BY <1>1 DEF Recovered
  <2>2. Visible = [c \in Home |-> bread(c)]
    BY <1>1 DEF Visible, Booted
  <2>3. SUFFICES ASSUME NEW c \in Home PROVE Replay(disk, lh)[c] = bread(c)
    BY <2>1, <2>2 DEF Replay
  <2>4. ASSUME NEW i \in 1..Len(lh), lh[i] = c
        PROVE  Replay(disk, lh)[c] = bread(c)
    <3>1. Replay(disk, lh)[c] = disk[Slot(i)]
      BY <1>2, <2>4, ReplayAt
    <3>2. cache[c] # NoData
      BY <1>1, <2>4 DEF Cache, Pending, Booted
    <3> QED
      BY <1>1, <2>4, <3>1, <3>2 DEF Journal, bread
  <2>5. ASSUME \A i \in 1..Len(lh) : lh[i] # c
        PROVE  Replay(disk, lh)[c] = bread(c)
    <3>1. Replay(disk, lh)[c] = disk[c]
      BY <1>2, <2>5, ReplayAt
    <3>2. c \notin dirty
      BY <1>1, <2>5 DEF Cache, Pending, Booted
    <3>3. ~Busy(c)
      BY <1>4, LogConstants, SMT DEF Busy, Holding, Active, NoBlock, Home
    <3> QED
      BY <3>1, <3>2, <3>3 DEF Cache
  <2> QED
    BY <2>4, <2>5
<1> QED
  BY <1>4, <1>5 DEF AD!Commit

(***************************************************************************)
(* Every step of the log is a step of the atomic disk, or invisible.       *)
(***************************************************************************)
LEMMA AtomicStep ==
    ASSUME SpaceSuffices, IInv, [Next]_vars
    PROVE  [AD!Next]_(AD!vars)
<1> USE DEF IInv, diskVars, cacheVars, logVars, stepVars, procVars
<1>0. ASSUME UNCHANGED <<Recovered, Visible, Active>>
      PROVE  [AD!Next]_(AD!vars)
  BY <1>0 DEF AD!vars
<1>1. CASE UNCHANGED vars
  BY <1>0, <1>1
     DEF vars, Recovered, Visible, Active, Booted, bread, Replay
<1>2. CASE Crash
  <2>1. Recovered' = Recovered /\ Visible' = Recovered /\ Active' = {}
    BY <1>2 DEF Crash, Recovered, Replay, Visible, Booted, Active
  <2> QED
    BY <2>1 DEF AD!Crash, AD!Next
<1>3. CASE Recover
  <2>1. CASE read_head
    BY <1>0, <2>1 DEF read_head, Recovered, Replay, Visible, Booted, Active
  <2> QED
    BY <1>0, <1>3, <2>1, AtomicInstall, AtomicClear DEF Recover
<1>4. CASE Commit
  <2>1. ASSUME NEW p \in Proc, commit_done(p) PROVE [AD!Next]_(AD!vars)
    <3>1. Recovered' = Recovered /\ Visible' = Visible
      BY <2>1 DEF commit_done, Recovered, Replay, Visible, Booted, bread
    <3>2. Active' = Active
      BY <2>1 DEF commit_done, Woken, Active, TypeOK
    <3> QED
      BY <1>0, <3>1, <3>2
  <2> QED
    BY <1>0, <1>4, <2>1, AtomicWriteLog, AtomicWriteHead DEF Commit, AD!Next
<1>5. ASSUME NEW p \in Proc,
             \/ Call(p) \/ begin_op(p) \/ KillWakes(p)
             \/ log_write(p) \/ end_op(p)
      PROVE  [AD!Next]_(AD!vars)
  <2>1. phase' # phase => phase = "run" /\ phase' \in {"installed", "write_log"}
    BY <1>5 DEF Call, begin_op, KillWakes, log_write, end_op, Control, Active
  <2>2. UNCHANGED <<disk, dhead, cache>>
    BY <1>5 DEF Call, begin_op, KillWakes, log_write, end_op
  <2>3. Recovered' = Recovered /\ Visible' = Visible
    BY <2>1, <2>2 DEF Recovered, Replay, Visible, Booted, bread
  <2>4. \/ Active' = Active
        \/ p \notin Active /\ Active' = Active \cup {p}
        \/ p \in Active /\ Active' = Active \ {p}
    <3>1. CASE begin_op(p)
      BY <3>1, SMT DEF begin_op, Active, TypeOK
    <3>2. CASE end_op(p)
      BY <3>2 DEF end_op, Woken, Active, TypeOK
    <3> QED
      BY <1>5, <3>1, <3>2 DEF Call, KillWakes, log_write, Active, TypeOK
  <2> QED
    BY <1>0, <2>3, <2>4 DEF AD!Next, AD!Begin, AD!End
<1>6. ASSUME NEW p \in Proc, NEW b \in Home, NEW d \in Data,
             log_write_test(p, b, d)
      PROVE  [AD!Next]_(AD!vars)
  <2>1. Recovered' = Recovered /\ Active' = Active /\ p \in Active
    BY <1>6 DEF log_write_test, Recovered, Replay, Active
  <2>2. /\ cache' = [cache EXCEPT ![b] = d] /\ disk' = disk
        /\ Booted /\ Booted'
    BY <1>6 DEF log_write_test, Booted, Control, Active
  <2>3. \A c \in Home : bread(c)' = IF c = b THEN d ELSE bread(c)
    BY <2>2, LogConstants DEF bread, TypeOK
  <2>4. Visible' = [Visible EXCEPT ![b] = d]
    BY <2>2, <2>3 DEF Visible
  <2> QED
    BY <2>1, <2>4 DEF AD!Next, AD!Write
<1>7. ASSUME NEW b \in Home, Read(b) \/ Recycle(b)
      PROVE  [AD!Next]_(AD!vars)
  <2>1. UNCHANGED <<disk, dhead, phase, pc>>
    BY <1>7 DEF Read, Recycle
  <2>2. \A c \in Home : bread(c)' = bread(c)
    <3>1. CASE Read(b)
      BY <3>1, LogConstants DEF Read, bread, TypeOK, Home, Addr
    <3>2. CASE Recycle(b)
      BY <3>2, LogConstants DEF Recycle, Cache, bread, TypeOK
    <3> QED
      BY <1>7, <3>1, <3>2
  <2>3. Recovered' = Recovered /\ Active' = Active
    BY <2>1 DEF Recovered, Replay, Active
  <2>4. Visible' = Visible
    BY <2>1, <2>2, <2>3 DEF Visible, Booted
  <2> QED
    BY <1>0, <2>3, <2>4
<1> QED
  BY <1>1, <1>2, <1>3, <1>4, <1>5, <1>6, <1>7 DEF Next

(***************************************************************************)
(* The log implements an atomic disk: whatever the interleaving of calls   *)
(* and whenever the machine crashes, recovery brings back what was visible *)
(* at the last write_head() of a commit, a moment between calls.           *)
(***************************************************************************)
THEOREM LogIsAtomic == ASSUME SpaceSuffices PROVE Spec => Atomic
<1>1. Init => AD!Init
  BY AtomicInit
<1>2. IInv /\ [Next]_vars => [AD!Next]_(AD!vars)
  BY AtomicStep
<1> QED
  BY <1>1, <1>2, Invariance, PTL DEF Spec, Atomic, AD!Spec

-----------------------------------------------------------------------------
(* Write-ahead. *)

(***************************************************************************)
(* What a step may do to the disk under a committed header.                *)
(***************************************************************************)
Ahead ==
    /\ \A b \in Home :
          disk'[b] # disk[b] => \E i \in 1..Len(dhead) : dhead[i] = b
    /\ \A i \in 1..Len(dhead) : disk'[Slot(i)] = disk[Slot(i)]

(***************************************************************************)
(* install_trans() writes a block that the header names, and no log block. *)
(***************************************************************************)
LEMMA InstallAhead == ASSUME SpaceSuffices, IInv, install_trans PROVE Ahead
<1> USE DEF IInv
<1>0. PICK k, b : k = tail + 1 /\ b = lh[k]
  OBVIOUS
<1>1. /\ k \in 1..Len(lh) /\ lh = dhead
      /\ disk' = [disk EXCEPT ![b] = disk[Slot(k)]]
  BY <1>0, SMT DEF install_trans, TypeOK, Journal
<1>2. lh \in Seq(Home) /\ Len(lh) <= LogBound
  BY <1>1 DEF TypeOK, Space
<1>3. /\ b \in Home /\ b \in Addr
      /\ \A i \in 1..Len(lh) : Slot(i) \in Addr /\ Slot(i) # b
  BY <1>0, <1>1, <1>2, SlotsApart
<1>4. \A c \in Home : c \in Addr
  BY LogConstants, SMT DEF Home, Addr
<1> QED
  BY <1>0, <1>1, <1>3, <1>4 DEF Ahead, TypeOK

(***************************************************************************)
(* write_log() writes behind the header of an empty log.                   *)
(***************************************************************************)
LEMMA WriteLogAhead == ASSUME SpaceSuffices, IInv, write_log PROVE Ahead
<1> USE DEF IInv
<1>0. PICK k : k = tail + 1
  OBVIOUS
<1>1. /\ k \in 1..Len(lh) /\ dhead = <<>>
      /\ disk' = [disk EXCEPT ![Slot(k)] = bread(lh[k])]
  BY <1>0, SMT DEF write_log, TypeOK, Journal
<1>2. lh \in Seq(Home) /\ Len(lh) <= LogBound
  <2>1. Cardinality(Tokens(budget)) \in Nat /\ LogBound \in Int /\ Len(lh) \in Nat
    BY TokensFinite, LogConstants, SMT DEF LogBound, TypeOK
  <2> QED
    BY <2>1, SMT DEF TypeOK, Space
<1>3. Slot(k) \notin Home
  BY <1>1, <1>2, SlotsApart
<1>4. \A c \in Home : disk'[c] = disk[c]
  BY <1>1, <1>3, SMT DEF TypeOK, Home, Addr
<1> QED
  BY <1>1, <1>4, SMT DEF Ahead

(***************************************************************************)
(* Write-ahead: no step of the kernel, a crash or recovery included, puts  *)
(* a block in its place before a header on disk names it, and none touches *)
(* the log blocks of such a header (log.c:194).                            *)
(***************************************************************************)
THEOREM LogWritesAhead == ASSUME SpaceSuffices PROVE Spec => WriteAhead
<1>1. IInv /\ [Next]_vars => [Ahead]_vars
  <2> SUFFICES ASSUME IInv, Next PROVE Ahead \/ UNCHANGED vars
    OBVIOUS
  <2>1. CASE install_trans
    BY <2>1, InstallAhead
  <2>2. CASE write_log
    BY <2>2, WriteLogAhead
  <2>3. ASSUME ~install_trans, ~write_log
        PROVE  disk' = disk
    BY <2>3 DEF Next, Crash, Recover, Commit, read_head, clear_head, write_head, commit_done,
               Call, begin_op, KillWakes, log_write, end_op, log_write_test, Read, Recycle,
               diskVars
  <2> QED
    BY <2>1, <2>2, <2>3 DEF Ahead
<1> QED
  BY <1>1, Invariance, PTL DEF Spec, WriteAhead, Ahead

=============================================================================
