----------------------------- MODULE PipeProofs -----------------------------
(***************************************************************************)
(* Proofs about Pipe, for any number of processes, any buffer size that    *)
(* divides the range of the counters, and calls of any length.             *)
(***************************************************************************)
EXTENDS Pipe, DataLemmas

-----------------------------------------------------------------------------
(* The counters *)

\* The pipe is full when PIPESIZE bytes are in it, and empty when none is.
LEMMA Distances ==
    ASSUME TypeOK
    PROVE  /\ InPipe \in 0..(UINT - 1)
           /\ Full <=> InPipe = PIPESIZE
           /\ Empty <=> InPipe = 0
  <1> USE PipeConstants
  <1>1. nread \in 0..(UINT - 1) /\ nwrite \in 0..(UINT - 1) /\ UINT \in Nat \ {0}
    BY DEF TypeOK
  <1>2. InPipe = IF nwrite >= nread THEN nwrite - nread ELSE nwrite - nread + UINT
    BY <1>1, Difference DEF InPipe
  <1>3. CASE nread + PIPESIZE < UINT
    <2>1. (nread + PIPESIZE) % UINT = nread + PIPESIZE
      BY <1>1, <1>3, ModWithin
    <2> QED
      BY <1>1, <1>2, <1>3, <2>1 DEF Full, Empty
  <1>4. CASE nread + PIPESIZE >= UINT
    <2> DEFINE r == nread + PIPESIZE - UINT
    <2>1. r \in 0..(UINT - 1) /\ nread + PIPESIZE = UINT * 1 + r
      BY <1>1, <1>4
    <2>2. (UINT * 1 + r) % UINT = r
      BY <1>1, <2>1, ModUnique
    <2> QED
      BY <1>1, <1>2, <1>4, <2>1, <2>2 DEF Full, Empty
  <1> QED
    BY <1>1, <1>3, <1>4

-----------------------------------------------------------------------------
(* Type correctness *)

\* What p may do next.
Step(p) ==
    \/ \E n \in Counts : Read(p, n) \/ Write(p, n)
    \/ Inside(p) \/ CloseRead(p) \/ CloseWrite(p) \/ kill(p)

\* wakeup() moves sleepers, and nobody else.
LEMMA Woken ==
    ASSUME TypeOK
    PROVE  /\ WakeReaders \in [Proc -> Places] /\ WakeWriters \in [Proc -> Places]
           /\ \A p \in Proc :
                 /\ WakeReaders[p] = IF pc[p] = "rsleep" THEN "racquire" ELSE pc[p]
                 /\ WakeWriters[p] = IF pc[p] = "wsleep" THEN "wacquire" ELSE pc[p]
  BY DEF WakeReaders, WakeWriters, Wakeup, TypeOK, Places, Reading, Writing

\* The places of Pipe, one by one.
LEMMA AllPlaces ==
    /\ "idle" \in Places
    /\ "racquire" \in Places /\ "rwait" \in Places /\ "rsleepy" \in Places
    /\ "rsched" \in Places /\ "rsleep" \in Places /\ "read" \in Places
    /\ "wacquire" \in Places /\ "write" \in Places /\ "wsleepy" \in Places
    /\ "wsched" \in Places /\ "wsleep" \in Places
  BY DEF Places, Reading, Writing

\* A step of p moves p, wakes the sleepers of one kind, or does both.
LEMMA PcStep ==
    ASSUME TypeOK, NEW p \in Proc,
           \/ \E x \in Places : pc' = [pc EXCEPT ![p] = x]
           \/ \E x \in Places : pc' = [WakeReaders EXCEPT ![p] = x]
           \/ \E x \in Places : pc' = [WakeWriters EXCEPT ![p] = x]
           \/ pc' \in {pc, WakeReaders, WakeWriters}
    PROVE  pc' \in [Proc -> Places]
  <1>1. WakeReaders \in [Proc -> Places] /\ WakeWriters \in [Proc -> Places]
    BY Woken
  <1>2. pc \in [Proc -> Places]
    BY DEF TypeOK
  <1> QED
    BY <1>1, <1>2

\* Every step keeps the types.
LEMMA TypeStep ==
    ASSUME TypeOK, NEW p \in Proc, Step(p)
    PROVE  TypeOK'
  <1> USE PipeConstants DEF Step
  <1>1. pc' \in [Proc -> Places]
    <2>1. CASE \E n \in Counts : Read(p, n) \/ Write(p, n)
      BY <2>1, PcStep, AllPlaces DEF Read, Write
    <2>2. CASE acquire(p)
      BY <2>2, PcStep, AllPlaces DEF acquire
    <2>3. CASE sleep(p) \/ sched(p)
      BY <2>3, PcStep, AllPlaces DEF sleep, sched
    <2>4. CASE pipewrite(p)
      BY <2>4, PcStep, AllPlaces DEF pipewrite, Return
    <2>5. CASE pipeempty(p)
      BY <2>5, PcStep, AllPlaces DEF pipeempty, Return
    <2>6. CASE piperead(p)
      BY <2>6, PcStep, AllPlaces DEF piperead, Return
    <2>7. CASE CloseRead(p) \/ CloseWrite(p)
      BY <2>7, PcStep, AllPlaces DEF CloseRead, CloseWrite
    <2>8. CASE kill(p)
      BY <2>8, PcStep, AllPlaces DEF kill
    <2> QED
      BY <2>1, <2>2, <2>3, <2>4, <2>5, <2>6, <2>7, <2>8 DEF Inside
  <1>2. left' \in [Proc -> Nat]
    <2>1. left \in [Proc -> Nat] /\ (left[p] # 0 => left[p] - 1 \in Nat)
      BY DEF TypeOK
    <2>2. \/ UNCHANGED left
          \/ \E n \in Counts \cup {0, left[p] - 1} :
                n \in Nat /\ left' = [left EXCEPT ![p] = n]
      <3>1. CASE \E n \in Counts : Read(p, n) \/ Write(p, n)
        <4>1. PICK n \in Counts : left' = [left EXCEPT ![p] = n]
          BY <3>1 DEF Read, Write
        <4> QED
          BY <4>1
      <3>2. CASE pipewrite(p) \/ pipeempty(p) \/ piperead(p)
        BY <2>1, <3>2 DEF pipewrite, pipeempty, piperead, Return
      <3>3. CASE ~(\E n \in Counts : Read(p, n) \/ Write(p, n))
                   /\ ~(pipewrite(p) \/ pipeempty(p) \/ piperead(p))
        BY <3>3 DEF Inside, acquire, sleep, sched, CloseRead, CloseWrite, kill
      <3> QED
        BY <3>1, <3>2, <3>3
    <2> QED
      BY <2>1, <2>2
  <1>3. /\ locked' \in {NoProc} \cup {{q} : q \in Proc}
        /\ ptable' \in {NoProc} \cup {{q} : q \in Proc}
    <2>1. locked' \in {locked, NoProc, {p}} /\ ptable' \in {ptable, NoProc, {p}}
      BY DEF Read, Write, Inside, acquire, sleep, sched, pipewrite, pipeempty,
             piperead, Return, CloseRead, CloseWrite, kill
    <2> QED
      BY <2>1 DEF TypeOK
  <1>4. data' \in [0..(PIPESIZE - 1) -> Byte \cup {NoByte}] /\ nwrite' \in 0..(UINT - 1)
    <2>1. CASE pipewrite(p)
      <3>1. (nwrite + 1) % UINT \in 0..(UINT - 1)
        BY Successor DEF TypeOK
      <3>2. \/ UNCHANGED <<data, nwrite>>
            \/ /\ \E b \in Byte : data' = [data EXCEPT ![nwrite % PIPESIZE] = b]
               /\ nwrite' = (nwrite + 1) % UINT
        BY <2>1 DEF pipewrite, pipeVars
      <3> QED
        BY <3>1, <3>2 DEF TypeOK
    <2>2. CASE ~pipewrite(p)
      <3>1. UNCHANGED <<data, nwrite>>
        BY <2>2 DEF Read, Write, Inside, acquire, sleep, sched, pipeempty, piperead,
                    CloseRead, CloseWrite, kill, pipeVars
      <3> QED
        BY <3>1 DEF TypeOK
    <2> QED
      BY <2>1, <2>2
  <1>5. nread' \in 0..(UINT - 1) /\ addr' \in Byte \cup {NoByte}
    <2>1. CASE piperead(p)
      <3>1. (nread + 1) % UINT \in 0..(UINT - 1)
        BY Successor DEF TypeOK
      <3>2. nread % PIPESIZE \in 0..(PIPESIZE - 1)
        BY DivMod DEF TypeOK
      <3>3. \/ UNCHANGED <<nread, addr>>
            \/ addr' = data[nread % PIPESIZE] /\ nread' = (nread + 1) % UINT
        BY <2>1 DEF piperead
      <3> QED
        BY <3>1, <3>2, <3>3 DEF TypeOK
    <2>2. CASE ~piperead(p)
      <3>1. UNCHANGED <<nread, addr>>
        BY <2>2 DEF Read, Write, Inside, acquire, sleep, sched, pipeempty, pipewrite,
                    CloseRead, CloseWrite, kill, pipeVars
      <3> QED
        BY <3>1 DEF TypeOK
    <2> QED
      BY <2>1, <2>2
  <1>6. /\ readopen' \in BOOLEAN /\ writeopen' \in BOOLEAN /\ freed' \in Nat
        /\ rfile' \subseteq Proc /\ wfile' \subseteq Proc
    <2>1. /\ UNCHANGED readopen \/ readopen' = FALSE
          /\ UNCHANGED writeopen \/ writeopen' = FALSE
          /\ freed' \in {freed, freed + 1}
          /\ rfile' \in {rfile, rfile \ {p}} /\ wfile' \in {wfile, wfile \ {p}}
      BY DEF Read, Write, Inside, acquire, sleep, sched, pipewrite, pipeempty,
             piperead, CloseRead, CloseWrite, kfree, kill, pipeVars, fileVars
    <2>2. readopen' \in BOOLEAN /\ writeopen' \in BOOLEAN
      BY <2>1, Zenon DEF TypeOK
    <2>3. freed' \in Nat
      BY <2>1 DEF TypeOK
    <2>4. rfile' \subseteq Proc /\ wfile' \subseteq Proc
      BY <2>1, Zenon DEF TypeOK
    <2> QED
      BY <2>2, <2>3, <2>4
  <1>7. killed' \in [Proc -> BOOLEAN]
    BY DEF TypeOK, Read, Write, Inside, acquire, sleep, sched, pipewrite, pipeempty,
           piperead, CloseRead, CloseWrite, kill
  <1> QED
    BY <1>1, <1>2, <1>3, <1>4, <1>5, <1>6, <1>7 DEF TypeOK

-----------------------------------------------------------------------------
(* Mutual exclusion *)

HasLock == {"rwait", "rsleepy", "read", "write", "wsleepy"}
HasPtable == {"rsched", "wsched"}

\* Both locks have one holder at most, whom its place tells.
LEMMA OneHolder ==
    ASSUME TypeOK, Mutex, NEW p \in Proc
    PROVE  /\ pc[p] \in HasLock => locked = {p} /\ \A q \in Proc \ {p} : pc[q] \notin HasLock
           /\ pc[p] \in HasPtable => ptable = {p} /\ \A q \in Proc \ {p} : pc[q] \notin HasPtable
           /\ Free => pc[p] \notin HasLock
           /\ Unlocked => pc[p] \notin HasPtable
  <1>1. /\ \A q \in Proc : q \in locked <=> pc[q] \in HasLock
        /\ \A q \in Proc : q \in ptable <=> pc[q] \in HasPtable
    BY DEF Mutex, HasLock, HasPtable
  <1>2. /\ locked = {} \/ \E q \in Proc : locked = {q}
        /\ ptable = {} \/ \E q \in Proc : ptable = {q}
    BY DEF TypeOK, NoProc
  <1> QED
    BY <1>1, <1>2, Zenon DEF Free, Unlocked, NoProc

\* A step of p changes the place of another process only by waking it.
LEMMA Others ==
    ASSUME TypeOK, NEW p \in Proc, Step(p), NEW q \in Proc, q # p
    PROVE  \/ pc'[q] = pc[q]
           \/ pc[q] = "rsleep" /\ pc'[q] = "racquire"
           \/ pc[q] = "wsleep" /\ pc'[q] = "wacquire"
  <1> DEFINE Moved(f) == \/ f[q] = pc[q]
                         \/ pc[q] = "rsleep" /\ f[q] = "racquire"
                         \/ pc[q] = "wsleep" /\ f[q] = "wacquire"
  <1>1. Moved(WakeReaders) /\ Moved(WakeWriters) /\ Moved(pc)
    BY Woken
  <1>2. /\ WakeReaders \in [Proc -> Places] /\ WakeWriters \in [Proc -> Places]
        /\ pc \in [Proc -> Places]
    BY Woken DEF TypeOK
  <1>3. ASSUME NEW f \in [Proc -> Places], NEW x, Moved(f)
        PROVE  Moved([f EXCEPT ![p] = x])
    <2>1. [f EXCEPT ![p] = x][q] = f[q]
      OBVIOUS
    <2> QED
      BY <1>3, <2>1
  <1> HIDE DEF Moved
  <1>4. Moved(pc')
    <2>1. CASE \E n \in Counts : Read(p, n) \/ Write(p, n)
      BY <1>1, <1>2, <1>3, <2>1 DEF Read, Write
    <2>2. CASE acquire(p) \/ sleep(p) \/ sched(p)
      BY <1>1, <1>2, <1>3, <2>2 DEF acquire, sleep, sched
    <2>3. CASE pipewrite(p)
      BY <1>1, <1>2, <1>3, <2>3 DEF pipewrite, Return
    <2>4. CASE pipeempty(p)
      BY <1>1, <1>2, <1>3, <2>4 DEF pipeempty, Return
    <2>5. CASE piperead(p)
      BY <1>1, <1>2, <1>3, <2>5 DEF piperead, Return
    <2>6. CASE CloseRead(p) \/ CloseWrite(p)
      BY <1>1, <1>2, <1>3, <2>6 DEF CloseRead, CloseWrite
    <2>7. CASE kill(p)
      BY <1>1, <1>2, <1>3, <2>7 DEF kill
    <2> QED
      BY <2>1, <2>2, <2>3, <2>4, <2>5, <2>6, <2>7 DEF Step, Inside
  <1> QED
    BY <1>4 DEF Moved

\* The locks follow the place of p, and nobody else's changes.
LEMMA MutexStep ==
    ASSUME TypeOK, Mutex, NEW p \in Proc, Step(p)
    PROVE  Mutex'
  <1>1. ASSUME NEW q \in Proc, q # p
        PROVE  /\ q \in locked' <=> pc'[q] \in HasLock
               /\ q \in ptable' <=> pc'[q] \in HasPtable
    <2>1. /\ pc'[q] \in HasLock <=> pc[q] \in HasLock
          /\ pc'[q] \in HasPtable <=> pc[q] \in HasPtable
      BY <1>1, Others DEF HasLock, HasPtable
    <2>2. \/ UNCHANGED locked
          \/ locked = {} /\ locked' = {p}
          \/ pc[p] \in HasLock /\ locked' = {}
      BY DEF Step, Read, Write, Inside, acquire, sleep, sched, pipewrite, pipeempty,
             piperead, Return, CloseRead, CloseWrite, kill, Free, NoProc, HasLock
    <2>3. \/ UNCHANGED ptable
          \/ ptable = {} /\ ptable' = {p}
          \/ pc[p] \in HasPtable /\ ptable' = {}
      BY DEF Step, Read, Write, Inside, acquire, sleep, sched, pipewrite, pipeempty,
             piperead, CloseRead, CloseWrite, kill, Unlocked, NoProc, HasPtable
    <2>4. /\ q \in locked <=> pc[q] \in HasLock
          /\ q \in ptable <=> pc[q] \in HasPtable
      BY DEF Mutex, HasLock, HasPtable
    <2>5. /\ pc[p] \in HasLock => locked = {p}
          /\ pc[p] \in HasPtable => ptable = {p}
      BY OneHolder
    <2> QED
      BY <1>1, <2>1, <2>2, <2>3, <2>4, <2>5
  <1>2. /\ p \in locked' <=> pc'[p] \in HasLock
        /\ p \in ptable' <=> pc'[p] \in HasPtable
    <2>0. /\ p \in locked <=> pc[p] \in HasLock
          /\ p \in ptable <=> pc[p] \in HasPtable
          /\ pc[p] \in HasLock => locked = {p}
          /\ pc[p] \in HasPtable => ptable = {p}
      BY OneHolder DEF Mutex, HasLock, HasPtable
    <2>1. /\ pc \in [Proc -> Places]
          /\ WakeReaders \in [Proc -> Places] /\ WakeWriters \in [Proc -> Places]
          /\ pc[p] \notin {"rsleep", "wsleep"} =>
                WakeReaders[p] = pc[p] /\ WakeWriters[p] = pc[p]
      BY Woken DEF TypeOK
    <2> USE DEF HasLock, HasPtable
    <2>2. CASE \E n \in Counts : Read(p, n) \/ Write(p, n)
      BY <2>0, <2>1, <2>2 DEF Read, Write
    <2>3. CASE acquire(p)
      BY <2>0, <2>1, <2>3 DEF acquire
    <2>4. CASE sleep(p)
      BY <2>0, <2>1, <2>4 DEF sleep, NoProc
    <2>5. CASE sched(p)
      BY <2>0, <2>1, <2>5 DEF sched, NoProc
    <2>6. CASE pipewrite(p)
      BY <2>0, <2>1, <2>6 DEF pipewrite, Return, NoProc
    <2>7. CASE pipeempty(p)
      BY <2>0, <2>1, <2>7 DEF pipeempty, Return, NoProc
    <2>8. CASE piperead(p)
      BY <2>0, <2>1, <2>8 DEF piperead, Return, NoProc
    <2>9. CASE CloseRead(p) \/ CloseWrite(p)
      BY <2>0, <2>1, <2>9 DEF CloseRead, CloseWrite
    <2>10. CASE kill(p)
      BY <2>0, <2>1, <2>10 DEF kill
    <2> QED
      BY <2>2, <2>3, <2>4, <2>5, <2>6, <2>7, <2>8, <2>9, <2>10 DEF Step, Inside
  <1> QED
    BY <1>1, <1>2 DEF Mutex, HasLock, HasPtable

-----------------------------------------------------------------------------
(* The ends *)

\* A call keeps the end it uses, and the last close of an end closes it.
LEMMA EndsStep ==
    ASSUME TypeOK, Ends, NEW p \in Proc, Step(p)
    PROVE  Ends'
  <1>1. ASSUME NEW q \in Proc, q # p
        PROVE  /\ pc'[q] \in Reading => pc[q] \in Reading
               /\ pc'[q] \in Writing => pc[q] \in Writing
    BY <1>1, Others DEF Reading, Writing
  <1>2. CASE CloseRead(p) \/ CloseWrite(p)
    <2>1. pc[p] = "idle" /\ pc'[p] = "idle"
      <3>1. WakeReaders[p] = "idle" /\ WakeWriters[p] = "idle" /\ pc[p] = "idle"
        BY <1>2, Woken DEF CloseRead, CloseWrite
      <3> QED
        BY <1>2, <3>1 DEF CloseRead, CloseWrite
    <2>2. \A q \in Proc : /\ pc'[q] \in Reading => q \in rfile'
                          /\ pc'[q] \in Writing => q \in wfile'
      <3>1. ASSUME NEW q \in Proc
            PROVE  /\ pc'[q] \in Reading => q \in rfile'
                   /\ pc'[q] \in Writing => q \in wfile'
        <4>1. CASE q = p
          BY <2>1, <4>1 DEF Reading, Writing
        <4>2. CASE q # p
          BY <1>1, <1>2, <4>2 DEF Ends, CloseRead, CloseWrite
        <4> QED
          BY <4>1, <4>2
      <3> QED
        BY <3>1
    <2>3. CASE CloseRead(p)
      <3>1. rfile # {} /\ freed = 0 /\ UNCHANGED <<writeopen, wfile>>
        BY <2>3 DEF CloseRead, Ends
      <3>2. readopen' <=> rfile' # {}
        BY <2>3, <3>1 DEF CloseRead, Ends
      <3>3. freed' = IF rfile' = {} /\ wfile' = {} THEN 1 ELSE 0
        BY <2>3, <3>1 DEF CloseRead, Ends, kfree
      <3> QED
        BY <2>2, <3>1, <3>2, <3>3 DEF Ends
    <2>4. CASE CloseWrite(p)
      <3>1. wfile # {} /\ freed = 0 /\ UNCHANGED <<readopen, rfile>>
        BY <2>4 DEF CloseWrite, Ends
      <3>2. writeopen' <=> wfile' # {}
        BY <2>4, <3>1 DEF CloseWrite, Ends
      <3>3. freed' = IF rfile' = {} /\ wfile' = {} THEN 1 ELSE 0
        BY <2>4, <3>1 DEF CloseWrite, Ends, kfree
      <3> QED
        BY <2>2, <3>1, <3>2, <3>3 DEF Ends
    <2> QED
      BY <1>2, <2>3, <2>4
  <1>3. CASE ~(CloseRead(p) \/ CloseWrite(p))
    <2>1. UNCHANGED <<readopen, writeopen, freed, rfile, wfile>>
      BY <1>3 DEF Step, Read, Write, Inside, acquire, sleep, sched, pipewrite,
                  pipeempty, piperead, kill, pipeVars, fileVars
    <2>2. /\ pc'[p] \in Reading => pc[p] \in Reading \/ p \in rfile
          /\ pc'[p] \in Writing => pc[p] \in Writing \/ p \in wfile
      <3>0. pc \in [Proc -> Places]
            /\ WakeReaders \in [Proc -> Places] /\ WakeWriters \in [Proc -> Places]
        BY Woken DEF TypeOK
      <3> USE <3>0 DEF Reading, Writing
      <3>1. CASE \E n \in Counts : Read(p, n) \/ Write(p, n)
        BY <3>1 DEF Read, Write
      <3>2. CASE acquire(p)
        BY <3>2 DEF acquire
      <3>3. CASE sleep(p) \/ sched(p)
        BY <3>3 DEF sleep, sched
      <3>4. CASE pipewrite(p)
        BY <3>4 DEF pipewrite, Return
      <3>5. CASE pipeempty(p)
        BY <3>5 DEF pipeempty, Return
      <3>6. CASE piperead(p)
        BY <3>6 DEF piperead, Return
      <3>7. CASE kill(p)
        BY <3>7 DEF kill
      <3> QED
        BY <1>3, <3>1, <3>2, <3>3, <3>4, <3>5, <3>6, <3>7 DEF Step, Inside
    <2> QED
      BY <1>1, <2>1, <2>2 DEF Ends
  <1> QED
    BY <1>2, <1>3

-----------------------------------------------------------------------------
(* Sleepers *)

\* What keeps a process asleep is not undone by a step of another one that
\* leaves the pipe alone and does not stop reading or writing.
LEMMA Undisturbed ==
    ASSUME TypeOK, Sleepers, NEW p \in Proc, Step(p), NEW q \in Proc, q # p,
           UNCHANGED <<nread, nwrite, readopen, writeopen>>,
           \A w \in Proc : killed[w] => killed'[w],
           pc[p] \in {"read", "write"} => pc'[p] = pc[p]
    PROVE  Waits(q)'
  <1>1. \A w \in Proc : /\ pc[w] = "read" => pc'[w] = "read"
                        /\ pc[w] = "write" => pc'[w] = "write"
    BY Others
  <1>2. pc'[q] = pc[q] \/ pc'[q] \in {"racquire", "wacquire"}
    BY Others
  <1>3. (Full' <=> Full) /\ (Empty' <=> Empty)
    BY DEF Full, Empty
  <1>4. Waits(q)
    BY DEF Sleepers
  <1> QED
    BY <1>1, <1>2, <1>3, <1>4 DEF Waits

\* A process that is neither asleep nor about to be waits for nothing.
LEMMA NotWaiting ==
    ASSUME NEW p \in Proc,
           pc'[p] \notin {"wsleepy", "wsched", "wsleep", "rsleepy", "rsched", "rsleep"}
    PROVE  Waits(p)'
  BY DEF Waits

\* A step that ends what a process sleeps for wakes it, whoever takes it: the
\* wakeup() calls of pipe.c are enough, and sleep() misses none of them.
LEMMA SleepersStep ==
    ASSUME TypeOK, Mutex, Ends, Sleepers, NEW p \in Proc, Step(p)
    PROVE  Sleepers'
  <1>0. /\ pc \in [Proc -> Places] /\ killed \in [Proc -> BOOLEAN]
        /\ WakeReaders \in [Proc -> Places] /\ WakeWriters \in [Proc -> Places]
        /\ \A q \in Proc :
              /\ WakeReaders[q] = IF pc[q] = "rsleep" THEN "racquire" ELSE pc[q]
              /\ WakeWriters[q] = IF pc[q] = "wsleep" THEN "wacquire" ELSE pc[q]
    BY Woken DEF TypeOK
  <1>1. CASE \/ \E n \in Counts : Read(p, n) \/ Write(p, n)
             \/ acquire(p) \/ sleep(p) \/ sched(p) \/ pipeempty(p) \/ kill(p)
    <2>1. UNCHANGED <<nread, nwrite, readopen, writeopen>>
      BY <1>1 DEF Read, Write, acquire, sleep, sched, pipeempty, kill, pipeVars
    <2>2. \A w \in Proc : killed[w] => killed'[w]
      BY <1>0, <1>1 DEF Read, Write, acquire, sleep, sched, pipeempty, kill
    <2>3. pc[p] \in {"read", "write"} => pc'[p] = pc[p]
      BY <1>1 DEF Read, Write, acquire, sleep, sched, pipeempty, kill
    <2>4. \A q \in Proc \ {p} : Waits(q)'
      BY <2>1, <2>2, <2>3, Undisturbed
    <2>5. (Full' <=> Full) /\ (Empty' <=> Empty) /\ Waits(p)
      BY <2>1 DEF Full, Empty, Sleepers
    <2>6. Waits(p)'
      <3>1. CASE \/ \E n \in Counts : Read(p, n) \/ Write(p, n)
                 \/ acquire(p)
        <4>1. pc'[p] \in {"racquire", "wacquire", "rwait", "write"}
          BY <1>0, <3>1 DEF Read, Write, acquire
        <4> QED
          BY <4>1, NotWaiting
      <3>2. CASE sleep(p)
        BY <1>0, <2>1, <2>5, <3>2 DEF sleep, Waits
      <3>3. CASE sched(p)
        <4>1. \/ pc[p] = "rsched" /\ pc'[p] = "rsleep"
              \/ pc[p] = "wsched" /\ pc'[p] = "wsleep"
          BY <1>0, <3>3 DEF sched
        <4>2. \A w \in Proc : /\ pc[w] = "read" => pc'[w] = "read"
                              /\ pc[w] = "write" => pc'[w] = "write"
          BY <1>0, <3>3 DEF sched
        <4> QED
          BY <2>1, <2>2, <2>5, <4>1, <4>2 DEF Waits
      <3>4. CASE pipeempty(p)
        <4>1. \/ pc'[p] \in {"read", "idle"}
              \/ pc'[p] = "rsleepy" /\ Empty /\ writeopen
          BY <1>0, <3>4 DEF pipeempty, Return
        <4> QED
          BY <2>1, <2>5, <4>1 DEF Waits
      <3>5. CASE kill(p)
        <4>1. /\ pc'[p] = pc[p] \/ pc'[p] \in {"racquire", "wacquire"}
              /\ \A w \in Proc : /\ pc[w] = "read" => pc'[w] = "read"
                                 /\ pc[w] = "write" => pc'[w] = "write"
          BY <1>0, <3>5 DEF kill
        <4> QED
          BY <2>1, <2>2, <2>5, <4>1 DEF Waits
      <3> QED
        BY <1>1, <3>1, <3>2, <3>3, <3>4, <3>5
    <2> QED
      BY <2>4, <2>6 DEF Sleepers
  <1>2. CASE pipewrite(p)
    <2>0. /\ pc[p] = "write" /\ UNCHANGED <<readopen, writeopen, nread, killed>>
          /\ \A q \in Proc \ {p} : pc[q] \notin HasLock
      BY <1>2, OneHolder DEF pipewrite, Return, pipeVars, HasLock
    <2>1. \A q \in Proc \ {p} :
             /\ pc[q] # "read" /\ pc[q] # "wsleepy" /\ pc[q] # "rsleepy"
             /\ pc[q] \in {"wsched", "wsleep"} => Full /\ readopen
             /\ pc[q] \in {"rsched", "rsleep"} => writeopen
      BY <2>0 DEF HasLock, Sleepers, Waits
    <2>2. CASE left[p] # 0 /\ ~Full
      <3>1. UNCHANGED pc
        BY <1>2, <2>2 DEF pipewrite
      <3>2. \A q \in Proc \ {p} : pc'[q] \notin {"wsched", "wsleep", "wsleepy", "rsleepy"}
        BY <2>1, <2>2, <3>1
      <3> QED
        BY <2>0, <2>1, <3>1, <3>2 DEF Sleepers, Waits
    <2>3. CASE left[p] = 0 \/ (Full /\ readopen /\ ~killed[p])
      <3>1. /\ UNCHANGED nwrite /\ Unlocked
            /\ \/ pc' = [WakeReaders EXCEPT ![p] = "idle"]
               \/ pc' = [WakeReaders EXCEPT ![p] = "wsleepy"] /\ Full /\ readopen
        BY <1>2, <2>3 DEF pipewrite, Return, pipeVars
      <3>2. \A q \in Proc : pc[q] # "rsched"
        BY <3>1, OneHolder DEF HasPtable
      <3>3. \A q \in Proc \ {p} :
               /\ pc'[q] \notin {"rsched", "rsleep", "rsleepy", "wsleepy"}
               /\ pc'[q] \in {"wsched", "wsleep"} => pc'[q] = pc[q]
        BY <1>0, <2>1, <3>1, <3>2
      <3>4. pc'[p] = "idle" \/ (pc'[p] = "wsleepy" /\ Full /\ readopen)
        BY <1>0, <3>1
      <3>5. Full' <=> Full
        BY <2>0, <3>1 DEF Full
      <3> QED
        BY <2>0, <2>1, <3>3, <3>4, <3>5 DEF Sleepers, Waits
    <2>4. CASE left[p] # 0 /\ Full /\ (~readopen \/ killed[p])
      <3>1. UNCHANGED nwrite /\ pc' = [pc EXCEPT ![p] = "idle"]
        BY <1>2, <2>4 DEF pipewrite, Return, pipeVars
      <3>2. pc'[p] = "idle" /\ \A q \in Proc \ {p} : pc'[q] = pc[q]
        BY <1>0, <3>1
      <3>3. Full'
        BY <2>0, <2>4, <3>1 DEF Full
      <3>4. ASSUME NEW q \in Proc, pc[q] \in {"rsched", "rsleep"}
            PROVE  killed'[p]
        BY <2>0, <2>4, <3>4 DEF Ends, Reading
      <3> QED
        BY <2>0, <2>1, <3>2, <3>3, <3>4 DEF Sleepers, Waits
    <2> QED
      BY <2>2, <2>3, <2>4
  <1>3. CASE piperead(p)
    <2>0. /\ pc[p] = "read" /\ UNCHANGED <<readopen, writeopen, nwrite, killed>>
          /\ \A q \in Proc \ {p} : pc[q] \notin HasLock
      BY <1>3, OneHolder DEF piperead, HasLock
    <2>1. \A q \in Proc \ {p} :
             /\ pc[q] # "write" /\ pc[q] # "wsleepy" /\ pc[q] # "rsleepy"
             /\ pc[q] \in {"wsched", "wsleep"} => readopen
             /\ pc[q] \in {"rsched", "rsleep"} =>
                   writeopen /\ (Empty \/ \E w \in Proc : killed[w])
      BY <2>0 DEF HasLock, Sleepers, Waits
    <2>2. CASE left[p] = 0 \/ Empty
      <3>1. UNCHANGED nread /\ Unlocked /\ pc' = [WakeWriters EXCEPT ![p] = "idle"]
        BY <1>3, <2>2 DEF piperead, Return
      <3>2. \A q \in Proc : pc[q] # "wsched"
        BY <3>1, OneHolder DEF HasPtable
      <3>3. /\ pc'[p] = "idle"
            /\ \A q \in Proc \ {p} :
                  /\ pc'[q] \notin {"wsched", "wsleep", "wsleepy", "rsleepy"}
                  /\ pc'[q] \in {"rsched", "rsleep"} => pc'[q] = pc[q]
        BY <1>0, <2>1, <3>1, <3>2
      <3>4. Empty' <=> Empty
        BY <2>0, <3>1 DEF Empty
      <3> QED
        BY <2>0, <2>1, <3>3, <3>4 DEF Sleepers, Waits
    <2>3. CASE ~(left[p] = 0 \/ Empty)
      <3>1. UNCHANGED pc
        BY <1>3, <2>3 DEF piperead
      <3> QED
        BY <2>0, <2>1, <2>3, <3>1 DEF Sleepers, Waits
    <2> QED
      BY <2>2, <2>3
  <1>4. CASE (CloseRead(p) /\ rfile' # {}) \/ (CloseWrite(p) /\ wfile' # {})
    <2>1. UNCHANGED <<nread, nwrite, readopen, writeopen, killed, pc>>
      BY <1>4 DEF CloseRead, CloseWrite
    <2> QED
      BY <2>1 DEF Sleepers, Waits, Full, Empty
  <1>5. CASE CloseRead(p) /\ rfile' = {}
    <2>1. /\ UNCHANGED <<nread, nwrite, writeopen, killed>> /\ pc' = WakeWriters
          /\ Free /\ Unlocked
      BY <1>5 DEF CloseRead
    <2>2. \A q \in Proc : pc[q] \notin HasLock /\ pc[q] \notin HasPtable
      BY <2>1, OneHolder
    <2>3. \A q \in Proc : /\ pc'[q] \notin {"wsleepy", "wsched", "wsleep", "rsleepy"}
                          /\ pc'[q] \in {"rsched", "rsleep"} => pc'[q] = pc[q]
      BY <1>0, <2>1, <2>2 DEF HasLock, HasPtable
    <2> QED
      BY <2>1, <2>2, <2>3 DEF Sleepers, Waits, Empty, HasLock
  <1>6. CASE CloseWrite(p) /\ wfile' = {}
    <2>1. /\ UNCHANGED <<nread, nwrite, readopen, killed>> /\ pc' = WakeReaders
          /\ Free /\ Unlocked
      BY <1>6 DEF CloseWrite
    <2>2. \A q \in Proc : pc[q] \notin HasLock /\ pc[q] \notin HasPtable
      BY <2>1, OneHolder
    <2>3. \A q \in Proc : /\ pc'[q] \notin {"rsleepy", "rsched", "rsleep", "wsleepy"}
                          /\ pc'[q] \in {"wsched", "wsleep"} => pc'[q] = pc[q]
      BY <1>0, <2>1, <2>2 DEF HasLock, HasPtable
    <2> QED
      BY <2>1, <2>2, <2>3 DEF Sleepers, Waits, Full, HasLock
  <1> QED
    BY <1>1, <1>2, <1>3, <1>4, <1>5, <1>6 DEF Step, Inside

-----------------------------------------------------------------------------
(* The invariant *)

\* The counters move one at a time: one byte in below PIPESIZE, or one byte out.
LEMMA SpaceStep ==
    ASSUME TypeOK, InPipe <= PIPESIZE, NEW p \in Proc, Step(p)
    PROVE  \/ UNCHANGED <<data, nread, nwrite, addr>>
           \/ /\ InPipe < PIPESIZE /\ InPipe' = InPipe + 1
              /\ nwrite' = (nwrite + 1) % UINT /\ UNCHANGED <<nread, addr>>
              /\ \E b \in Byte : data' = [data EXCEPT ![nwrite % PIPESIZE] = b]
           \/ /\ InPipe > 0 /\ InPipe' = InPipe - 1
              /\ nread' = (nread + 1) % UINT /\ UNCHANGED <<nwrite, data>>
              /\ addr' = data[nread % PIPESIZE]
  <1> USE PipeConstants
  <1>0. nread \in 0..(UINT - 1) /\ nwrite \in 0..(UINT - 1) /\ UINT \in Nat \ {0}
    BY DEF TypeOK
  <1>1. CASE pipewrite(p) /\ left[p] # 0 /\ ~Full
    <2>1. /\ nwrite' = (nwrite + 1) % UINT /\ UNCHANGED <<nread, addr>>
          /\ \E b \in Byte : data' = [data EXCEPT ![nwrite % PIPESIZE] = b]
      BY <1>1 DEF pipewrite
    <2>2. InPipe < PIPESIZE
      BY <1>1, Distances
    <2>3. (nwrite - nread) % UINT < UINT - 1
      BY <2>2, Distances DEF InPipe
    <2>4. InPipe' = InPipe + 1
      BY <1>0, <2>1, <2>3, AheadByOne DEF InPipe
    <2> QED
      BY <2>1, <2>2, <2>4
  <1>2. CASE piperead(p) /\ left[p] # 0 /\ ~Empty
    <2>1. /\ nread' = (nread + 1) % UINT /\ UNCHANGED <<nwrite, data>>
          /\ addr' = data[nread % PIPESIZE]
      BY <1>2 DEF piperead
    <2>2. InPipe > 0
      BY <1>2, Distances
    <2>3. InPipe' = InPipe - 1
      BY <1>0, <1>2, <2>1, BehindByOne DEF InPipe, Empty
    <2> QED
      BY <2>1, <2>2, <2>3
  <1>3. CASE /\ ~(pipewrite(p) /\ left[p] # 0 /\ ~Full)
             /\ ~(piperead(p) /\ left[p] # 0 /\ ~Empty)
    BY <1>3 DEF Step, Read, Write, Inside, acquire, sleep, sched, pipewrite,
                pipeempty, piperead, CloseRead, CloseWrite, kill, pipeVars
  <1> QED
    BY <1>1, <1>2, <1>3

\* A new pipe satisfies the invariant.
LEMMA PipeInvInit == Init => PipeInv
  <1> SUFFICES ASSUME Init PROVE PipeInv
    OBVIOUS
  <1> USE PipeConstants DEF Init
  <1>1. TypeOK
    BY AllPlaces DEF TypeOK
  <1>2. Mutex /\ Ends /\ Sleepers
    BY DEF Mutex, Ends, Sleepers, Waits, Reading, Writing, NoProc
  <1>3. InPipe = 0
    BY <1>1, Distances DEF Empty
  <1> QED
    BY <1>1, <1>2, <1>3 DEF PipeInv

\* Every step of every process keeps it.
LEMMA PipeInvStep == PipeInv /\ [Next]_vars => PipeInv'
  <1> SUFFICES ASSUME PipeInv, [Next]_vars
               PROVE  PipeInv'
    OBVIOUS
  <1>1. ASSUME NEW p \in Proc, Step(p)
        PROVE  PipeInv'
    <2>1. TypeOK /\ Mutex /\ Ends /\ Sleepers /\ InPipe <= PIPESIZE
      BY DEF PipeInv
    <2>2. TypeOK' /\ Mutex' /\ Ends' /\ Sleepers'
      BY <1>1, <2>1, TypeStep, MutexStep, EndsStep, SleepersStep
    <2>3. InPipe' <= PIPESIZE
      <3>1. InPipe \in Int /\ PIPESIZE \in Int
        BY <2>1, Distances, PipeConstants
      <3>2. InPipe' \in {InPipe, InPipe - 1} \/ (InPipe < PIPESIZE /\ InPipe' = InPipe + 1)
        BY <1>1, <2>1, SpaceStep DEF InPipe
      <3> QED
        BY <2>1, <3>1, <3>2
    <2> QED
      BY <2>2, <2>3 DEF PipeInv
  <1>2. CASE UNCHANGED vars
    BY <1>2 DEF vars, pipeVars, fileVars, PipeInv, TypeOK, Mutex, Ends, Sleepers,
                Waits, Full, Empty, InPipe
  <1> QED
    BY <1>1, <1>2 DEF Next, Step

\* Every reachable state of a pipe satisfies the invariant.
THEOREM PipeInvariance == Spec => []PipeInv
  BY PipeInvInit, PipeInvStep, PTL DEF Spec

\* pipeclose() frees the pipe once, after the last close of either end, and no
\* call that is in progress can touch it then (pipe.c:69).
THEOREM PipeFreedOnce == Spec => []FreedOnce
  <1>1. PipeInv => FreedOnce
    <2> SUFFICES ASSUME PipeInv PROVE FreedOnce
      OBVIOUS
    <2>1. TypeOK /\ Ends /\ Mutex
      BY DEF PipeInv
    <2>2. freed <= 1 /\ (freed = 1 <=> rfile = {} /\ wfile = {})
      BY <2>1 DEF Ends
    <2>3. ASSUME freed = 1
          PROVE  Free /\ \A p \in Proc : pc[p] = "idle"
      <3>1. \A p \in Proc : pc[p] \in Places /\ pc[p] \notin Reading /\ pc[p] \notin Writing
        BY <2>1, <2>2, <2>3 DEF Ends, TypeOK
      <3>2. \A p \in Proc : pc[p] = "idle"
        BY <3>1 DEF Places
      <3>3. \A p \in Proc : p \notin locked
        BY <2>1, <3>2 DEF Mutex
      <3>4. locked = {} \/ \E p \in Proc : locked = {p}
        BY <2>1 DEF TypeOK, NoProc
      <3> QED
        BY <3>2, <3>3, <3>4 DEF Free, NoProc
    <2> QED
      BY <2>1, <2>2, <2>3 DEF FreedOnce
  <1> QED
    BY <1>1, PipeInvariance, PTL

\* Nobody sleeps on a pipe they could use, unless somebody was killed while
\* writing (pipe.c:86).
THEOREM PipeWakeups == Spec => []NoMissedWakeup
  <1>1. PipeInv => NoMissedWakeup
    <2> SUFFICES ASSUME PipeInv, Free, NEW p \in Proc
                 PROVE  /\ pc[p] = "wsleep" => Full /\ readopen
                        /\ pc[p] = "rsleep" => writeopen
                        /\ pc[p] = "rsleep" /\ (\A q \in Proc : ~killed[q]) => Empty
      BY DEF NoMissedWakeup
    <2>1. Waits(p) /\ TypeOK /\ Mutex
      BY DEF PipeInv, Sleepers
    <2>2. \A q \in Proc : pc[q] # "read" /\ pc[q] # "write"
      BY <2>1, OneHolder DEF HasLock
    <2> QED
      BY <2>1, <2>2 DEF Waits
  <1> QED
    BY <1>1, PipeInvariance, PTL

-----------------------------------------------------------------------------
(* The pipe is a queue *)

\* The part of a ring that starts at r is a sequence.
Part(d, r, n) == [i \in 1..n |-> d[(r + i - 1) % PIPESIZE]]

\* It has n elements, found modulo PIPESIZE.
LEMMA PartIsSeq ==
    ASSUME NEW S, NEW d \in [0..(PIPESIZE - 1) -> S], NEW r \in Int, NEW n \in Nat
    PROVE  /\ Part(d, r, n) \in Seq(S) /\ Len(Part(d, r, n)) = n
           /\ \A i \in 1..n : Part(d, r, n)[i] = d[(r + i - 1) % PIPESIZE]
  <1> USE PipeConstants
  <1>1. \A i \in 1..n : (r + i - 1) % PIPESIZE \in 0..(PIPESIZE - 1)
    BY DivMod
  <1>2. Part(d, r, n) \in [1..n -> S]
    BY <1>1 DEF Part
  <1>3. Part(d, r, n) \in Seq(S)
    BY <1>2, SeqIs
  <1>4. Len(Part(d, r, n)) = n
    <2>1. DOMAIN Part(d, r, n) = 1..n
      BY <1>2
    <2>2. Len(Part(d, r, n)) \in Nat /\ DOMAIN Part(d, r, n) = 1..Len(Part(d, r, n))
      BY <1>3, LenIs
    <2> QED
      BY <2>1, <2>2
  <1> QED
    BY <1>3, <1>4 DEF Part

\* A turn of a counter is a number of turns of the buffer.
LEMMA TurnIsWhole ==
    ASSUME NEW k \in Int
    PROVE  (UINT + k) % PIPESIZE = k % PIPESIZE
  <1>1. PIPESIZE \in Nat \ {0} /\ UINT \in Int /\ UINT % PIPESIZE = 0
    BY PipeConstants
  <1> QED
    BY <1>1, ModShift, Zenon

\* A counter that wraps is as good an index as one that does not, since
\* PIPESIZE divides UINT.
LEMMA SameIndex ==
    ASSUME NEW x \in 0..(UINT - 1), NEW k \in Int
    PROVE  (((x + 1) % UINT) + k) % PIPESIZE = (x + 1 + k) % PIPESIZE
  <1> USE PipeConstants
  <1>0. UINT \in Nat \ {0} /\ (x + 1) % UINT = IF x + 1 = UINT THEN 0 ELSE x + 1
    BY Successor
  <1>1. CASE x + 1 = UINT
    <2>1. (UINT + k) % PIPESIZE = k % PIPESIZE
      BY TurnIsWhole
    <2> QED
      BY <1>0, <1>1, <2>1
  <1>2. CASE x + 1 # UINT
    BY <1>0, <1>2
  <1> QED
    BY <1>1, <1>2

\* The write index is the one after the last byte.
LEMMA WriteIndex ==
    ASSUME TypeOK
    PROVE  nwrite % PIPESIZE = (nread + InPipe) % PIPESIZE
  <1> USE PipeConstants
  <1>0. nread \in 0..(UINT - 1) /\ nwrite \in 0..(UINT - 1) /\ UINT \in Nat \ {0}
    BY DEF TypeOK
  <1>1. InPipe = IF nwrite >= nread THEN nwrite - nread ELSE nwrite - nread + UINT
    BY <1>0, Difference DEF InPipe
  <1>2. CASE nwrite >= nread
    BY <1>0, <1>1, <1>2
  <1>3. CASE nwrite < nread
    <2>1. nread + InPipe = UINT + nwrite
      BY <1>0, <1>1, <1>3
    <2>2. (UINT + nwrite) % PIPESIZE = nwrite % PIPESIZE
      <3>1. nwrite \in Int
        BY <1>0
      <3> QED
        BY <3>1, TurnIsWhole
    <2> QED
      BY <2>1, <2>2
  <1> QED
    BY <1>0, <1>2, <1>3

\* A byte is written after the others, over none of them.
LEMMA WritePuts ==
    ASSUME TypeOK, InPipe < PIPESIZE, InPipe' = InPipe + 1, UNCHANGED nread,
           NEW b \in Byte, data' = [data EXCEPT ![nwrite % PIPESIZE] = b]
    PROVE  Contents' = Append(Contents, b) /\ Len(Contents) < PIPESIZE
  <1> USE PipeConstants
  <1> DEFINE S == Byte \cup {NoByte}
             n == InPipe
             c == Part(data, nread, n)
             e == Part(data', nread, n + 1)
  <1>0. /\ nread \in Int /\ nwrite \in Int /\ n \in Nat /\ n < PIPESIZE
        /\ data \in [0..(PIPESIZE - 1) -> S]
    BY Distances DEF TypeOK
  <1>1. nwrite % PIPESIZE \in 0..(PIPESIZE - 1) /\ nwrite % PIPESIZE = (nread + n) % PIPESIZE
    BY <1>0, DivMod, WriteIndex
  <1>2. data' \in [0..(PIPESIZE - 1) -> S]
    BY <1>0, <1>1
  <1>3. Contents = c /\ Contents' = e
    BY DEF Contents, Part
  <1> HIDE DEF S, n
  <1>4. /\ c \in Seq(S) /\ Len(c) = n
        /\ \A i \in 1..n : c[i] = data[(nread + i - 1) % PIPESIZE]
    BY <1>0, PartIsSeq
  <1>5. /\ e \in Seq(S) /\ Len(e) = n + 1
        /\ \A i \in 1..(n + 1) : e[i] = data'[(nread + i - 1) % PIPESIZE]
    <2> DEFINE m == n + 1
    <2>1. m \in Nat /\ nread \in Int
      BY <1>0
    <2> HIDE DEF m
    <2>2. /\ Part(data', nread, m) \in Seq(S) /\ Len(Part(data', nread, m)) = m
          /\ \A i \in 1..m : Part(data', nread, m)[i] = data'[(nread + i - 1) % PIPESIZE]
      BY ONLY <1>2, <2>1, PartIsSeq
    <2> QED
      BY <2>2 DEF m
  <1> HIDE DEF c, e
  <1>6. e[n + 1] = b
    <2>1. nread + (n + 1) - 1 = nread + n /\ n + 1 \in 1..(n + 1)
      BY <1>0
    <2>2. e[n + 1] = data'[(nread + n) % PIPESIZE]
      BY <1>5, <2>1
    <2> QED
      BY <1>0, <1>1, <2>2
  <1>7. ASSUME NEW i \in 1..n
        PROVE  e[i] = c[i]
    <2> DEFINE x == nread + i - 1
               d == n - i + 1
    <2>1. x \in Int /\ d \in 1..(PIPESIZE - 1) /\ x + d = nread + n /\ i \in 1..(n + 1)
      BY <1>0
    <2>2. x % PIPESIZE # nwrite % PIPESIZE
      BY <1>1, <2>1, ModDistinct
    <2>3. x % PIPESIZE \in 0..(PIPESIZE - 1)
      BY <2>1, DivMod
    <2>4. data'[x % PIPESIZE] = data[x % PIPESIZE]
      BY <1>0, <2>2, <2>3
    <2> QED
      BY <1>4, <1>5, <2>1, <2>4
  <1>8. b \in S
    BY DEF S
  <1>9. /\ Append(c, b) \in Seq(S) /\ Len(Append(c, b)) = n + 1
        /\ \A i \in 1..n : Append(c, b)[i] = c[i]
        /\ Append(c, b)[n + 1] = b
    BY <1>4, <1>8, AppendIs
  <1>10. \A i \in 1..(n + 1) : e[i] = Append(c, b)[i]
    BY <1>0, <1>6, <1>7, <1>9
  <1>11. e = Append(c, b)
    BY <1>5, <1>9, <1>10, SameEntries
  <1> QED
    BY <1>0, <1>3, <1>4, <1>11

\* The oldest byte is read, and the others stay in order.
LEMMA ReadGets ==
    ASSUME TypeOK, InPipe > 0, InPipe' = InPipe - 1, UNCHANGED data,
           nread' = (nread + 1) % UINT
    PROVE  /\ Contents # <<>> /\ Contents' = Tail(Contents)
           /\ Head(Contents) = data[nread % PIPESIZE]
  <1> USE PipeConstants
  <1> DEFINE S == Byte \cup {NoByte}
             n == InPipe
             r == (nread + 1) % UINT
             c == Part(data, nread, n)
             e == Part(data, r, n - 1)
  <1>0. /\ nread \in Int /\ nread \in 0..(UINT - 1) /\ n \in Nat /\ n > 0 /\ n - 1 \in Nat
        /\ data \in [0..(PIPESIZE - 1) -> S] /\ UINT \in Nat \ {0}
    BY Distances DEF TypeOK
  <1>1. r \in Int
    BY <1>0, Successor
  <1>2. Contents = c /\ Contents' = e
    BY DEF Contents, Part
  <1> HIDE DEF S, n
  <1>3. /\ c \in Seq(S) /\ Len(c) = n
        /\ \A i \in 1..n : c[i] = data[(nread + i - 1) % PIPESIZE]
    <2>1. nread \in Int /\ n \in Nat /\ data \in [0..(PIPESIZE - 1) -> S]
      BY <1>0
    <2> QED
      BY ONLY <2>1, PartIsSeq DEF c
  <1>4. /\ e \in Seq(S) /\ Len(e) = n - 1
        /\ \A i \in 1..(n - 1) : e[i] = data[(r + i - 1) % PIPESIZE]
    <2> DEFINE m == n - 1
    <2>1. m \in Nat /\ data \in [0..(PIPESIZE - 1) -> S]
      BY <1>0
    <2> HIDE DEF r, m
    <2>2. /\ Part(data, r, m) \in Seq(S) /\ Len(Part(data, r, m)) = m
          /\ \A i \in 1..m : Part(data, r, m)[i] = data[(r + i - 1) % PIPESIZE]
      BY ONLY <1>1, <2>1, PartIsSeq
    <2> QED
      BY <2>2 DEF m
  <1> HIDE DEF c, e
  <1>5. c # <<>>
    BY <1>0, <1>3
  <1>6. /\ Tail(c) \in Seq(S) /\ Len(Tail(c)) = n - 1
        /\ \A i \in 1..(n - 1) : Tail(c)[i] = c[i + 1]
    BY <1>3, <1>5, TailIs
  <1>7. ASSUME NEW i \in 1..(n - 1)
        PROVE  e[i] = Tail(c)[i]
    <2>1. i - 1 \in Int /\ i + 1 \in 1..n
      BY <1>0
    <2>2. (r + (i - 1)) % PIPESIZE = (nread + 1 + (i - 1)) % PIPESIZE
      BY <1>0, <2>1, SameIndex
    <2>3. r + i - 1 = r + (i - 1) /\ nread + 1 + (i - 1) = nread + (i + 1) - 1
      BY <1>0, <1>1
    <2>4. e[i] = data[(nread + (i + 1) - 1) % PIPESIZE]
      BY <1>4, <2>2, <2>3
    <2> QED
      BY <1>3, <1>6, <2>1, <2>4
  <1>8. e = Tail(c)
    BY <1>4, <1>6, <1>7, SameEntries
  <1>9. Head(c) = data[nread % PIPESIZE]
    <2>1. 1 \in 1..n /\ nread + 1 - 1 = nread
      BY <1>0
    <2>2. c[1] = data[nread % PIPESIZE]
      BY <1>3, <2>1
    <2>3. Head(c) = c[1]
      BY <1>3, <1>5
    <2> QED
      BY <2>2, <2>3
  <1> QED
    BY <1>2, <1>5, <1>8, <1>9

\* The pipe implements a first-in first-out queue of PIPESIZE bytes: pipewrite()
\* appends, piperead() takes the oldest byte, and no other step changes what is
\* in it, also when nread and nwrite wrap around (pipe.c:93 and pipe.c:117).
THEOREM PipeIsFifo == Spec => IsFifo
  <1>1. Init => F!Init
    <2> SUFFICES ASSUME Init PROVE F!Init
      OBVIOUS
    <2>1. TypeOK /\ Empty
      BY PipeInvInit DEF PipeInv, Init, Empty
    <2>2. InPipe = 0
      BY <2>1, Distances
    <2>3. Contents = <<>>
      BY <2>2 DEF Contents
    <2> QED
      BY <2>3 DEF Init, F!Init
  <1>2. PipeInv /\ [Next]_vars => [F!Next]_<<Contents, addr>>
    <2> SUFFICES ASSUME PipeInv, [Next]_vars
                 PROVE  [F!Next]_<<Contents, addr>>
      OBVIOUS
    <2>1. ASSUME NEW p \in Proc, Step(p)
          PROVE  [F!Next]_<<Contents, addr>>
      <3>0. TypeOK /\ InPipe <= PIPESIZE
        BY DEF PipeInv
      <3>1. CASE UNCHANGED <<data, nread, nwrite, addr>>
        BY <3>1 DEF Contents, InPipe
      <3>2. CASE /\ InPipe < PIPESIZE /\ InPipe' = InPipe + 1
                 /\ nwrite' = (nwrite + 1) % UINT /\ UNCHANGED <<nread, addr>>
                 /\ \E b \in Byte : data' = [data EXCEPT ![nwrite % PIPESIZE] = b]
        <4>1. PICK b \in Byte : data' = [data EXCEPT ![nwrite % PIPESIZE] = b]
          BY <3>2
        <4>2. Contents' = Append(Contents, b) /\ Len(Contents) < PIPESIZE
          BY <3>0, <3>2, <4>1, WritePuts
        <4> QED
          BY <3>2, <4>2 DEF F!Next, F!Put
      <3>3. CASE /\ InPipe > 0 /\ InPipe' = InPipe - 1
                 /\ nread' = (nread + 1) % UINT /\ UNCHANGED <<nwrite, data>>
                 /\ addr' = data[nread % PIPESIZE]
        <4>1. /\ Contents # <<>> /\ Contents' = Tail(Contents)
              /\ Head(Contents) = data[nread % PIPESIZE]
          BY <3>0, <3>3, ReadGets
        <4> QED
          BY <3>3, <4>1 DEF F!Next, F!Get
      <3> QED
        BY <2>1, <3>0, <3>1, <3>2, <3>3, SpaceStep
    <2>2. CASE UNCHANGED vars
      BY <2>2 DEF vars, pipeVars, Contents, InPipe
    <2> QED
      BY <2>1, <2>2 DEF Next, Step
  <1> QED
    BY <1>1, <1>2, PipeInvariance, PTL DEF Spec, IsFifo, F!Spec

=============================================================================
