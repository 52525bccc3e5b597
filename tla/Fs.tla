--------------------------------- MODULE Fs ---------------------------------
(***************************************************************************)
(* Inodes, directories and paths (fs.c), open files (file.c) and the       *)
(* system calls on them (sysfile.c, fork() and exit()).                    *)
(*                                                                         *)
(* The functions of fs.c are operators from one state s of the file system *)
(* to the next, under their C names.  The system calls are sequences of    *)
(* steps.  A step ends where the code lets go of a lock on which another   *)
(* process may act: between iget() and ilock(), while an inode stays       *)
(* locked, and around iput(), which frees an inode without icache.lock.    *)
(* What a call does to one inode between ilock() and iunlock() is a step.  *)
(* Sizes count blocks; a directory is a function from names to inodes.     *)
(***************************************************************************)
EXTENDS Naturals, Sequences, FiniteSets, SequencesExt

CONSTANTS
    Proc,       \* the process table; the first process is alive at the start
    first,
    Name,       \* names that calls use, besides "." and ".."
    NINODES,    \* inodes are 1..NINODES
    NBLOCKS,    \* data blocks are 1..NBLOCKS
    NDIRECT,    \* blocks of a file that its inode points to
    MAXFILE,    \* blocks of the largest file
    NFILE,      \* open files
    NOFILE,     \* file descriptors of a process
    Workloads   \* bound: the calls that the processes make, [Proc -> SUBSET Call],
                \* and the size of the inode cache

ASSUME FsConstants ==
    /\ first \in Proc
    /\ {NINODES, NBLOCKS} \subseteq Nat \ {0}
    /\ NDIRECT \in Nat /\ MAXFILE \in Nat /\ NDIRECT < MAXFILE
    /\ NFILE \in Nat /\ NOFILE \in Nat

VARIABLES
    fs,      \* the disk and the inode cache
    ftable,  \* ftable.file
    ofile,   \* proc.ofile
    cwd,     \* proc.cwd, 0 for a process that does not exist
    L,       \* what each process does: pc, arguments and local variables
    load     \* the calls that each process makes, and the size of the cache

vars == <<fs, ftable, ofile, cwd, L, load>>

Inum == 1..NINODES
ROOTINO == 1
NINODE == load.ninode       \* entries of the inode cache
Dots == {".", ".."}
File == 1..NFILE
Fd == 0..(NOFILE - 1)

\* struct dinode of a free inode, and the contents of a directory without blocks
Free == [type |-> "none", nlink |-> 0, addrs |-> <<>>, indirect |-> 0]
Empty == [n \in Name \cup Dots |-> 0]

\* struct file, when f->ref is 0
Closed == [ref |-> 0, ip |-> 0, off |-> 0, writable |-> FALSE]

\* The first x of S; 0 if there is none.
First(S) == IF S = {} THEN 0 ELSE CHOOSE x \in S : \A y \in S : x <= y

-----------------------------------------------------------------------------
(* fs.c.  A state s of the file system has                                 *)
(*   dinode, dirent, bitmap: the disk: inodes, directory contents, blocks; *)
(*   ref, busy, valid, inode: the inode cache;                             *)
(*   panic: what the kernel has panicked with, "" while it runs.           *)

Panic(s, why) == [s EXCEPT !.panic = IF @ = "" THEN why ELSE @]

\* A free block, zeroed.
balloc(s) == First(1..NBLOCKS \ s.bitmap)

Balloc(s) ==
    IF balloc(s) = 0 THEN Panic(s, "balloc: out of blocks")
    ELSE [s EXCEPT !.bitmap = @ \cup {balloc(s)}]

\* The blocks that an inode owns.
Blocks(d) == Range(d.addrs) \cup ({d.indirect} \ {0})

bfree(s, bs) ==
    IF bs \subseteq s.bitmap THEN [s EXCEPT !.bitmap = @ \ bs]
    ELSE Panic(s, "freeing free block")

ialloc(s) == First({i \in Inum : s.dinode[i].type = "none"})

Ialloc(s, i, type) == [s EXCEPT !.dinode[i] = [Free EXCEPT !.type = type]]

iupdate(s, i) == [s EXCEPT !.dinode[i] = s.inode[i]]

\* The inode's entry of the cache, or one that nobody refers to.
iget(s, i) ==
    IF s.ref[i] > 0 THEN [s EXCEPT !.ref[i] = @ + 1]
    ELSE IF Cardinality({j \in Inum : s.ref[j] > 0}) >= NINODE
    THEN Panic(s, "iget: no inodes")
    ELSE [s EXCEPT !.ref[i] = 1, !.busy[i] = FALSE, !.valid[i] = FALSE]

\* ilock() once the inode is not busy.
ilock(s, i) ==
    IF s.ref[i] < 1 THEN Panic(s, "ilock")
    ELSE IF ~s.valid[i] /\ s.dinode[i].type = "none" THEN Panic(s, "ilock: no type")
    ELSE [s EXCEPT !.busy[i] = TRUE, !.valid[i] = TRUE,
                   !.inode[i] = IF s.valid[i] THEN @ ELSE s.dinode[i]]

iunlock(s, i) ==
    IF ~s.busy[i] \/ s.ref[i] < 1 THEN Panic(s, "iunlock") ELSE [s EXCEPT !.busy[i] = FALSE]

\* Variant: an inode without links is freed under those who have it open.
LastRef_any(s, i) == s.valid[i] /\ s.inode[i].nlink = 0

\* iput() has to free the inode.
LastRef(s, i) == s.ref[i] = 1 /\ s.valid[i] /\ s.inode[i].nlink = 0

iputbusy(s, i) ==
    IF s.busy[i] THEN Panic(s, "iput busy") ELSE [s EXCEPT !.busy[i] = TRUE]

\* An inode that is out of the cache keeps nothing: iget() starts afresh.
Forget(s, i) == IF s.ref[i] = 0 THEN [s EXCEPT !.inode[i] = Free, !.valid[i] = FALSE]
                ELSE s

iputref(s, i) == Forget([s EXCEPT !.ref[i] = @ - 1], i)

\* Variant: the block of block addresses stays allocated.
itrunc_direct(s, i) ==
    LET t == bfree(s, Range(s.inode[i].addrs))
    IN iupdate([t EXCEPT !.inode[i].addrs = <<>>, !.inode[i].indirect = 0,
                         !.dirent[i] = Empty], i)

itrunc(s, i) ==
    LET t == bfree(s, Blocks(s.inode[i]))
    IN iupdate([t EXCEPT !.inode[i].addrs = <<>>, !.inode[i].indirect = 0,
                         !.dirent[i] = Empty], i)

\* iput() of the last reference, with the inode busy: all of it is freed ...
ifree(s, i) == iupdate([itrunc(s, i) EXCEPT !.inode[i].type = "none"], i)

\* Variant: the cache goes on taking its copy for good.
ifreed_valid(s, i) == Forget([s EXCEPT !.busy[i] = FALSE, !.ref[i] = @ - 1], i)

\* ... and then the entry of the cache is given up.
ifreed(s, i) ==
    Forget([s EXCEPT !.busy[i] = FALSE, !.valid[i] = FALSE, !.ref[i] = @ - 1], i)

\* bmap() for the block after the last one.
bmap(s, i) ==
    LET n == Len(s.inode[i].addrs)
        t == IF n >= NDIRECT /\ s.inode[i].indirect = 0
             THEN [Balloc(s) EXCEPT !.inode[i].indirect = balloc(s)] ELSE s
    IN [Balloc(t) EXCEPT !.inode[i].addrs = Append(@, balloc(t))]

\* writei() of the block at off; CanWrite() is its test for errors.
CanWrite(s, i, off) == off <= Len(s.inode[i].addrs) /\ off + 1 <= MAXFILE

writei(s, i, off) ==
    IF off < Len(s.inode[i].addrs) THEN s ELSE iupdate(bmap(s, i), i)

\* readi() of one block at off: how many blocks it reads.
readi(s, i, off) == IF off < Len(s.inode[i].addrs) THEN 1 ELSE 0

\* dirlookup(): its test, and what it finds.
Searched(s, d) ==
    IF s.inode[d].type = "dir" THEN s ELSE Panic(s, "dirlookup not DIR")

dirlookup(s, d, name) == s.dirent[d][name]

\* dirlink() of a name that is not there.  The first entries of a directory
\* need a block.
dirlink(s, d, name, i) ==
    LET t == writei(s, d, 0) IN [t EXCEPT !.dirent[d][name] = i]

isdirempty(s, d) == \A n \in Name : s.dirent[d][n] = 0

-----------------------------------------------------------------------------
(* Processes.  pc is the next step of the call; path, parent and nret are  *)
(* the arguments of namex() and where it returns to, ip its result; ip, dp *)
(* and old are the inodes that the call refers to, and put is the one that *)
(* iput() is about to give up on the way to ret.                           *)

Rest == [pc |-> "idle", call |-> [op |-> "none"], path |-> <<>>,
         parent |-> FALSE, nret |-> "", name |-> ".", ip |-> 0, dp |-> 0,
         old |-> 0, put |-> 0, ret |-> ""]

\* A disk as mkfs makes it, with the root directory only; the first process
\* is in it and has no files.
Init ==
    /\ fs = [dinode |-> [i \in Inum |-> IF i = ROOTINO
                            THEN [type |-> "dir", nlink |-> 1, addrs |-> <<1>>,
                                  indirect |-> 0]
                            ELSE Free],
             dirent |-> [i \in Inum |-> IF i = ROOTINO
                            THEN [n \in Name \cup Dots |-> IF n \in Dots THEN i ELSE 0]
                            ELSE Empty],
             bitmap |-> {1},
             ref |-> [i \in Inum |-> IF i = ROOTINO THEN 1 ELSE 0],
             busy |-> [i \in Inum |-> FALSE], valid |-> [i \in Inum |-> FALSE],
             inode |-> [i \in Inum |-> Free],
             panic |-> ""]
    /\ ftable = [f \in File |-> Closed]
    /\ ofile = [p \in Proc |-> [fd \in Fd |-> 0]]
    /\ cwd = [p \in Proc |-> IF p = first THEN ROOTINO ELSE 0]
    /\ L = [p \in Proc |-> Rest]
    /\ load \in Workloads

files == <<ftable, ofile, cwd, load>>

At(p, l) == L[p].pc = l /\ fs.panic = ""

\* The process goes on as l says, in the file system s, unless it panicked on the
\* way: the machine stops, and what the step did in memory is lost.
To(p, s, l) ==
    \E t \in {s} :
        IF t.panic = "" THEN fs' = t /\ L' = [L EXCEPT ![p] = l]
        ELSE fs' = [fs EXCEPT !.panic = t.panic] /\ UNCHANGED L

Goto(l, label) == [l EXCEPT !.pc = label]

\* iput(i), then on to label.
Put(l, i, label) == [l EXCEPT !.pc = "iput", !.put = i, !.ret = label]

\* iput(ip), which ends the call.
PutIp(l) == Put([l EXCEPT !.ip = 0], l.ip, "end")

\* The call that process p makes, which it is not making yet.
Enter(p, op) == At(p, "idle") /\ cwd[p] # 0 /\ op \in load.calls[p]

\* namex() starts at the root or in the current directory.
Start(p, path) == IF path.abs THEN ROOTINO ELSE cwd[p]

Namex(l, i, path, parent, nret) ==
    [l EXCEPT !.pc = "namex", !.path = path, !.parent = parent, !.nret = nret,
              !.ip = i]

\* begin_op() and the start of a call on a path.
Call(p, op, parent, nret) ==
    /\ Enter(p, op)
    /\ To(p, iget(fs, Start(p, op.path)),
          Namex([Rest EXCEPT !.call = op], Start(p, op.path), op.path.elems,
                parent, nret))
    /\ UNCHANGED files

\* end_op(), and the return from the call.
End(p) ==
    /\ At(p, "end")
    /\ To(p, fs, Rest)
    /\ UNCHANGED files

\* Variant: the element that was found is looked up again.
After_same(path) == path

\* skipelem()
After(path) == Tail(path)

\* One element of the path.
namex(p) ==
    LET l == L[p]
        done == l.parent /\ Len(l.path) = 1
        next == dirlookup(fs, l.ip, Head(l.path))
        locked == ilock(fs, l.ip)
    IN /\ At(p, "namex")
       /\ UNCHANGED files
       /\ \/ /\ l.path = <<>> /\ ~l.parent
             /\ To(p, fs, Goto(l, l.nret))
          \/ /\ l.path = <<>> /\ l.parent
             /\ To(p, fs, Put([l EXCEPT !.ip = 0], l.ip, l.nret))
          \/ /\ l.path # <<>> /\ ~fs.busy[l.ip]
             /\ IF locked.inode[l.ip].type # "dir" \/ (~done /\ next = 0)
                THEN To(p, iunlock(locked, l.ip), Put([l EXCEPT !.ip = 0], l.ip, l.nret))
                ELSE IF done
                THEN To(p, iunlock(locked, l.ip),
                        Goto([l EXCEPT !.name = Head(l.path), !.path = <<>>], l.nret))
                ELSE To(p, iunlock(iget(locked, next), l.ip),
                        Put([l EXCEPT !.ip = next, !.path = After(@)], l.ip, "namex"))

\* iput() under icache.lock.
iput(p) ==
    LET l == L[p] IN
    /\ At(p, "iput")
    /\ IF LastRef(fs, l.put)
       THEN To(p, iputbusy(fs, l.put), Goto(l, "ifree"))
       ELSE To(p, iputref(fs, l.put), Goto([l EXCEPT !.put = 0], l.ret))
    /\ UNCHANGED files

\* The rest of iput() when the inode has to be freed.
iput_free(p) ==
    LET l == L[p] IN
    /\ \/ At(p, "ifree") /\ To(p, ifree(fs, l.put), Goto(l, "ifreed"))
       \/ /\ At(p, "ifreed")
          /\ To(p, ifreed(fs, l.put), Goto([l EXCEPT !.put = 0], l.ret))
    /\ UNCHANGED files

\* A step that starts with ilock(i).
Lock(p, l, i) == At(p, l) /\ i # 0 /\ ~fs.busy[i]

\* namei() or nameiparent() has found nothing.
NotFound(p) ==
    /\ L[p].pc \in {"create", "opened", "link1", "unlink1", "chdir1"}
    /\ L[p].ip = 0 /\ fs.panic = ""
    /\ To(p, fs, Goto(L[p], "end"))
    /\ UNCHANGED files

-----------------------------------------------------------------------------
(* create(), for open(), mkdir() and mknod(). *)

TypeOf(call) == CASE call.op = "open" -> "file"
                  [] call.op = "mkdir" -> "dir"
                  [] call.op = "mknod" -> "dev"

\* Under the parent's lock: the name is there, or an inode is allocated.
create(p) ==
    LET l == L[p]
        locked == Searched(ilock(fs, l.ip), l.ip)
        found == dirlookup(locked, l.ip, l.name)
        new == ialloc(locked)
    IN /\ Lock(p, "create", l.ip)
       /\ IF found # 0
          THEN To(p, iunlock(iget(locked, found), l.ip),
                  Put([l EXCEPT !.ip = found], l.ip, "create_old"))
          ELSE IF new = 0
          THEN To(p, Panic(locked, "ialloc: no inodes"), l)
          ELSE To(p, iget(Ialloc(locked, new, TypeOf(l.call)), new),
                  Goto([l EXCEPT !.ip = new, !.dp = l.ip], "create_new"))
       /\ UNCHANGED files

create_old(p) ==
    LET l == L[p]
        locked == ilock(fs, l.ip)
    IN /\ Lock(p, "create_old", l.ip)
       /\ IF TypeOf(l.call) = "file" /\ locked.inode[l.ip].type = "file"
          THEN To(p, locked, Goto(l, "created"))
          ELSE To(p, iunlock(locked, l.ip), PutIp(l))
       /\ UNCHANGED files

\* Variant: the parent's link count is not raised for "..".
DotEntries_uncounted(s, i, d) == dirlink(dirlink(s, i, ".", i), i, "..", d)

\* The entries "." and ".." of a new directory.
DotEntries(s, i, d) ==
    LET t == iupdate([s EXCEPT !.inode[d].nlink = @ + 1], d)
    IN dirlink(dirlink(t, i, ".", i), i, "..", d)

create_new(p) ==
    LET l == L[p]
        linked == iupdate([ilock(fs, l.ip) EXCEPT !.inode[l.ip].nlink = 1], l.ip)
        filled == IF TypeOf(l.call) = "dir" THEN DotEntries(linked, l.ip, l.dp)
                  ELSE linked
    IN /\ Lock(p, "create_new", l.ip)
       /\ IF dirlookup(fs, l.dp, l.name) # 0
          THEN To(p, Panic(fs, "create: dirlink"), l)
          ELSE To(p, iunlock(dirlink(filled, l.dp, l.name, l.ip), l.dp),
                  Put([l EXCEPT !.dp = 0], l.dp, "created"))
       /\ UNCHANGED files

-----------------------------------------------------------------------------
(* open(), mkdir() and mknod() *)

sys_open(p, op) ==
    /\ op.op = "open"
    /\ Call(p, op, op.create, IF op.create THEN "create" ELSE "opened")

opened(p) ==
    LET l == L[p]
        locked == ilock(fs, l.ip)
    IN /\ Lock(p, "opened", l.ip)
       /\ IF locked.inode[l.ip].type = "dir" /\ ~l.call.rdonly
          THEN To(p, iunlock(locked, l.ip), PutIp(l))
          ELSE To(p, locked, Goto(l, "created"))
       /\ UNCHANGED files

filealloc == First({f \in File : ftable[f].ref = 0})
FreeFd(p) == {fd \in Fd : ofile[p][fd] = 0}

\* filealloc() and fdalloc(), with the inode locked.  The file takes over the
\* reference to the inode.
open_file(p) ==
    LET l == L[p]
        fd == First(FreeFd(p))
    IN /\ At(p, "created") /\ l.call.op = "open"
       /\ IF filealloc = 0 \/ FreeFd(p) = {}
          THEN /\ To(p, iunlock(fs, l.ip), PutIp(l))
               /\ UNCHANGED <<ftable, ofile>>
          ELSE /\ To(p, iunlock(fs, l.ip), Rest)
               /\ ftable' = [ftable EXCEPT ![filealloc] =
                                [ref |-> 1, ip |-> l.ip, off |-> 0,
                                 writable |-> ~l.call.rdonly]]
               /\ ofile' = [ofile EXCEPT ![p][fd] = filealloc]
       /\ UNCHANGED <<cwd, load>>

sys_mkdir(p, op) ==
    /\ op.op \in {"mkdir", "mknod"}
    /\ Call(p, op, TRUE, "create")

made(p) ==
    LET l == L[p] IN
    /\ At(p, "created") /\ l.call.op # "open"
    /\ To(p, iunlock(fs, l.ip), PutIp(l))
    /\ UNCHANGED files

-----------------------------------------------------------------------------
(* link() *)

sys_link(p, op) == op.op = "link" /\ Call(p, op, FALSE, "link1")

\* nlink is raised before the new entry is made.
link1(p) ==
    LET l == L[p]
        locked == ilock(fs, l.ip)
        raised == iupdate([locked EXCEPT !.inode[l.ip].nlink = @ + 1], l.ip)
        new == l.call.new
        start == Start(p, new)
    IN /\ Lock(p, "link1", l.ip)
       /\ IF locked.inode[l.ip].type = "dir"
          THEN To(p, iunlock(locked, l.ip), PutIp(l))
          ELSE To(p, iget(iunlock(raised, l.ip), start),
                  Namex([l EXCEPT !.old = l.ip], start, new.elems, TRUE, "link2"))
       /\ UNCHANGED files

\* dirlink(): the entry, unless the name is taken; then what has the name is
\* given up first, with the directory still locked.
link2(p) ==
    LET l == L[p]
        locked == Searched(ilock(fs, l.ip), l.ip)
        found == dirlookup(locked, l.ip, l.name)
    IN /\ Lock(p, "link2", l.ip)
       /\ IF found # 0
          THEN To(p, iget(locked, found),
                  Put([l EXCEPT !.dp = l.ip, !.ip = 0], found, "link_taken"))
          ELSE To(p, iunlock(dirlink(locked, l.ip, l.name, l.old), l.ip),
                  Put([l EXCEPT !.ip = 0], l.ip, "linked"))
       /\ UNCHANGED files

\* There is no directory to link it in, or the name was taken, or the inode has
\* its link.
linked(p) ==
    LET l == L[p] IN
    /\ \/ At(p, "link2") /\ l.ip = 0 /\ To(p, fs, Goto(l, "link_bad"))
       \/ /\ At(p, "link_taken")
          /\ To(p, iunlock(fs, l.dp), Put([l EXCEPT !.dp = 0], l.dp, "link_bad"))
       \/ At(p, "linked") /\ To(p, fs, Put([l EXCEPT !.old = 0], l.old, "end"))
    /\ UNCHANGED files

link_bad(p) ==
    LET l == L[p]
        lowered == [ilock(fs, l.old) EXCEPT !.inode[l.old].nlink = @ - 1]
    IN /\ Lock(p, "link_bad", l.old)
       /\ To(p, iunlock(iupdate(lowered, l.old), l.old),
             Put([l EXCEPT !.old = 0], l.old, "end"))
       /\ UNCHANGED files

-----------------------------------------------------------------------------
(* unlink() *)

sys_unlink(p, op) == op.op = "unlink" /\ Call(p, op, TRUE, "unlink1")

\* The parent stays locked when the name is found.
unlink1(p) ==
    LET l == L[p]
        locked == ilock(fs, l.ip)
        searched == Searched(locked, l.ip)
        found == dirlookup(searched, l.ip, l.name)
    IN /\ Lock(p, "unlink1", l.ip)
       /\ IF l.name \in Dots
          THEN To(p, iunlock(locked, l.ip), PutIp(l))
          ELSE IF found = 0
          THEN To(p, iunlock(searched, l.ip), PutIp(l))
          ELSE To(p, iget(searched, found),
                  Goto([l EXCEPT !.dp = l.ip, !.ip = found], "unlink2"))
       /\ UNCHANGED files

\* The entry goes, and with a directory its link to the parent.
Erase(s, d, name, i) ==
    LET t == [s EXCEPT !.dirent[d][name] = 0]
    IN IF s.inode[i].type # "dir" THEN t
       ELSE iupdate([t EXCEPT !.inode[d].nlink = @ - 1], d)

unlink2(p) ==
    LET l == L[p]
        locked == ilock(fs, l.ip)
    IN /\ Lock(p, "unlink2", l.ip)
       /\ IF locked.inode[l.ip].nlink < 1
          THEN To(p, Panic(locked, "unlink: nlink < 1"), l)
          ELSE IF locked.inode[l.ip].type = "dir" /\ ~isdirempty(locked, l.ip)
          THEN To(p, iunlock(locked, l.ip),
                  Put([l EXCEPT !.ip = 0], l.ip, "unlink_bad"))
          ELSE To(p, iunlock(Erase(locked, l.dp, l.name, l.ip), l.dp),
                  Put([l EXCEPT !.dp = 0], l.dp, "unlink3"))
       /\ UNCHANGED files

unlink_bad(p) ==
    LET l == L[p] IN
    /\ At(p, "unlink_bad")
    /\ To(p, iunlock(fs, l.dp), Put([l EXCEPT !.dp = 0], l.dp, "end"))
    /\ UNCHANGED files

unlink3(p) ==
    LET l == L[p]
        lowered == iupdate([fs EXCEPT !.inode[l.ip].nlink = @ - 1], l.ip)
    IN /\ At(p, "unlink3")
       /\ To(p, iunlock(lowered, l.ip), PutIp(l))
       /\ UNCHANGED files

-----------------------------------------------------------------------------
(* chdir() *)

sys_chdir(p, op) == op.op = "chdir" /\ Call(p, op, FALSE, "chdir1")

chdir1(p) ==
    LET l == L[p]
        locked == ilock(fs, l.ip)
    IN /\ Lock(p, "chdir1", l.ip)
       /\ IF locked.inode[l.ip].type # "dir"
          THEN To(p, iunlock(locked, l.ip), PutIp(l)) /\ UNCHANGED cwd
          ELSE /\ To(p, iunlock(locked, l.ip), Put([l EXCEPT !.ip = 0], cwd[p], "end"))
               /\ cwd' = [cwd EXCEPT ![p] = l.ip]
       /\ UNCHANGED <<ftable, ofile, load>>

-----------------------------------------------------------------------------
(* Calls on open files *)

\* The descriptors that argfd() accepts.
Open(p) == {fd \in Fd : ofile[p][fd] # 0}

OpenIp(p, fd) == ftable[ofile[p][fd]].ip

\* sys_read() and sys_fstat(): one block at the file's offset, or only the inode.
fileread(p, op, fd) ==
    LET i == OpenIp(p, fd)
        f == ofile[p][fd]
        locked == ilock(fs, i)
    IN /\ op.op \in {"read", "fstat"} /\ Enter(p, op) /\ fd \in Open(p)
       /\ ~fs.busy[i]
       /\ To(p, iunlock(locked, i), Rest)
       /\ ftable' = IF op.op = "fstat" THEN ftable
                    ELSE [ftable EXCEPT ![f].off = @ + readi(locked, i, @)]
       /\ UNCHANGED <<ofile, cwd, load>>

\* sys_write() to a file that is open for writing: one transaction of
\* filewrite().  Writes to devices are the console's.
filewrite(p, op, fd) ==
    LET i == OpenIp(p, fd)
        f == ofile[p][fd]
        locked == ilock(fs, i)
        ok == CanWrite(locked, i, ftable[f].off)
    IN /\ op.op = "write" /\ Enter(p, op) /\ fd \in Open(p)
       /\ ~fs.busy[i] /\ ftable[f].writable /\ locked.inode[i].type # "dev"
       /\ To(p, iunlock(IF ok THEN writei(locked, i, ftable[f].off) ELSE locked, i),
             Rest)
       /\ ftable' = IF ok THEN [ftable EXCEPT ![f].off = @ + 1] ELSE ftable
       /\ UNCHANGED <<ofile, cwd, load>>

sys_dup(p, op, fd) ==
    /\ op.op = "dup" /\ Enter(p, op) /\ fd \in Open(p) /\ FreeFd(p) # {}
    /\ ftable' = [ftable EXCEPT ![ofile[p][fd]].ref = @ + 1]
    /\ ofile' = [ofile EXCEPT ![p][First(FreeFd(p))] = ofile[p][fd]]
    /\ UNCHANGED <<fs, L, cwd, load>>

\* fileclose(): the last one gives up the inode, in a transaction of its own.
fileclose(p, fd, l, label) ==
    LET f == ofile[p][fd] IN
    /\ ofile' = [ofile EXCEPT ![p][fd] = 0]
    /\ IF ftable[f].ref > 1
       THEN /\ ftable' = [ftable EXCEPT ![f].ref = @ - 1]
            /\ To(p, fs, Goto(l, label))
       ELSE /\ ftable' = [ftable EXCEPT ![f] = Closed]
            /\ To(p, fs, Put(l, ftable[f].ip, label))

sys_close(p, op, fd) ==
    /\ op.op = "close" /\ Enter(p, op) /\ fd \in Open(p)
    /\ fileclose(p, fd, [Rest EXCEPT !.call = op], "end")
    /\ UNCHANGED <<cwd, load>>

-----------------------------------------------------------------------------
(* fork() and exit() *)

\* Variant: two descriptors of one file are counted once.
Opens_once(p, f) == IF \E fd \in Fd : ofile[p][fd] = f THEN 1 ELSE 0

\* How often process p has file f open.
Opens(p, f) == Cardinality({fd \in Fd : ofile[p][fd] = f})

fork(p, op, q) ==
    /\ op.op = "fork" /\ Enter(p, op)
    /\ cwd[q] = 0 /\ L[q].pc = "idle"
    /\ ftable' = [f \in File |-> [ftable[f] EXCEPT !.ref = @ + Opens(p, f)]]
    /\ ofile' = [ofile EXCEPT ![q] = ofile[p]]
    /\ cwd' = [cwd EXCEPT ![q] = cwd[p]]
    /\ fs' = [fs EXCEPT !.ref[cwd[p]] = @ + 1]
    /\ UNCHANGED <<L, load>>

sys_exit(p, op) ==
    /\ op.op = "exit" /\ Enter(p, op) /\ p # first
    /\ To(p, fs, Goto([Rest EXCEPT !.call = op], "exit"))
    /\ UNCHANGED files

\* One file after the other, and then the current directory.
exit(p) ==
    LET fd == First(Open(p)) IN
    /\ At(p, "exit")
    /\ IF Open(p) # {}
       THEN fileclose(p, fd, L[p], "exit") /\ UNCHANGED cwd
       ELSE /\ To(p, fs, Put(L[p], cwd[p], "end"))
            /\ cwd' = [cwd EXCEPT ![p] = 0]
            /\ UNCHANGED <<ftable, ofile>>
    /\ UNCHANGED load

-----------------------------------------------------------------------------
Syscall(p) ==
    \E op \in load.calls[p] :
        \/ sys_open(p, op) \/ sys_mkdir(p, op) \/ sys_link(p, op)
        \/ sys_unlink(p, op) \/ sys_chdir(p, op) \/ sys_exit(p, op)
        \/ \E fd \in Fd : \/ fileread(p, op, fd) \/ filewrite(p, op, fd)
                          \/ sys_dup(p, op, fd) \/ sys_close(p, op, fd)
        \/ \E q \in Proc : fork(p, op, q)

Inside(p) ==
    \/ namex(p) \/ iput(p) \/ iput_free(p) \/ NotFound(p) \/ End(p)
    \/ create(p) \/ create_old(p) \/ create_new(p)
    \/ opened(p) \/ open_file(p) \/ made(p)
    \/ link1(p) \/ link2(p) \/ linked(p) \/ link_bad(p)
    \/ unlink1(p) \/ unlink2(p) \/ unlink_bad(p) \/ unlink3(p)
    \/ chdir1(p) \/ exit(p)

\* panic() has stopped the machine.
halted == fs.panic # "" /\ UNCHANGED vars

Next == halted \/ \E p \in Proc : Syscall(p) \/ Inside(p)

Spec == Init /\ [][Next]_vars

-----------------------------------------------------------------------------
(* Properties. *)

Dinode ==
    [type : {"none", "dir", "file", "dev"}, nlink : Nat,
     addrs : Seq(1..NBLOCKS), indirect : 0..NBLOCKS]

TypeOK ==
    /\ fs.dinode \in [Inum -> Dinode] /\ fs.inode \in [Inum -> Dinode]
    /\ fs.dirent \in [Inum -> [Name \cup Dots -> Inum \cup {0}]]
    /\ fs.bitmap \subseteq 1..NBLOCKS
    /\ fs.ref \in [Inum -> Nat]
    /\ fs.busy \in [Inum -> BOOLEAN] /\ fs.valid \in [Inum -> BOOLEAN]
    /\ fs.panic \in STRING
    /\ ftable \in [File -> [ref : Nat, ip : Inum \cup {0}, off : 0..MAXFILE,
                           writable : BOOLEAN]]
    /\ ofile \in [Proc -> [Fd -> File \cup {0}]]
    /\ cwd \in [Proc -> Inum \cup {0}]
    /\ \A p \in Proc : {L[p].ip, L[p].dp, L[p].old, L[p].put} \subseteq Inum \cup {0}

\* The disk, the inodes on it or the inode cache are used up.
UsedUp == {"balloc: out of blocks", "ialloc: no inodes", "iget: no inodes"}

\* A process looks for ".." in a directory that was removed while it, or another,
\* refers to it.  The entry is still there, but it does not count as a link, and
\* the parent may have been removed and freed since.
ThroughRemoved ==
    \E p \in Proc :
        /\ L[p].ip # 0 /\ fs.dinode[L[p].ip].type = "none"
        /\ \E i \in DOMAIN L[p].call.path.elems : L[p].call.path.elems[i] = ".."

\* The kernel does not panic in fs.c, create(), link() or unlink() for any other
\* reason than that something is used up, however the calls of the processes
\* interleave: no busy inode is freed, no free block freed, no entry made twice,
\* no link count lowered below zero, no directory searched that is none, and no
\* free inode locked, except on the way through the ".." of a removed directory.
NoPanic ==
    \/ fs.panic \in {""} \cup UsedUp
    \/ fs.panic = "ilock: no type" /\ ThroughRemoved

\* ip->ref "tracks the number of in-memory pointers to the entry": it counts the
\* open files, the current directories and the pointers of calls in progress,
\* and f->ref counts the file descriptors.
RefsCounted ==
    /\ TypeOK
    /\ \A i \in Inum :
        fs.ref[i] = Cardinality({p \in Proc : cwd[p] = i})
                    + Cardinality({f \in File : ftable[f].ref > 0 /\ ftable[f].ip = i})
                    + Cardinality({<<p, v>> \in Proc \X {"ip", "dp", "old", "put"} :
                                      L[p][v] = i})
    /\ \A f \in File :
        ftable[f].ref = Cardinality({<<p, fd>> \in Proc \X Fd : ofile[p][fd] = f})

\* No transaction is in progress, so that what is on the disk can be committed.
Outside == fs.panic = "" /\ \A p \in Proc : L[p].pc \in {"idle", "exit"}

Live == {d \in Inum : fs.dinode[d].type = "dir" /\ fs.dinode[d].nlink > 0}

\* The links to inode i: entries of directories, and the ".." of subdirectories.
\* The root has one for itself.
Links(i) ==
    Cardinality({<<d, n>> \in Live \X Name : fs.dirent[d][n] = i})
    + Cardinality({d \in Live \ {ROOTINO} : fs.dirent[d][".."] = i})
    + (IF i = ROOTINO THEN 1 ELSE 0)

\* nlink is the "number of links to inode in file system" whenever the log may
\* commit, however many calls on the same names ran at once, and entries only
\* refer to inodes that are allocated.
LinksCounted ==
    Outside =>
        /\ \A i \in Inum : fs.dinode[i].nlink = Links(i)
        /\ \A d \in Live : \A n \in Name \cup Dots :
            fs.dirent[d][n] # 0 => fs.dinode[fs.dirent[d][n]].type # "none"

\* Every block in use belongs to one inode, and an inode without links is only
\* there as long as a process refers to it.
NothingLeaked ==
    Outside =>
        /\ fs.bitmap = UNION {Blocks(fs.dinode[i]) : i \in Inum}
        /\ \A i, j \in Inum :
            i # j => Blocks(fs.dinode[i]) \cap Blocks(fs.dinode[j]) = {}
        /\ \A i \in Inum : fs.dinode[i].type # "none" /\ fs.dinode[i].nlink = 0
                              => fs.ref[i] > 0

\* The copy in the cache of an inode that nobody has locked is the one on the
\* disk, so that a call that locks it next sees what the last one did.
CacheCoherent ==
    \A i \in Inum : fs.valid[i] /\ ~fs.busy[i] => fs.inode[i] = fs.dinode[i]

-----------------------------------------------------------------------------
(* A process gets on with its call; SF because it may have to wait for an    *)
(* inode that others lock and unlock.                                        *)
FairSpec == Spec /\ \A p \in Proc : SF_vars(Inside(p))

\* Every call returns, unless the kernel panics: the locks on a directory and on
\* what is in it never wait for each other, also while inodes are freed and
\* allocated again.
CallsReturn ==
    \A p \in Proc : L[p].pc # "idle" ~> L[p].pc = "idle" \/ fs.panic # ""

=============================================================================
