-------------------------------- MODULE MCFs --------------------------------
(***************************************************************************)
(* Two processes on a disk of four inodes and five blocks, with an inode   *)
(* cache of three or four entries; each workload is what the two may call, *)
(* in any order and any number of times.                                   *)
(***************************************************************************)
EXTENDS Fs

CONSTANTS p1, p2

Abs(elems) == [abs |-> TRUE, elems |-> elems]
Rel(elems) == [abs |-> FALSE, elems |-> elems]

Creat(path) == [op |-> "open", path |-> path, create |-> TRUE, rdonly |-> FALSE]
OpenRd(path) == [op |-> "open", path |-> path, create |-> FALSE, rdonly |-> TRUE]
OpenWr(path) == [op |-> "open", path |-> path, create |-> FALSE, rdonly |-> FALSE]
On(op, path) == [op |-> op, path |-> path]
Link(path, new) == [op |-> "link", path |-> path, new |-> new]
Do(op) == [op |-> op]

Two(n, a, b) == [ninode |-> n, calls |-> (p1 :> a) @@ (p2 :> b)]

\* Links to one file, made and removed by both.
Linking ==
    Two(4, {Do("fork"), On("mknod", Abs(<<"a">>)), On("unlink", Abs(<<"b">>))},
           {On("unlink", Abs(<<"a">>)), Link(Abs(<<"a">>), Abs(<<"b">>)),
            Link(Rel(<<"b">>), Rel(<<"a", "b">>)), Do("exit")})

\* A directory that comes and goes, or stays because it is not empty, while the
\* other looks it up.
Removing ==
    Two(3, {Do("fork"), On("mkdir", Abs(<<"a">>)), On("unlink", Abs(<<"a">>)),
            On("mknod", Abs(<<"a", "b">>))},
           {On("chdir", Rel(<<"a">>)), On("chdir", Rel(<<"..">>)),
            OpenWr(Rel(<<"a">>)), Do("exit")})

\* Files and directories in a directory that stays.
Nesting ==
    Two(4, {Do("fork"), On("mkdir", Abs(<<"a">>)), On("mknod", Abs(<<"a", "b">>)),
            On("unlink", Abs(<<"a", "b">>))},
           {On("mkdir", Abs(<<"a", "b">>)), On("unlink", Abs(<<"a", "b">>)),
            OpenRd(Abs(<<"a">>)), Do("close"), Do("exit")})

\* Files that both have open are written, and unlinked while they are open.
Writing ==
    Two(3, {Do("fork"), Creat(Abs(<<"a">>)), On("unlink", Abs(<<"a">>))},
           {Do("write"), Do("read"), OpenWr(Abs(<<"a">>)), Do("exit")})

\* Files that are shared by dup() and fork(), and closed by both.
Sharing ==
    Two(3, {Do("fork"), Creat(Abs(<<"a">>)), Do("dup"), Do("close")},
           {On("unlink", Abs(<<"a">>)), Do("close"), Do("fstat"), Do("exit")})

\* A process in a directory that is removed, and its parent after it.
Leaving ==
    Two(3, {Do("fork"), On("mkdir", Abs(<<"a">>)), On("mkdir", Abs(<<"a", "b">>)),
            On("unlink", Abs(<<"a", "b">>)), On("unlink", Abs(<<"a">>))},
           {On("chdir", Rel(<<"a", "b">>)), On("chdir", Rel(<<"..">>)), Do("exit")})

\* A file made in a directory that the other process removes.
Rmdir ==
    Two(4, {Do("fork"), On("mkdir", Abs(<<"a">>)), On("unlink", Abs(<<"a">>))},
           {On("mknod", Abs(<<"a", "b">>))})

RmdirWorkload == {Rmdir}

MCWorkloads == {Linking, Removing, Nesting, Writing, Sharing, Leaving}
=============================================================================
