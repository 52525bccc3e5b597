----------------------------- MODULE Utilities ------------------------------
(***************************************************************************)
(* Programs whose result is a function of their input, run once each: the  *)
(* shell's parser, grep, tail, the merging of lists, and mkfs.             *)
(***************************************************************************)
EXTENDS ShellParser, Grep, TailText, Lists, Mkfs

VARIABLE job   \* the program, its input and, once it has run, <<result>>

Jobs(name, inputs) == {[name |-> name, in |-> i, out |-> <<>>] : i \in inputs}

Ready(name) == job.name = name /\ job.out = <<>>
Result(r) == job' = [job EXCEPT !.out = <<r>>]

\* Any line, and the line that a command is written as.
run_parsecmd == Ready("parse") /\ Result(parsecmd(job.in))
run_written == Ready("written") /\ Result(parsecmd(Text(job.in)))
run_match == Ready("match") /\ Result(match(job.in.re, job.in.text))
run_grep == Ready("grep") /\ Result(grep(job.in, 0, <<>>))
run_tail == Ready("tail") /\ Result(tail(job.in))
run_merge ==
    LET s == Split(job.in)
    IN  Ready("merge") /\ Result(IF s.ok THEN mergeLists(s.l1, s.l2) ELSE <<>>)
run_mkfs == Ready("mkfs") /\ Result(mkfs(job.in))

UtilitiesNext ==
    \/ run_parsecmd \/ run_written \/ run_match \/ run_grep \/ run_tail
    \/ run_merge \/ run_mkfs

Ran(name) == job.name = name /\ job.out # <<>>
Out == job.out[1]

-----------------------------------------------------------------------------
\* Every command of the shell's language can be written, and parsecmd() reads
\* from that line the same command: precedence, grouping and the order of
\* redirections are as the grammar says.
ParsesWhatIsWritten ==
    Ran("written") => Out.ok /\ Out.cmd = job.in

\* A line that is accepted is accepted whole: each word, operator and
\* redirection of it is in the command.
NothingIgnored ==
    (Ran("parse") /\ Out.ok) =>
        \A t \in (Symbols \cup {"a"}) \ {"(", ")"} :
            Occurrences(job.in, t) = Occurrences(Text(Out.cmd), t)

\* parsecmd() reads the shell's language, no less and no more.
ParserCorrect == ParsesWhatIsWritten /\ NothingIgnored

\* The backtracking matcher finds a match exactly when the text has a part
\* that can be divided among the items of the pattern.
MatchIsDenotation ==
    Ran("match") => Out = Denotes(job.in.re, job.in.text)

\* grep prints the lines that match, in order, if a line and its newline fit in
\* the buffer and if the reads that are short end where a line ends: those of a
\* file, which are never short before its end, and those of the console without a
\* ^D in the line.  What a pipe delivers in the middle of a line, with no newline
\* in the buffer, is dropped, and the rest of the line is then taken for the line.
GrepPrintsLines ==
    LET lines == EndedLines(job.in.file)
    IN  /\ Ran("grep")
        /\ \A i \in DOMAIN lines : Len(lines[i]) + 1 < GREPBUF
        /\ \A c \in job.in.cuts \cap DOMAIN job.in.file : job.in.file[c] = "nl"
        => Out = Matching(job.in.re, lines)

\* tail prints the ended lines of the part of the file that its options ask for,
\* if nothing went past a buffer, startLine, which is not initialised, happens to
\* be 0, and no longer file "destroy" was there to show through.  Two requests are
\* left out because tail prints nothing for them: -n +1, which it takes for -n 0,
\* and -c k of a file with fewer characters.
TailPrintsEnd ==
    LET o == job.in.opts
    IN  /\ Ran("tail") /\ ~Out.over
        /\ job.in.start = 0 /\ Len(job.in.old) <= Len(job.in.file)
        /\ o # [opt |-> "n", plus |-> TRUE, val |-> 1]
        /\ (o.opt = "c" /\ ~o.plus) => o.val <= Len(job.in.file)
        => Out.out = TailOf(job.in.file, o)

\* Nothing is stored past the end of the line's buffer, which doubles, nor of
\* buf2, unless startLine started beyond it or -c +k skips more than its size.
TailFits ==
    (Ran("tail") /\ job.in.start <= LINEBUF
                 /\ (job.in.opts.opt = "c" /\ job.in.opts.plus =>
                        job.in.opts.val <= LINEBUF + 1))
        => ~Out.over

\* Merging keeps every element of both lists, and the order if both are in
\* order.
MergeKeepsAll ==
    Ran("merge") =>
        LET s == Split(job.in)
        IN  s.ok => /\ \A x \in 0..2 :
                          Count(Out, x) = Count(s.l1, x) + Count(s.l2, x)
                    /\ Sorted(s.l1) /\ Sorted(s.l2) => Sorted(Out)

\* An image that mkfs finishes is consistent: the bitmap, the inodes and the
\* sizes agree, and no block has two uses.
ImageConsistent ==
    (Ran("mkfs") /\ ~Out.failed) => Consistent(Out, job.in)

\* Each program's result is the one that its reference defines.
ResultsRight ==
    /\ MatchIsDenotation /\ GrepPrintsLines
    /\ TailPrintsEnd /\ TailFits
    /\ MergeKeepsAll /\ ImageConsistent

=============================================================================
