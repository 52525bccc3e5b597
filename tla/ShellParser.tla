---------------------------- MODULE ShellParser -----------------------------
(***************************************************************************)
(* The shell's parser (sh.c).  A line is a sequence of characters: blanks  *)
(* " ", symbols, and letters that make words.  A command is                *)
(*     <<"EXEC", words>>, <<"REDIR", command, fd>>, <<"PIPE", left, right>>, *)
(*     <<"LIST", left, right>> or <<"BACK", command>>;                     *)
(* a parsing function returns a command and what is left of the line, or   *)
(* the Panic that ends the shell's child.                                  *)
(***************************************************************************)
EXTENDS Naturals, Sequences, SequencesExt

CONSTANT MAXARGS   \* one more than the words of a command

Letters == {"w", "f"}
Symbols == {"<", ">", "|", "&", ";", "(", ")"}

Panic == [ok |-> FALSE, cmd |-> <<>>, s |-> <<>>]
Parsed(cmd, s) == [ok |-> TRUE, cmd |-> cmd, s |-> s]

RECURSIVE SkipBlanks(_)
SkipBlanks(s) == IF s # <<>> /\ Head(s) = " " THEN SkipBlanks(Tail(s)) ELSE s

RECURSIVE SkipWord(_)
SkipWord(s) == IF s # <<>> /\ Head(s) \in Letters
               THEN SkipWord(Tail(s)) ELSE s

\* gettoken(): "" at the end of the line, "+" for >>, "a" for a word.
gettoken(line) ==
    LET s == SkipBlanks(line)
        two == Len(s) > 1 /\ s[1] = ">" /\ s[2] = ">"
        tok == IF s = <<>> THEN "" ELSE IF two THEN "+"
               ELSE IF Head(s) \in Symbols THEN Head(s) ELSE "a"
        rest == CASE tok = "" -> s [] tok = "a" -> SkipWord(s)
                  [] two -> SubSeq(s, 3, Len(s)) [] OTHER -> Tail(s)
    IN  [tok |-> tok, text |-> SubSeq(s, 1, Len(s) - Len(rest)),
         s |-> SkipBlanks(rest)]

peek(line, toks) ==
    LET s == SkipBlanks(line) IN s # <<>> /\ Head(s) \in toks

Skip(line) == gettoken(line).s

RECURSIVE parseredirs(_)
parseredirs(p) ==
    LET redirection == gettoken(p.s)
        file == gettoken(redirection.s)
    IN  IF ~p.ok \/ ~peek(p.s, {"<", ">"}) THEN p
        ELSE IF file.tok # "a" THEN Panic
        ELSE parseredirs(Parsed(
                <<"REDIR", p.cmd, IF redirection.tok = "<" THEN 0 ELSE 1>>, file.s))

\* A word joins the command at the bottom of its redirections.
RECURSIVE AddWord(_, _)
AddWord(c, w) == IF c[1] = "EXEC" THEN <<"EXEC", Append(c[2], w)>>
                 ELSE <<"REDIR", AddWord(c[2], w), c[3]>>

\* parseexec()'s loop over the words, argc of them so far.
RECURSIVE Words(_, _)
Words(p, argc) ==
    LET t == gettoken(p.s)
    IN  IF ~p.ok \/ peek(p.s, {"|", ")", "&", ";"}) \/ t.tok = "" THEN p
        ELSE IF t.tok # "a" \/ argc + 1 >= MAXARGS THEN Panic
        ELSE Words(parseredirs(Parsed(AddWord(p.cmd, t.text), t.s)), argc + 1)

RECURSIVE Backs(_)
Backs(p) == IF p.ok /\ peek(p.s, {"&"})
            THEN Backs(Parsed(<<"BACK", p.cmd>>, Skip(p.s))) ELSE p

\* The right-hand side of an operator, joined with the left-hand side.
Joined(type, left, right) ==
    IF right.ok THEN Parsed(<<type, left, right.cmd>>, right.s) ELSE Panic

\* Variant: the right-hand side of a pipe is a single command.
AfterBar_one == "exec"

\* What parsepipe() parses after a bar: another pipe.
AfterBar == "pipe"

\* parseline(), parsepipe(), and parseexec() with parseblock().
Parse[x \in {"line", "pipe", "exec"} \X Seq(Letters \cup Symbols \cup {" "})] ==
    CASE x[1] = "line" ->
           LET p == Backs(Parse[<<"pipe", x[2]>>])
           IN  IF p.ok /\ peek(p.s, {";"})
               THEN Joined("LIST", p.cmd, Parse[<<"line", Skip(p.s)>>]) ELSE p
      [] x[1] = "pipe" ->
           LET p == Parse[<<"exec", x[2]>>]
           IN  IF p.ok /\ peek(p.s, {"|"})
               THEN Joined("PIPE", p.cmd, Parse[<<AfterBar, Skip(p.s)>>]) ELSE p
      [] x[1] = "exec" ->
           IF ~peek(x[2], {"("})
           THEN Words(parseredirs(Parsed(<<"EXEC", <<>>>>, x[2])), 0)
           ELSE LET p == Parse[<<"line", Skip(x[2])>>]
                IN  IF ~p.ok \/ ~peek(p.s, {")"}) THEN Panic
                    ELSE parseredirs(Parsed(p.cmd, Skip(p.s)))

parseline(s) == Parse[<<"line", s>>]

\* Variant: what follows the command is ignored.
parsecmd_leftovers(s) ==
    LET p == parseline(s) IN IF p.ok THEN Parsed(p.cmd, <<>>) ELSE Panic

\* parsecmd(): the whole line must be a command.
parsecmd(s) ==
    LET p == parseline(s)
    IN  IF p.ok /\ SkipBlanks(p.s) = <<>> THEN Parsed(p.cmd, <<>>) ELSE Panic

-----------------------------------------------------------------------------
(***************************************************************************)
(* The reference: how a command is written.                                *)
(***************************************************************************)
Parens(w) == <<"(">> \o w \o <<")">>

RECURSIVE Text(_)

\* c written as an operand, in parentheses unless its type is one of types.
Operand(c, types) == IF c[1] \in types THEN Text(c) ELSE Parens(Text(c))

RECURSIVE OnExec(_)
OnExec(c) == c[1] = "EXEC" \/ (c[1] = "REDIR" /\ OnExec(c[2]))

RECURSIVE Blanked(_)
Blanked(ws) == IF ws = <<>> THEN <<>> ELSE Head(ws) \o <<" ">> \o Blanked(Tail(ws))

Text(c) ==
    CASE c[1] = "EXEC"  -> Blanked(c[2])
      [] c[1] = "REDIR" -> Operand(c[2], {"EXEC", "REDIR"})
                             \o <<IF c[3] = 0 THEN "<" ELSE ">", "f">>
      [] c[1] = "PIPE"  -> Operand(c[2], {"EXEC", "REDIR"}) \o <<"|">>
                             \o Operand(c[3], {"EXEC", "REDIR", "PIPE"})
      [] c[1] = "BACK"  -> Operand(c[2], {"EXEC", "REDIR", "PIPE", "BACK"}) \o <<"&">>
      [] c[1] = "LIST"  -> Operand(c[2], {"EXEC", "REDIR", "PIPE", "BACK"}) \o <<";">>
                             \o Text(c[3])

\* The commands of at most depth n.
RECURSIVE Trees(_)
Trees(n) ==
    IF n = 0 THEN {<<"EXEC", <<>>>>, <<"EXEC", <<<<"w">>>>>>}
    ELSE LET T == Trees(n - 1)
         IN  T \cup {<<"REDIR", c, fd>> : c \in T, fd \in {0, 1}}
               \cup {<<"PIPE", l, r>> : l \in T, r \in T}
               \cup {<<"LIST", l, r>> : l \in T, r \in T}
               \cup {<<"BACK", c>> : c \in T}

\* The tokens of a line, and how often each occurs; >> counts as >.
RECURSIVE Tokens(_)
Tokens(s) ==
    LET t == gettoken(s)
    IN  IF t.tok = "" THEN <<>>
        ELSE <<IF t.tok = "+" THEN ">" ELSE t.tok>> \o Tokens(t.s)

Occurrences(s, t) == Len(SelectSeq(Tokens(s), LAMBDA x : x = t))

=============================================================================
