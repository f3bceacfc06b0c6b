-------------------------- MODULE MakefileProperties --------------------------
(***************************************************************************)
(* What a makefile means, said of the whole file.                          *)
(***************************************************************************)
EXTENDS Makefile, ParMakeProperties

\* What a line shows: up to the first hash outside quotes that are not escaped
\* by an odd number of backslashes.
Escaped(line, i) ==
  LET run == {j \in 1 .. i - 1 : \A k \in j .. i - 1 : line[k] = BACKSLASH}
  IN Cardinality(run) % 2 = 1
Quoted(line, i) ==
  Cardinality({j \in 1 .. i - 1 : line[j] = QUOTE /\ ~Escaped(line, j)}) % 2 = 1
Shown(line) ==
  LET Bare(i) == line[i] = HASH /\ ~Quoted(line, i)
  IN SelectSeq([i \in DOMAIN line |-> IF \E j \in 1 .. i : Bare(j) THEN NULL ELSE line[i]],
               LAMBDA t : t # NULL)

\* The lines that name a target, and the commands below such a line.
Named(t) == {i \in DOMAIN text : LET s == Shown(text[i]) IN s # <<>> /\ Head(s) = t}
Recipe(i) ==
  LET next == {k \in DOMAIN text : k > i /\ \E t \in Target : k \in Named(t)}
      below == {k \in i + 1 .. Len(text) : \A n \in next : k < n}
      Command(s) == IF s = <<>> THEN <<>> ELSE Tail(s)
  IN SelectSeq([k \in 1 .. Cardinality(below) |-> Command(Shown(text[i + k]))],
               LAMBDA command : command # <<>>)

\* parser.c:204: of several recipes for one target the last one counts, whole
\* and alone, blank lines and comments do not end it, and the dependencies of
\* all the lines for a target add up.
MakefileUnderstood ==
  parse.status = "parsed" =>
    \A t \in Target :
      LET with == {i \in Named(t) : Recipe(i) # <<>>}
      IN /\ parse.commands[t] =
              IF with = {} THEN <<>> ELSE Recipe(CHOOSE i \in with : \A k \in with : k <= i)
         /\ deps[t] = UNION {Dependencies(Shown(text[i])) : i \in Named(t)}
=============================================================================
