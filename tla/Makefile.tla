------------------------------- MODULE Makefile -------------------------------
(***************************************************************************)
(* parmake before its workers start: the command line, the parser          *)
(* (parser.c), which reads a makefile line by line into dependency_graph   *)
(* and the rules, and then the loop over the goals of ParMake.             *)
(*                                                                         *)
(* A line is a sequence of tokens: a tab, names, punctuation.  How names   *)
(* are spelt and where there are spaces is left out.                       *)
(***************************************************************************)
EXTENDS ParMake, SequencesExt

CONSTANTS Sources,  \* bound: [lines, max], the lines a file has, and how many
          TAB, COLON, HASH, QUOTE, BACKSLASH

VARIABLES source,   \* the one of Sources this file is made of
          text,     \* the lines read
          parse     \* what the parser keeps: status, vertices (of the graph),
                    \* first_target, curr_rule, in_command_block, commands

makefileVars == <<source, text, parse>>

------------------------------------------------------------------------------
(* The command line: -f and -j, and the makefiles there are.                *)

\* The makefile that is opened: the one -f names, or one of the usual names.
MakefileName(f, files) ==
  CASE f # NULL -> f
    [] f = NULL /\ "makefile" \in files -> "makefile"
    [] f = NULL /\ "makefile" \notin files /\ "Makefile" \in files -> "Makefile"
    [] OTHER -> NULL

\* exit(2): no makefile, or one that cannot be opened.
OpenMakefile(name, files) ==
  parse' = [parse EXCEPT !.status = IF name \in files THEN "reading" ELSE "exit 2"]

\* parse_args: -j wants a positive number.
CommandLine(f, j, files) ==
  /\ parse.status = "start"
  /\ IF j < 1 THEN parse' = [parse EXCEPT !.status = "exit 2"]
              ELSE OpenMakefile(MakefileName(f, files), files)
  /\ UNCHANGED <<vars, source, text>>

------------------------------------------------------------------------------
(* Lines.                                                                   *)

\* An odd number of quotes before position n, not counting what follows a
\* backslash.
in_quotes(line, n) ==
  FoldLeft(LAMBDA at, t : CASE at.skip -> [at EXCEPT !.skip = FALSE]
                            [] ~at.skip /\ t = BACKSLASH -> [at EXCEPT !.skip = TRUE]
                            [] ~at.skip /\ t = QUOTE -> [at EXCEPT !.quoted = ~@]
                            [] OTHER -> at,
           [skip |-> FALSE, quoted |-> FALSE], SubSeq(line, 1, n - 1)).quoted

strip_back_comments(line) ==
  LET comments == {i \in DOMAIN line : line[i] = HASH /\ ~in_quotes(line, i)}
  IN IF comments = {} THEN line
     ELSE SubSeq(line, 1, (CHOOSE i \in comments : \A k \in comments : i <= k) - 1)

Indented(line) == line # <<>> /\ Head(line) = TAB
\* What is left of a line without its tab and its comment: the whitespace
\* around it is stripped.
Content(line) == strip_back_comments(IF Indented(line) THEN Tail(line) ELSE line)

is_makefile_target(content) == content # <<>> /\ Head(content) \in Target
HasSeparator(content) == \E i \in DOMAIN content : content[i] = COLON
\* The tokens after the colon.
Dependencies(content) ==
  LET i == CHOOSE i \in DOMAIN content : content[i] = COLON
  IN ToSet(SubSeq(content, i + 1, Len(content)))

------------------------------------------------------------------------------
(* The loop over the lines.                                                 *)

Line(line) ==
  /\ parse.status = "reading" /\ Len(text) < source.max
  /\ text' = Append(text, line)
  /\ UNCHANGED <<source, goals, fails, mtime, clock, data, locked, queue, slots, size, mutex, main,
                 local, crashed, history>>

Blank(line) ==
  /\ Line(line)
  /\ Content(line) = <<>>
  /\ UNCHANGED <<deps, state, parse>>

\* Mutation: a second recipe of a rule is added to the first.
Overridden_Kept(t) == parse.commands[t]
\* A rule with a line number in its state has commands: a new block of them
\* overrides the old one.
Overridden(t) == IF ~parse.in_command_block /\ state[t] # 0 THEN <<>> ELSE parse.commands[t]

RecipeLine(line) ==
  /\ Line(line)
  /\ Indented(line) /\ Content(line) # <<>> /\ parse.curr_rule # NULL
  /\ LET t == parse.curr_rule
     IN /\ state' = IF parse.in_command_block THEN state
                    ELSE [state EXCEPT ![t] = Len(text')]
        /\ parse' = [parse EXCEPT !.in_command_block = TRUE,
                                  !.commands[t] = Append(Overridden(t), Content(line))]
  /\ UNCHANGED deps

TargetLine(line) ==
  /\ Line(line)
  /\ ~Indented(line) /\ is_makefile_target(Content(line)) /\ HasSeparator(Content(line))
  /\ LET t == Head(Content(line))
         on == Dependencies(Content(line))
     IN /\ deps' = [deps EXCEPT ![t] = @ \cup on]
        /\ parse' = [parse EXCEPT !.in_command_block = FALSE,
                                  !.curr_rule = t,
                                  !.vertices = @ \cup {t} \cup on,
                                  !.first_target = IF @ = NULL /\ t \notin parse.vertices
                                                   THEN t ELSE @]
  /\ UNCHANGED state

\* exit(2): a recipe before the first target, or no separator.
StopAtLine(line) ==
  /\ Line(line)
  /\ Content(line) # <<>>
  /\ IF Indented(line) THEN parse.curr_rule = NULL
     ELSE ~(is_makefile_target(Content(line)) /\ HasSeparator(Content(line)))
  /\ parse' = [parse EXCEPT !.status = "exit 2"]
  /\ UNCHANGED <<deps, state>>

------------------------------------------------------------------------------
(* The goals.                                                               *)

EndOfFile ==
  /\ parse.status = "reading"
  /\ UNCHANGED <<source, text, deps, fails, mtime, clock, data, queue, slots, size, mutex, main,
                 local, crashed, history>>

\* Line numbers leave the states, which parmake() uses for something else.
ZeroStates == [t \in Target |-> 0]

\* The goals of the command line, or the first target.
Wanted(argv) == IF argv = <<>> THEN <<parse.first_target>> ELSE argv
Parsed(argv) ==
  /\ EndOfFile
  /\ ToSet(Wanted(argv)) \subseteq parse.vertices
  /\ goals' = Wanted(argv)
  /\ locked' = [i \in DOMAIN Wanted(argv) |-> FALSE]
  /\ state' = ZeroStates
  /\ parse' = [parse EXCEPT !.status = "parsed"]

\* exit(2) without a target at all, exit(1) without a rule for a goal.
NoRule(argv) ==
  /\ EndOfFile
  /\ ~(ToSet(Wanted(argv)) \subseteq parse.vertices)
  /\ parse' = [parse EXCEPT !.status = IF Wanted(argv) = <<NULL>> THEN "exit 2" ELSE "exit 1"]
  /\ UNCHANGED <<goals, locked, state>>

GoalLoop ==
  /\ parse.status = "parsed"
  /\ RejectGoal \/ AcceptGoal
  /\ UNCHANGED makefileVars

MakefileInit ==
  /\ Init
  /\ source \in Sources
  /\ text = <<>>
  /\ parse = [status |-> "start", vertices |-> {}, first_target |-> NULL, curr_rule |-> NULL,
              in_command_block |-> FALSE, commands |-> [t \in Target |-> <<>>]]

Files == {"makefile", "Makefile", "other"}
MakefileNext ==
  \/ \E f \in {NULL, "other"}, j \in {0, 1}, files \in SUBSET Files : CommandLine(f, j, files)
  \/ \E line \in source.lines : Blank(line) \/ RecipeLine(line) \/ TargetLine(line)
                                \/ StopAtLine(line)
  \/ \E argv \in GoalLists : Parsed(argv) \/ NoRule(argv)
  \/ GoalLoop

MakefileSpec == MakefileInit /\ [][MakefileNext]_<<vars, makefileVars>>
=============================================================================
