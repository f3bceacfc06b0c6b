------------------------------- MODULE MC_Tools -------------------------------
(***************************************************************************)
(* The programs that run once and alone, side by side for TLC: the parser  *)
(* of parmake with its goal loop, parmake with one worker, the file        *)
(* client, par_reduce and the path walk of fakefs.  They share nothing;    *)
(* each behaviour is one of them.                                          *)
(***************************************************************************)
EXTENDS MakefileProperties, MC_ParMake, FileClientProperties, ParReduceProperties, RealPathProperties

CONSTANTS x, y

VARIABLE tool

Tools == {"makefile", "parmake", "client", "reduce", "path"}

------------------------------------------------------------------------------
\* Makefiles of at most three target lines with any dependencies among three
\* targets, longer ones of a few lines, and others with every kind of line.
MCTargetLines == {<<t, COLON>> \o on : t \in {a, b, c},
                                       on \in {<<>>, <<a>>, <<b>>, <<c>>, <<b, c>>, <<a, c>>, <<a, b>>}}
MCFewLines == {<<a, COLON>>, <<b, COLON, a, HASH, b>>, <<TAB, x>>, <<TAB, y, HASH, x>>, <<>>}
MCAllLines == MCFewLines \cup
  {<<TAB, QUOTE, HASH, QUOTE, x>>, <<TAB, BACKSLASH, QUOTE, HASH, x>>, <<TAB, HASH, x>>, <<HASH, x>>,
   <<x>>, <<a, b>>}
MCSources == {[lines |-> MCTargetLines, max |-> 3], [lines |-> MCFewLines, max |-> 5],
              [lines |-> MCAllLines, max |-> 4]}

MCArgv == MCTwoGoals \cup {<<>>, <<a, b, c>>, <<b, a, b>>}

\* Uploads of nothing, of one and of two buffers, of a file that has grown or
\* shrunk since stat(), and of one that is not there.
Request(verb, name, file) == [verb |-> verb, name |-> name, file |-> file]
MCUploads == {Missing, File(0, <<>>), File(2, <<x, y>>), File(3, <<x, y, x>>),
            File(2, <<x, y, x>>), File(1, <<x, y>>), File(3, <<x, y>>)}
MCCommands == {Request(v, n, Missing) : v \in {"LIST", "GET", "DELETE", "COPY"}, n \in {"", "f"}}
                \cup {Request("PUT", "f", file) : file \in MCUploads}
MCStores == {Missing, <<>>, <<x, y, x>>}
MCBlock == {x, y}

------------------------------------------------------------------------------
\* A program that does not run stays where it starts.
MakefileIdles ==
  /\ source = [lines |-> MCTargetLines, max |-> 3]
  /\ MakefileInit
NothingToMake ==
  /\ deps = Edges({}, {}, {}, {}) /\ goals = <<>> /\ fails = {}
  /\ mtime = [t \in Target |-> 0]
ClientIdles ==
  /\ command = Request("LIST", "", Missing) /\ stored = Missing
  /\ ClientInit
ReduceIdles ==
  /\ argv = [reducer |-> "add", list_len |-> 1, num_threads |-> 1]
  /\ ReduceInit

ToolsInit ==
  /\ tool \in Tools
  /\ IF tool = "parmake" THEN goals \in MCTwoGoals ELSE NothingToMake
  /\ IF tool = "makefile" THEN MakefileInit ELSE MakefileIdles
  /\ IF tool = "client" THEN ClientInit ELSE ClientIdles
  /\ IF tool = "reduce" THEN ReduceInit ELSE ReduceIdles
  /\ PathInit

toolVars == <<vars, makefileVars, clientVars, reduceVars, pathVars, tool>>

ToolsNext ==
  /\ UNCHANGED tool
  /\ \/ tool = "makefile" /\ MakefileNext /\ UNCHANGED <<clientVars, reduceVars, pathVars>>
     \/ tool = "parmake" /\ Next /\ UNCHANGED <<makefileVars, clientVars, reduceVars, pathVars>>
     \/ tool = "client" /\ ClientNext /\ UNCHANGED <<vars, makefileVars, reduceVars, pathVars>>
     \/ tool = "reduce" /\ ReduceNext /\ UNCHANGED <<vars, makefileVars, clientVars, pathVars>>
     \/ tool = "path" /\ PathNext /\ UNCHANGED <<vars, makefileVars, clientVars, reduceVars>>

\* The fairness of ParMake and of FileClient, each for its own behaviours.
ToolsSpec == /\ ToolsInit /\ [][ToolsNext]_toolVars
             /\ WF_vars(tool = "parmake" /\ Main)
             /\ \A w \in Worker : WF_vars(tool = "parmake" /\ Work(w))
             /\ WF_clientVars(tool = "client" /\ Client)
             /\ WF_clientVars(tool = "client" /\ Peer)
=============================================================================
