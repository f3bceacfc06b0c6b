-------------------------- MODULE RealPathProperties --------------------------
(***************************************************************************)
(* The normal form of a path, component by component.                      *)
(***************************************************************************)
EXTENDS RealPath

\* The names of a path, dots included, in order.
Components(path) ==
  FoldLeft(LAMBDA done, c : IF c = SLASH THEN Append(done, <<>>)
                            ELSE Append(Front(done), Append(Last(done), c)),
           << <<>> >>, path)

\* [names, depth] after one more component.
Enters(at, name) ==
  CASE name \in {<<>>, <<DOT>>} -> at
    [] name = <<DOT, DOT>> /\ at.names # <<>> -> [at EXCEPT !.names = Front(@)]
    [] name = <<DOT, DOT>> /\ at.names = <<>> /\ at.depth > 1 -> [at EXCEPT !.depth = @ - 1]
    [] name = <<DOT, DOT>> /\ at.names = <<>> /\ at.depth <= 1 -> at
    [] OTHER -> [at EXCEPT !.names = Append(@, name)]

NormalForm == FoldLeft(Enters, [names |-> <<>>, depth |-> MaxDepth], Components(orig_v_path))
Joined(names) ==
  IF names = <<>> THEN <<SLASH>>
  ELSE FoldLeft(LAMBDA s, name : s \o <<SLASH>> \o name, <<>>, names)

\* fakefs_utils.c:48: what the array holds at the end is the path in normal
\* form, with no character of a name that ".." has taken back, however names
\* of different lengths are written over each other; and what climbs above the
\* root of the disk shortens the path of its file instead.
RealPathIsNormal ==
  walk = "done" => /\ Str(v_path) = Joined(NormalForm.names)
                   /\ resolved = NormalForm.depth
=============================================================================
