------------------------------- MODULE RealPath -------------------------------
(***************************************************************************)
(* fakefs_realpath (fakefs_utils.c): the path inside the simulated disk    *)
(* that is left of a pathname when the name of the disk's file has been    *)
(* found in it.  The C code writes the result into an array and goes back  *)
(* in it for "..", so a path is a sequence of characters here.             *)
(***************************************************************************)
EXTENDS Integers, SequencesExt

CONSTANTS Letters,     \* the characters of names other than a dot
          MaxPathname, \* bound: characters of orig_v_path
          MaxDepth     \* components of root_filepath

VARIABLES walk,        \* "open" (not called yet), "loop" or "done"
          orig_v_path, \* what follows the disk's file in the pathname
          curr_idx,
          v_path,      \* index -> character; NUL is the end
          v_idx,
          at_dir_boundry,
          resolved     \* components left of resolved_path

pathVars == <<walk, orig_v_path, curr_idx, v_path, v_idx, at_dir_boundry, resolved>>

SLASH == "/"
DOT == "."
NUL == ""

CharAt(i) == IF i < Len(orig_v_path) THEN orig_v_path[i + 1] ELSE NUL
char_is_end(c) == c = SLASH \/ c = NUL

\* A caller hands over one path or another.
Type(c) ==
  /\ walk = "open" /\ Len(orig_v_path) < MaxPathname
  /\ orig_v_path' = Append(orig_v_path, c)
  /\ UNCHANGED <<walk, curr_idx, v_path, v_idx, at_dir_boundry, resolved>>

\* v_path is calloc'ed, with room for a slash and the end.
Call ==
  /\ walk = "open"
  /\ walk' = "loop"
  /\ v_path' = [i \in 0 .. Len(orig_v_path) + 1 |-> IF i = 0 THEN SLASH ELSE NUL]
  /\ UNCHANGED <<orig_v_path, curr_idx, v_idx, at_dir_boundry, resolved>>

InLoop == walk = "loop" /\ curr_idx < Len(orig_v_path)
IsCurrent == at_dir_boundry /\ CharAt(curr_idx) = DOT /\ char_is_end(CharAt(curr_idx + 1))
IsParent == /\ at_dir_boundry
            /\ CharAt(curr_idx) = DOT /\ CharAt(curr_idx + 1) = DOT
            /\ char_is_end(CharAt(curr_idx + 2))

CurrDir ==
  /\ InLoop /\ IsCurrent
  /\ curr_idx' = curr_idx + 2
  /\ UNCHANGED <<walk, orig_v_path, v_path, v_idx, at_dir_boundry, resolved>>

\* The slash in front of the last name in v_path.
Before == LET slashes == {i \in 0 .. v_idx - 2 : v_path[i] = SLASH}
          IN CHOOSE i \in slashes : \A j \in slashes : j <= i
\* Mutation: v_idx goes back, the characters stay.
Erased_Not == v_path
\* The name is overwritten with zeros, the slash behind it is not.
Erased == [i \in DOMAIN v_path |-> IF Before < i /\ i <= v_idx - 2 THEN NUL ELSE v_path[i]]

\* Above the root of the disk the path of its file gets shorter, down to a
\* path of one component.
ParentDir ==
  /\ InLoop /\ IsParent
  /\ IF v_idx >= 2
     THEN /\ v_path' = Erased
          /\ v_idx' = Before + 1
          /\ UNCHANGED resolved
     ELSE /\ resolved' = IF resolved > 1 THEN resolved - 1 ELSE resolved
          /\ v_idx' = IF v_path[v_idx] = SLASH THEN v_idx + 1 ELSE v_idx
          /\ UNCHANGED v_path
  /\ curr_idx' = curr_idx + 3
  /\ UNCHANGED <<walk, orig_v_path, at_dir_boundry>>

\* Any other character is copied; of several slashes one is.
Copy ==
  /\ InLoop /\ ~IsCurrent /\ ~IsParent
  /\ LET ch == CharAt(curr_idx)
         at == IF ch = SLASH /\ v_idx > 0 /\ v_path[v_idx - 1] = SLASH THEN v_idx - 1 ELSE v_idx
     IN /\ v_path' = [v_path EXCEPT ![at] = ch]
        /\ v_idx' = at + 1
        /\ at_dir_boundry' = (ch = SLASH)
  /\ curr_idx' = curr_idx + 1
  /\ UNCHANGED <<walk, orig_v_path, resolved>>

\* strlen, and the string that a reader of v_path sees.
Length(v) == CHOOSE n \in DOMAIN v : v[n] = NUL /\ \A i \in 0 .. n - 1 : v[i] # NUL
Str(v) == [i \in 1 .. Length(v) |-> v[i - 1]]

\* The slash at the end goes, also one that was left behind by "..".
Trim ==
  /\ walk = "loop" /\ ~InLoop
  /\ walk' = "done"
  /\ LET n == Length(v_path)
     IN v_path' = IF n > 1 /\ v_path[n - 1] = SLASH THEN [v_path EXCEPT ![n - 1] = NUL] ELSE v_path
  /\ UNCHANGED <<orig_v_path, curr_idx, v_idx, at_dir_boundry, resolved>>

PathInit ==
  /\ walk = "open" /\ orig_v_path = <<>>
  /\ curr_idx = 0 /\ v_path = <<>> /\ v_idx = 1 /\ at_dir_boundry = TRUE
  /\ resolved = MaxDepth

PathNext == \/ \E c \in Letters \cup {SLASH, DOT} : Type(c)
            \/ Call \/ CurrDir \/ ParentDir \/ Copy \/ Trim

PathSpec == PathInit /\ [][PathNext]_pathVars
=============================================================================
