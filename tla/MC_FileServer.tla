---------------------------- MODULE MC_FileServer ----------------------------
(***************************************************************************)
(* Instances of the file server for TLC.                                   *)
(***************************************************************************)
EXTENDS FileServerProperties

CONSTANTS c1, c2, c3, n1, n2, f1, f2

MCClient == {c1, c2, c3}
MCTwo == {c1, c2}
MCName == {n1, n2}
MCOneName == {n1}
MCFd == {f1, f2}

Put(n, s, b) == [verb |-> "PUT", name |-> n, size |-> s, blocks |-> b]
Ask(v, n) == [verb |-> v, name |-> n, size |-> 0, blocks |-> 0]

\* Uploads with the blocks they announce, one too few and one too many, of one
\* file, of two and of an empty one, and requests too short or unknown.  The
\* first client may be reset: an upload it leaves behind is as long as was
\* announced when the short request is added to its first block.
Ask3(p, q, r) == [c \in MCClient |-> IF c = c1 THEN p ELSE IF c = c2 THEN q ELSE r]
MCRequests ==
  {Ask3(Put(n1, 2, 2), Put(n1, 1, 1), Ask("GET", n1)),
   Ask3(Put(n1, 2, 1), Ask("SHORT", NULL), Ask("LIST", NULL)),
   Ask3(Put(n1, 1, 2), Put(n2, 0, 0), Ask("DELETE", n1)),
   Ask3(Ask("GET", n1), Put(n1, 1, 1), Ask("DELETE", n1)),
   Ask3(Put(n1, 0, 0), Ask("OTHER", NULL), Ask("GET", n1))}
MCResets == {c1}
MCDeaf == {c1, c3}
\* The first request is cut anywhere, the others in the places that matter most.
MCCuts == [c \in MCClient |-> IF c = c1 THEN {1, 2, 3, 5} ELSE IF c = c2 THEN {4} ELSE {}]
MCAnyCut == [c \in MCTwo |-> 1 .. 5]
MCUploads == {[c \in MCTwo |-> IF c = c1 THEN p ELSE q] : p \in {Put(n1, 1, 1)}, q \in {Put(n1, 2, 1)}}
=============================================================================
