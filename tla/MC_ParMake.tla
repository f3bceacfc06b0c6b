------------------------------ MODULE MC_ParMake ------------------------------
(***************************************************************************)
(* Instances of parmake for TLC.                                           *)
(***************************************************************************)
EXTENDS ParMakeProperties, TLC

CONSTANTS a, b, c, d, w1, w2

MC3 == {a, b, c}
MC4 == {a, b, c, d}
MCOne == {w1}
MCTwo == {w1, w2}
MCWorkers == Permutations(Worker)

Edges(x, y, z, u) == a :> x @@ b :> y @@ c :> z @@ d :> u

\* Two goals over shared dependencies, which may depend on one another.
MCShared == {Edges(x, y, z, {}) : x \in SUBSET {c, d}, y \in SUBSET {c, d}, z \in SUBSET {d}}
MCTwoGoals == {<<a>>, <<a, b>>, <<b, a>>}

\* samples/test7, a diamond, and test12 with a second dependency.
MCDiamond == {Edges({b, c}, {d}, {d}, {})}
MCThree == {a :> {b, c} @@ b :> {c} @@ c :> {}, a :> {b, c} @@ b :> {} @@ c :> {}}
MCChain == {a :> {b} @@ b :> {} @@ c :> {}}
MCGoalA == {<<a>>}
\* b is a goal and a dependency of a.
MCGoalIsDependency == {<<a>>, <<a, b>>, <<b, a>>}

MCNoneFails == {{}}
MCMiddleOrLeafFails == {{}, {b}, {c}}
MCSomeFail == {{}, {c}, {d}}
MCBottomFails == {{d}}

MCNoFiles == {[t \in Target |-> -1]}
MCNoneOrAll == MCNoFiles \cup {[t \in Target |-> 0]}
\* No file yet, every file as old as the others, or one that is newer.
MCOldFiles ==
  MCNoFiles \cup {[t \in Target |-> IF t = n THEN 1 ELSE 0] : n \in Target}
            \cup {[t \in Target |-> IF t = n THEN -1 ELSE 0] : n \in Target}
            \cup {[t \in Target |-> 0]}
\* c is a phony rule: its commands write no file.
MCFiles == Target \ {c}
\* Of the times only what comes before what is ever compared, and which files
\* were written in the current second.
MCTimes == [t \in Target |-> {u \in Target : mtime[u] < mtime[t]}]
MCNow == {t \in Target : mtime[t] = clock}
MCNoFile == {t \in Target : mtime[t] = -1}
\* What a worker at the queue left behind of its last target is never read.
MCHand(w) ==
  IF pc[w] \in {"none", "pull", "lock", "drain", "exit"} THEN pc[w]
  ELSE <<pc[w], target[w], todo[w], dep[w], seen[w], back[w], failed[w], slot[w]>>
MCView == <<inputs, MCTimes, MCNow, MCNoFile, state, data, locked, queue, slots, size, mutex,
            main, [w \in Worker |-> MCHand(w)], crashed, history>>
MCNoMakes == {}
MCAllMake == Target
=============================================================================
