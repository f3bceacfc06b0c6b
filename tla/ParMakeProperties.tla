-------------------------- MODULE ParMakeProperties --------------------------
(***************************************************************************)
(* What a parallel make promises about the graph it walks.                 *)
(***************************************************************************)
EXTENDS ParMake

\* The rules a rule depends on, itself included: the least set that has it and
\* what its members depend on.
Closed(S) == \A u \in S : deps[u] \subseteq S
Below(t) == {u \in Target : \A S \in SUBSET Target : t \in S /\ Closed(S) => u \in S}
OnCycle(u) == \E d \in deps[u] : u \in Below(d)
Cyclic(t) == \E u \in Below(t) : OnCycle(u)

\* hasCycle rejects exactly the goals that reach a cycle, whatever the goals
\* before left in visited, which it does not clean up when it answers 1.
RejectsExactlyCycles ==
  main.pc = "goals" => \A i \in 1 .. main.i - 1 : goals[i] \in accepted <=> ~Cyclic(goals[i])

Running(w) == pc[w] = "running"

\* A rule runs, or is found up to date, only after every rule it depends on
\* was made, however the workers raced for it.
DependenciesFirst ==
  /\ \A w \in Worker : Running(w) => deps[target[w]] \subseteq built
  /\ \A t \in built : deps[t] \subseteq built

\* samples/test5:2 "this should not be shown because of the dependency
\* failure": no rule runs when one it depends on has failed.  One way round it
\* is left.  The recipe of a failed rule may have written the rule's file before
\* its last command failed; when the rule is queued again (it is a goal too, or two
\* workers claimed it) the file is found up to date and the rule counts as made.
FailureStops ==
  \A w \in Worker : Running(w) =>
    \A d \in deps[target[w]] \cap broken : Below(d) \cap torn # {}

\* parmake() returns only when every goal it accepted was made or has failed,
\* although its workers still find targets behind the NULLs that stop them.
ExitMeansDone ==
  main.pc \in {"stop", "done"} => accepted \subseteq built \cup broken

\* Goals that no other rule depends on are walked like a set of trees: no rule
\* runs a second time.  (A goal that is also a dependency is queued twice.)
RunsOnce == \A w \in Worker : Running(w) => target[w] \notin built \cup broken

\* When parmake() returns, a file made for a goal is not older, in whole seconds,
\* than the files it was made from.
FreshWhenDone ==
  main.pc = "done" =>
    \A g \in accepted \cap built : \A t \in Below(g) \cap Makes : \A d \in deps[t] :
      mtime[d] <= mtime[t]

\* Once it has gone through its goals, parmake() returns.
Terminates == main.pc # "goals" ~> main.pc = "done"
=============================================================================
