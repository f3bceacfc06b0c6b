-------------------------- MODULE ParReduceProperties --------------------------
(***************************************************************************)
(* par_reduce against the meaning of its reducers.                         *)
(***************************************************************************)
EXTENDS ParReduce, FiniteSetsExt

\* What the whole list adds up or multiplies to.
Total ==
  CASE argv.reducer = "add" -> Wrap(FoldLeft(LAMBDA a, b : a + b, 0, list))
    [] argv.reducer = "mult" -> Wrap(FoldLeft(LAMBDA a, b : a * b, 1, list))
    [] OTHER -> Wrap(56)

\* par_reduce.c:26: each element is reduced exactly once, whichever thread is
\* first and however the length divides, although the base case enters once
\* per thread and once more; no list that main() makes is reported incorrect.
ReducesEverything ==
  /\ stage = "verify" => final = Total
  /\ code # 0
=============================================================================
