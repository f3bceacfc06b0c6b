------------------------------- MODULE ParReduce -------------------------------
(***************************************************************************)
(* teaching_threads: a list of ints reduced by several threads, a slice    *)
(* each, and the results reduced once more.  main() checks the answer      *)
(* against the reduction in one piece and exits with the verdict.          *)
(***************************************************************************)
EXTENDS Integers, SequencesExt

CONSTANTS Width,     \* bound: bits of an int
          Elements,  \* what gen_random_list draws, 1 .. 5
          Lengths,   \* bound: list_len on the command line
          Threads    \* bound: num_threads on the command line

VARIABLES argv,     \* [reducer, list_len, num_threads]
          stage,    \* "args", "create", "join", "verify" or "exited"
          list,     \* the random list
          params,   \* one [from, length] per thread created
          retval,   \* thread -> what it returned, once it has
          partial,  \* result[], the values joined
          final,    \* what par_reduce returned
          code      \* the exit status

reduceVars == <<argv, stage, list, params, retval, partial, final, code>>

------------------------------------------------------------------------------
(* The reducers, on ints that wrap around.                                  *)

Wrap(n) == ((n + 2 ^ (Width - 1)) % 2 ^ Width) - 2 ^ (Width - 1)

get_reducer(name, elem1, elem2) ==
  CASE name = "add" -> Wrap(elem1 + elem2)
    [] name = "mult" -> Wrap(elem1 * elem2)
    [] name = "slow" -> Wrap(56)

get_reducer_base_case(name) ==
  CASE name = "add" -> 0 [] name = "mult" -> 1 [] name = "slow" -> Wrap(56)

reduce(slice) ==
  FoldLeft(LAMBDA result, elem : get_reducer(argv.reducer, result, elem),
           get_reducer_base_case(argv.reducer), slice)

------------------------------------------------------------------------------
(* main() up to par_reduce.                                                 *)

Exits(status) == stage' = "exited" /\ code' = status

\* validate_args, then get_reducer: 4 for a number below 1 and for a name that
\* is no reducer's.
StartReduce ==
  /\ stage = "args"
  /\ IF argv.list_len < 1 \/ argv.num_threads < 1 \/ argv.reducer = "other"
     THEN Exits(4) /\ UNCHANGED list
     ELSE /\ \E l \in [1 .. argv.list_len -> Elements] : list' = l
          /\ stage' = IF argv.num_threads >= argv.list_len THEN "alone" ELSE "create"
          /\ UNCHANGED code
  /\ UNCHANGED <<argv, params, retval, partial, final>>

\* Too short a list for the threads is reduced by main itself.
ReduceAlone ==
  /\ stage = "alone"
  /\ final' = reduce(list)
  /\ stage' = "verify"
  /\ UNCHANGED <<argv, list, params, retval, partial, code>>

items_per_thread == argv.list_len \div argv.num_threads
\* Mutation: every slice has the same length.
SliceLength_Same(thread_num) == items_per_thread
\* The last thread takes what is left over.
SliceLength(thread_num) ==
  IF thread_num = argv.num_threads - 1
  THEN argv.list_len - (argv.num_threads - 1) * items_per_thread
  ELSE items_per_thread

\* One turn of the loop with pthread_create.
CreateThread ==
  /\ stage = "create"
  /\ LET thread_num == Len(params)
     IN IF thread_num = argv.num_threads THEN stage' = "join" /\ UNCHANGED params
        ELSE /\ params' = Append(params, [from |-> thread_num * items_per_thread,
                                          length |-> SliceLength(thread_num)])
             /\ UNCHANGED stage
  /\ UNCHANGED <<argv, list, retval, partial, final, code>>

------------------------------------------------------------------------------
(* The threads, in any order, while main creates and joins.                 *)

reduce_with_param(t) ==
  /\ t \in DOMAIN params \ DOMAIN retval
  /\ LET p == params[t]
         value == reduce(SubSeq(list, p.from + 1, p.from + p.length))
     IN retval' = [u \in DOMAIN retval \cup {t} |-> IF u = t THEN value ELSE retval[u]]
  /\ UNCHANGED <<argv, stage, list, params, partial, final, code>>

\* pthread_join, in the order of creation, and then the last reduction.
JoinThread ==
  /\ stage = "join"
  /\ LET t == Len(partial) + 1
     IN IF t > argv.num_threads
        THEN final' = reduce(partial) /\ stage' = "verify" /\ UNCHANGED partial
        ELSE /\ t \in DOMAIN retval
             /\ partial' = Append(partial, retval[t])
             /\ UNCHANGED <<stage, final>>
  /\ UNCHANGED <<argv, list, params, retval, code>>

\* main returns `passed`, 1 for a correct result.
Verify ==
  /\ stage = "verify"
  /\ Exits(IF final = reduce(list) THEN 1 ELSE 0)
  /\ UNCHANGED <<argv, list, params, retval, partial, final>>

------------------------------------------------------------------------------
ReduceInit ==
  /\ argv \in [reducer : {"add", "mult", "slow", "other"}, list_len : Lengths,
               num_threads : Threads]
  /\ stage = "args"
  /\ list = <<>> /\ params = <<>> /\ retval = <<>> /\ partial = <<>>
  /\ final = 0 /\ code = -1

ReduceMain == StartReduce \/ ReduceAlone \/ CreateThread \/ JoinThread \/ Verify
ReduceNext == ReduceMain \/ \E t \in 1 .. Len(params) : reduce_with_param(t)

ReduceSpec == ReduceInit /\ [][ReduceNext]_reduceVars
=============================================================================
