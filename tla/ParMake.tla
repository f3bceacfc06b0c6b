------------------------------- MODULE ParMake -------------------------------
(***************************************************************************)
(* parmake() and its worker threads (Parallel_Make/parmake.c).             *)
(*                                                                         *)
(* The main thread rejects the goals that depend on a cycle, queues the    *)
(* others, starts the workers, and waits by locking, one after the other,  *)
(* a mutex per goal that the worker finishing the goal unlocks.  A worker  *)
(* pulls a target, queues the dependencies nobody has started, and either  *)
(* runs the rule or puts the target aside in pending_targets, which every  *)
(* worker empties back into the queue when it has finished a target.       *)
(*                                                                         *)
(* rule->state is read and written without a lock, and pending_targets     *)
(* is appended to without one: a worker's loads and stores of them are     *)
(* steps of their own.  The queue (libqueue) locks itself.                 *)
(***************************************************************************)
EXTENDS Integers, Sequences, FiniteSets

CONSTANTS Target,      \* rule names
          Worker,      \* the threads of -j
          Graphs,      \* the dependency graphs, each a set of names per name
          GoalLists,   \* the command lines
          FailSets,    \* the sets of rules with a command that fails
          Times,       \* the modification times before the run, -1: no file
          Starts,      \* the seconds in which parmake may be started
          Makes,       \* the rules whose commands write their file
          Reloads,     \* TRUE: the -O0 build loads state again for each test
          MaxPending,  \* bound: the slots of pending_targets used
          MaxQueue,    \* bound: how long the drains let the queue grow
          NULL,        \* no goal mutex, nobody, the target that stops a worker
          Garbage      \* a slot of the vector nobody wrote

ASSUME ShapeAssumption ==
  /\ Graphs \subseteq [Target -> SUBSET Target]
  /\ GoalLists \subseteq Seq(Target)
  /\ FailSets \subseteq SUBSET Target
  /\ Times \subseteq [Target -> Nat \cup {-1}]
  /\ Starts \subseteq Nat
  /\ Makes \subseteq Target
  /\ Reloads \in BOOLEAN
ASSUME FiniteAssumption == IsFiniteSet(Target)   \* a makefile ends
ASSUME BoundAssumption == MaxPending \in Nat
ASSUME NullAssumption == NULL \notin Target /\ Garbage \notin Target /\ NULL # Garbage

VARIABLES
  deps,      \* dependency_graph: the neighbors of each rule
  goals,     \* target_vertices
  fails,     \* the rules whose commands fail
  mtime,     \* st_mtime of each target's file, in seconds, -1 if stat fails
  clock,     \* external: the second in which a file was last written
  state,     \* rule->state: 0 not started, 2 queued, 1 made, -1 failed
  data,      \* rule->data: the index of the goal's mutex, or NULL
  locked,    \* target_mutexes[i]
  queue,     \* _queue
  slots,     \* the array of pending_targets
  size,      \* and its length
  mutex,     \* who holds the global mutex to drain pending_targets
  main,      \* [pc, i, n, visited]: the main thread
  target,    \* target_name of each worker
  pc,        \* where each worker is
  todo,      \* the dependencies it has not looked at
  dep,       \* dep_rule
  seen,      \* what it loaded from dep_rule->state
  back,      \* push_back_to_pending_q
  failed,
  slot,      \* where vector_push_back is about to write
  crashed,   \* a worker used a slot nobody wrote
  accepted,  \* history: the goals that were queued
  built,     \* history: the rules whose state has been 1
  broken,    \* history: the rules whose state has been -1
  torn       \* history: the rules that failed after they had written their file

inputs == <<deps, goals, fails>>
shared == <<mtime, clock, state, data, locked, queue, slots, size, mutex>>
local == <<target, pc, todo, dep, seen, back, failed, slot>>
history == <<accepted, built, broken, torn>>
vars == <<inputs, shared, main, local, crashed, history>>

Slot == 0 .. MaxPending - 1

------------------------------------------------------------------------------
(* hasCycle.                                                                *)

\* Mutation: a goal's search starts without what earlier ones left behind, and
\* stops at the first neighbor.
Leftovers_FirstNeighbor(g) ==
  LET left[path \in SUBSET Target] == [v \in Target |->
        IF v \in path THEN {path}
        ELSE IF g[v] = {} THEN {} ELSE left[path \cup {v}][CHOOSE n \in g[v] : TRUE]]
  IN left

\* The contents hasCycle can leave in visited when it answers 1 for target v:
\* it returns without popping the path that led to a target seen before.  With
\* answer 0 visited is as it was.  Neighbors come in no particular order.
Leftovers(g) ==
  LET left[path \in SUBSET Target] == [v \in Target |->
        IF v \in path THEN {path}
        ELSE UNION {left[path \cup {v}][n] : n \in g[v]}]
  IN left

------------------------------------------------------------------------------
(* The main thread.                                                         *)

Goal == goals[main.i]
hasCycle(t, visited) == Leftovers(deps)[visited][t]

\* The loop over the goals, before any thread exists.
RejectGoal ==
  /\ main.pc = "goals" /\ main.i <= Len(goals)
  /\ \E left \in hasCycle(Goal, main.visited) :
       main' = [main EXCEPT !.i = @ + 1, !.visited = left]
  /\ UNCHANGED <<inputs, shared, local, crashed, history>>

\* Mutation: the goal's mutex is not locked before the goal is queued.
Held_Not(i) == locked
Held(i) == [locked EXCEPT ![i] = TRUE]

AcceptGoal ==
  /\ main.pc = "goals" /\ main.i <= Len(goals)
  /\ hasCycle(Goal, main.visited) = {}
  /\ locked' = Held(main.n)
  /\ data' = [data EXCEPT ![Goal] = main.n]
  /\ queue' = Append(queue, Goal)
  /\ main' = [main EXCEPT !.i = @ + 1, !.n = @ + 1]
  /\ accepted' = accepted \cup {Goal}
  /\ UNCHANGED <<inputs, mtime, clock, state, slots, size, mutex, local, crashed, built, broken, torn>>

StartThreads ==
  /\ main.pc = "goals" /\ main.i > Len(goals)
  /\ main' = [main EXCEPT !.pc = "wait", !.i = 1]
  /\ pc' = [w \in Worker |-> "pull"]
  /\ UNCHANGED <<inputs, shared, target, todo, dep, seen, back, failed, slot, crashed, history>>

\* target_count mutexes are locked, also those no accepted goal has.
WaitForGoal ==
  /\ main.pc = "wait" /\ main.i <= Len(goals)
  /\ ~locked[main.i]
  /\ locked' = [locked EXCEPT ![main.i] = TRUE]
  /\ main' = [main EXCEPT !.i = @ + 1]
  /\ UNCHANGED <<inputs, mtime, clock, state, data, queue, slots, size, mutex, local, crashed, history>>

\* One NULL for each thread.
StopThreads ==
  /\ main.pc = "wait" /\ main.i > Len(goals)
  /\ main' = [main EXCEPT !.pc = "stop", !.i = 1]
  /\ UNCHANGED <<inputs, shared, local, crashed, history>>

PushNull ==
  /\ main.pc = "stop" /\ main.i <= Cardinality(Worker)
  /\ queue' = Append(queue, NULL)
  /\ main' = [main EXCEPT !.i = @ + 1]
  /\ UNCHANGED <<inputs, mtime, clock, state, data, locked, slots, size, mutex, local, crashed, history>>

Join ==
  /\ main.pc = "stop" /\ main.i > Cardinality(Worker)
  /\ \A w \in Worker : pc[w] = "exit"
  /\ main' = [main EXCEPT !.pc = "done"]
  /\ UNCHANGED <<inputs, shared, local, crashed, history>>

------------------------------------------------------------------------------
(* thread_func.                                                             *)

At(w, where) == ~crashed /\ pc[w] = where
Goto(w, where) == pc' = [pc EXCEPT ![w] = where]

\* queue_pull blocks on an empty queue.
Pull(w) ==
  /\ At(w, "pull") /\ queue # <<>>
  /\ queue' = Tail(queue)
  /\ LET t == Head(queue)
     IN \/ /\ t = NULL
           /\ Goto(w, "exit")
           /\ UNCHANGED <<target, todo, back, failed, crashed>>
        \/ /\ t \in Target
           /\ target' = [target EXCEPT ![w] = t]
           /\ todo' = [todo EXCEPT ![w] = deps[t]]
           /\ back' = [back EXCEPT ![w] = FALSE]
           /\ failed' = [failed EXCEPT ![w] = FALSE]
           /\ Goto(w, "scan")
           /\ UNCHANGED crashed
        \/ /\ t = Garbage
           /\ crashed' = TRUE
           /\ UNCHANGED <<target, todo, back, failed, pc>>
  /\ UNCHANGED <<inputs, mtime, clock, state, data, locked, slots, size, mutex, main, dep, seen, slot, history>>

\* The load for the first test: state == 2.
Look(w) ==
  /\ At(w, "scan")
  /\ \E d \in todo[w] :
       /\ dep' = [dep EXCEPT ![w] = d]
       /\ seen' = [seen EXCEPT ![w] = state[d]]
       /\ todo' = [todo EXCEPT ![w] = @ \ {d}]
       /\ back' = [back EXCEPT ![w] = @ \/ state[d] = 2]
  /\ Goto(w, "test")
  /\ UNCHANGED <<inputs, shared, main, target, failed, slot, crashed, history>>

\* What a later test of the same pass sees: -O2 keeps the first load.
Loaded(w) == IF Reloads THEN state[dep[w]] ELSE seen[w]

\* The second test: state == 0.
Test(w) ==
  /\ At(w, "test")
  /\ Goto(w, IF Loaded(w) = 0 THEN "claim" ELSE "result")
  /\ UNCHANGED <<inputs, shared, main, target, todo, dep, seen, back, failed, slot, crashed, history>>

\* Mutation: the dependency is started, but the target does not wait for it.
Claim_NoWait(w) ==
  /\ At(w, "claim")
  /\ state' = [state EXCEPT ![dep[w]] = 2]
  /\ queue' = Append(queue, dep[w])
  /\ Goto(w, "scan")
  /\ UNCHANGED <<inputs, mtime, clock, data, locked, slots, size, mutex, main,
                 target, todo, dep, seen, back, failed, slot, crashed, history>>

\* Mutation: the dependency is queued but not marked.
Queued_NotMarked(t) == state
Queued(t) == [state EXCEPT ![t] = 2]

\* The store that follows is not one step with the test.
Claim(w) ==
  /\ At(w, "claim")
  /\ state' = Queued(dep[w])
  /\ back' = [back EXCEPT ![w] = TRUE]
  /\ queue' = Append(queue, dep[w])
  /\ Goto(w, "scan")
  /\ UNCHANGED <<inputs, mtime, clock, data, locked, slots, size, mutex, main,
                 target, todo, dep, seen, failed, slot, crashed, history>>

\* Mutation: a failed dependency counts as made.
Result_Ignored(w) ==
  /\ At(w, "result")
  /\ Goto(w, "scan")
  /\ UNCHANGED <<inputs, shared, main, target, todo, dep, seen, back, failed, slot, crashed, history>>

\* The third test: state == -1.
Result(w) ==
  /\ At(w, "result")
  /\ IF Loaded(w) = -1
     THEN /\ state' = [state EXCEPT ![target[w]] = -1]
          /\ broken' = broken \cup {target[w]}
          /\ failed' = [failed EXCEPT ![w] = TRUE]
     ELSE UNCHANGED <<state, broken, failed>>
  /\ Goto(w, "scan")
  /\ UNCHANGED <<inputs, mtime, clock, data, locked, queue, slots, size, mutex, main,
                 target, todo, dep, seen, back, slot, crashed, accepted, built, torn>>

Scanned(w) == At(w, "scan") /\ todo[w] = {}

\* Mutation: a failed goal keeps its mutex locked.
Unlocked_NotOnFailure(t) ==
  IF data[t] = NULL \/ state[t] = -1 THEN locked ELSE [locked EXCEPT ![data[t]] = FALSE]
Unlocked(t) == IF data[t] = NULL THEN locked ELSE [locked EXCEPT ![data[t]] = FALSE]

GiveUp(w) ==
  /\ Scanned(w) /\ failed[w]
  /\ locked' = Unlocked(target[w])
  /\ Goto(w, "lock")
  /\ UNCHANGED <<inputs, mtime, clock, state, data, queue, slots, size, mutex, main,
                 target, todo, dep, seen, back, failed, slot, crashed, history>>

\* vector_push_back(pending_targets, ...), without the mutex: the index of the
\* slot is read first, the slot and the size are written afterwards.
PutAside(w) ==
  /\ Scanned(w) /\ ~failed[w] /\ back[w]
  /\ slot' = [slot EXCEPT ![w] = size]
  /\ Goto(w, "push")
  /\ UNCHANGED <<inputs, shared, main, target, todo, dep, seen, back, failed, crashed, history>>

PushBack(w) ==
  /\ At(w, "push") /\ slot[w] < MaxPending /\ size < MaxPending
  /\ slots' = [slots EXCEPT ![slot[w]] = target[w]]
  /\ size' = size + 1
  /\ Goto(w, "pull")
  /\ UNCHANGED <<inputs, mtime, clock, state, data, locked, queue, mutex, main,
                 target, todo, dep, seen, back, failed, slot, crashed, history>>

Newest(S) == CHOOSE m \in S : \A n \in S : n <= m
\* Mutation: only a file that is missing is made.
Stale_Missing(t) == mtime[t] = -1
Stale(t) ==
  LET newest == Newest({-1} \cup {mtime[d] : d \in deps[t]})
  IN mtime[t] = -1 \/ newest = -1 \/ newest > mtime[t]

Decide(w) ==
  /\ Scanned(w) /\ ~failed[w] /\ ~back[w]
  /\ IF Stale(target[w])
     THEN Goto(w, "running") /\ UNCHANGED <<state, built>>
     ELSE /\ Goto(w, "finish")
          /\ state' = [state EXCEPT ![target[w]] = 1]
          /\ built' = built \cup {target[w]}
  /\ UNCHANGED <<inputs, mtime, clock, data, locked, queue, slots, size, mutex, main,
                 target, todo, dep, seen, back, failed, slot, crashed, accepted, broken, torn>>

\* What run_rule returns.
Outcome(t) == IF t \in fails THEN -1 ELSE 1

\* The commands write the rule's file, and no other: in the second in which a
\* file was last written, or later.
Write(t) ==
  /\ t \in Makes
  /\ \E now \in {clock, clock + 1} :
       clock' = now /\ mtime' = [mtime EXCEPT ![t] = now]

\* The commands run in order until one fails: the file may have been written by
\* then, or not.
RunRule(w) ==
  /\ At(w, "running")
  /\ LET t == target[w]
     IN /\ state' = [state EXCEPT ![t] = Outcome(t)]
        /\ \/ /\ t \in fails
              /\ broken' = broken \cup {t}
              /\ \/ UNCHANGED <<mtime, clock, torn>>
                 \/ Write(t) /\ torn' = torn \cup {t}
              /\ UNCHANGED built
           \/ /\ t \notin fails
              /\ built' = built \cup {t}
              /\ \/ Write(t)
                 \/ t \notin Makes /\ UNCHANGED <<mtime, clock>>
              /\ UNCHANGED <<broken, torn>>
  /\ Goto(w, "finish")
  /\ UNCHANGED <<inputs, data, locked, queue, slots, size, mutex, main,
                 target, todo, dep, seen, back, failed, slot, crashed, accepted>>

Finish(w) ==
  /\ At(w, "finish")
  /\ locked' = Unlocked(target[w])
  /\ Goto(w, "lock")
  /\ UNCHANGED <<inputs, mtime, clock, state, data, queue, slots, size, mutex, main,
                 target, todo, dep, seen, back, failed, slot, crashed, history>>

Lock(w) ==
  /\ At(w, "lock") /\ mutex = NULL
  /\ mutex' = w
  /\ Goto(w, "drain")
  /\ UNCHANGED <<inputs, mtime, clock, state, data, locked, queue, slots, size, main,
                 target, todo, dep, seen, back, failed, slot, crashed, history>>

\* The loop that empties pending_targets, under the mutex.
Drain(w) ==
  /\ At(w, "drain")
  /\ IF size > 0
     THEN /\ Len(queue) < MaxQueue
          /\ queue' = Append(queue, slots[size - 1])
          /\ size' = size - 1
          /\ UNCHANGED <<mutex, pc>>
     ELSE /\ mutex' = NULL
          /\ Goto(w, "pull")
          /\ UNCHANGED <<queue, size>>
  /\ UNCHANGED <<inputs, mtime, clock, state, data, locked, slots, main,
                 target, todo, dep, seen, back, failed, slot, crashed, history>>

------------------------------------------------------------------------------
Init ==
  /\ deps \in Graphs
  /\ goals \in GoalLists
  /\ fails \in FailSets
  /\ mtime \in Times
  /\ clock \in Starts
  /\ \A t \in Target : mtime[t] <= clock
  /\ state = [t \in Target |-> 0]
  /\ data = [t \in Target |-> NULL]
  /\ locked = [i \in 1 .. Len(goals) |-> FALSE]
  /\ queue = <<>>
  /\ slots = [s \in Slot |-> Garbage]
  /\ size = 0
  /\ mutex = NULL
  /\ main = [pc |-> "goals", i |-> 1, n |-> 1, visited |-> {}]
  /\ target = [w \in Worker |-> NULL]
  /\ pc = [w \in Worker |-> "none"]
  /\ todo = [w \in Worker |-> {}]
  /\ dep = [w \in Worker |-> NULL]
  /\ seen = [w \in Worker |-> 0]
  /\ back = [w \in Worker |-> FALSE]
  /\ failed = [w \in Worker |-> FALSE]
  /\ slot = [w \in Worker |-> 0]
  /\ crashed = FALSE
  /\ accepted = {}
  /\ built = {}
  /\ broken = {}
  /\ torn = {}

Main == ~crashed /\ \/ RejectGoal \/ AcceptGoal \/ StartThreads
                    \/ WaitForGoal \/ StopThreads \/ PushNull \/ Join
Work(w) == \/ Pull(w) \/ Look(w) \/ Test(w) \/ Claim(w) \/ Result(w)
           \/ GiveUp(w) \/ PutAside(w) \/ PushBack(w) \/ Decide(w)
           \/ RunRule(w) \/ Finish(w) \/ Lock(w) \/ Drain(w)

Next == Main \/ \E w \in Worker : Work(w)

Spec == Init /\ [][Next]_vars

\* Every thread keeps being scheduled and every command ends.
FairSpec == Spec /\ WF_vars(Main) /\ \A w \in Worker : WF_vars(Work(w))
=============================================================================
