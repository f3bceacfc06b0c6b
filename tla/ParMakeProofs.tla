---------------------------- MODULE ParMakeProofs ----------------------------
(***************************************************************************)
(* TLAPS proofs about parmake, for any graph, any goals, any failing rules *)
(* and any number of workers.                                              *)
(***************************************************************************)
EXTENDS ParMakeProperties, FiniteSetTheorems, TLAPS

Places == {"none", "pull", "scan", "test", "claim", "result", "push",
           "running", "finish", "lock", "drain", "exit"}
Phases == {"goals", "wait", "stop", "done"}

InputType ==
  /\ deps \in [Target -> SUBSET Target]
  /\ goals \in Seq(Target)
  /\ fails \in SUBSET Target
SharedType ==
  /\ mtime \in [Target -> Nat \cup {-1}]
  /\ state \in [Target -> {-1, 0, 1, 2}]
  /\ data \in [Target -> Nat \cup {NULL}]
  /\ locked \in [1 .. Len(goals) -> BOOLEAN]
  /\ clock \in Nat /\ \A t \in Target : mtime[t] <= clock
MainType ==
  /\ DOMAIN main = {"pc", "i", "n", "visited"}
  /\ main.pc \in Phases
  /\ main.i \in Nat \ {0}
  /\ main.n \in Nat \ {0}
LocalType ==
  /\ target \in [Worker -> Target \cup {NULL}]
  /\ pc \in [Worker -> Places]
  /\ todo \in [Worker -> SUBSET Target]
  /\ dep \in [Worker -> Target \cup {NULL}]
  /\ seen \in [Worker -> {-1, 0, 1, 2}]
  /\ back \in [Worker -> BOOLEAN]
  /\ failed \in [Worker -> BOOLEAN]
HistoryType ==
  /\ accepted \in SUBSET Target
  /\ built \in SUBSET Target
  /\ broken \in SUBSET Target
  /\ torn \in SUBSET Target

\* A worker that has pulled a target and not yet left it.
Scanning == {"scan", "test", "claim", "result"}
Holding == Scanning \cup {"push", "running", "finish"}
Holds ==
  \A w \in Worker : /\ pc[w] \in Holding => target[w] \in Target
                    /\ pc[w] \in {"test", "claim", "result"} => dep[w] \in Target

TypeInv == InputType /\ SharedType /\ MainType /\ LocalType /\ HistoryType /\ Holds

------------------------------------------------------------------------------
(* The newest of finitely many times.                                       *)

\* A finite set of times that is not empty has a newest one.
LEMMA NewestOf ==
  ASSUME NEW S \in SUBSET Int, IsFiniteSet(S), S # {}
  PROVE  Newest(S) \in S /\ \A n \in S : n <= Newest(S)
<1> DEFINE HasMax(T) == \E m \in T : \A n \in T : n <= m
           Bad == {T \in SUBSET S : T # {} /\ ~ HasMax(T)}
           R == StrictSubsetOrdering(S)
<1>1. SUFFICES ASSUME Bad # {}
               PROVE  FALSE
  <2>1. S \notin Bad => HasMax(S)
    OBVIOUS
  <2> QED
    BY <2>1 DEF Newest
<1>2. IsWellFoundedOn(R, SUBSET S)
  BY FS_StrictSubsetOrderingWellFounded, FS_FiniteSubsetsOfFinite
<1>3. PICK T \in Bad : \A U \in Bad : ~ (<<U, T>> \in R)
  <2> HIDE DEF R
  <2>1. Bad \subseteq SUBSET S
    OBVIOUS
  <2> HIDE DEF Bad
  <2> QED
    BY <1>1, <1>2, <2>1, WFMin
<1>4. PICK x \in T : TRUE
  OBVIOUS
<1>5. T \ {x} \notin Bad
  <2>1. T \ {x} \in SUBSET S /\ T \in SUBSET S /\ T \ {x} \subseteq T /\ T \ {x} # T
    OBVIOUS
  <2>2. <<T \ {x}, T>> \in R
    BY <2>1 DEF StrictSubsetOrdering
  <2> QED
    BY <1>3, <2>2
<1>6. CASE T \ {x} = {}
  <2>1. T = {x}
    BY <1>6
  <2>2. HasMax(T)
    BY <2>1
  <2> QED
    BY <2>2
<1>7. ASSUME NEW m \in T \ {x}, \A n \in T \ {x} : n <= m
      PROVE  FALSE
  <2>1. CASE x <= m
    <3>1. \A n \in T : n <= m
      BY <1>7, <2>1
    <3> QED
      BY <3>1
  <2>2. CASE ~ (x <= m)
    <3>1. \A n \in T : n \in Int
      OBVIOUS
    <3>2. \A n \in T : n <= x
      BY <1>7, <2>2, <3>1
    <3> QED
      BY <3>2
  <2> QED
    BY <2>1, <2>2
<1> QED
  BY <1>5, <1>6, <1>7

\* The times of finitely many files are finitely many.
LEMMA TimesFinite ==
  ASSUME NEW D, IsFiniteSet(D), NEW m \in [Target -> Nat \cup {-1}], D \subseteq Target
  PROVE  IsFiniteSet({m[d] : d \in D})
<1> DEFINE f == [d \in D |-> m[d]]
           I == {m[d] : d \in D}
<1>1. f \in Surjection(D, I)
  BY DEF Surjection
<1> HIDE DEF f, I
<1>2. IsFiniteSet(I)
  BY <1>1, FS_Surjection
<1> QED
  BY <1>2 DEF I

------------------------------------------------------------------------------
(* Types.                                                                   *)

\* The types hold at the start,
LEMMA InitType == Init => TypeInv
BY ShapeAssumption DEF Init, TypeInv, InputType, SharedType, MainType, LocalType, HistoryType, Holds, Places, Phases, Holding, Scanning

\* the main thread keeps them,
LEMMA MainKeepsType ==
  ASSUME TypeInv, Main
  PROVE  TypeInv'
<1> USE DEF TypeInv
<1>1. CASE RejectGoal
  <2>1. MainType'
    BY <1>1 DEF RejectGoal, MainType, Phases
  <2> QED
    BY <1>1, <2>1 DEF RejectGoal, inputs, shared, local, history, InputType, SharedType, LocalType, HistoryType, Holds
<1>2. CASE AcceptGoal
  <2>1. MainType'
    BY <1>2 DEF AcceptGoal, MainType, Phases
  <2>2. Goal \in Target
    BY <1>2 DEF AcceptGoal, MainType, InputType, Goal
  <2>3. SharedType'
    BY <1>2, <2>2 DEF AcceptGoal, inputs, SharedType, MainType, Held
  <2> QED
    BY <1>2, <2>1, <2>2, <2>3 DEF AcceptGoal, inputs, local, InputType, LocalType, HistoryType, Holds
<1>3. CASE StartThreads
  <2>1. MainType'
    BY <1>3 DEF StartThreads, MainType, Phases
  <2>2. LocalType' /\ Holds'
    BY <1>3 DEF StartThreads, LocalType, Holds, Places, Holding, Scanning
  <2> QED
    BY <1>3, <2>1, <2>2 DEF StartThreads, inputs, shared, history, InputType, SharedType, HistoryType
<1>4. CASE WaitForGoal
  <2>1. MainType'
    BY <1>4 DEF WaitForGoal, MainType, Phases
  <2> QED
    BY <1>4, <2>1 DEF WaitForGoal, inputs, local, history, InputType, SharedType, LocalType, HistoryType, Holds
<1>5. CASE StopThreads
  <2>1. MainType'
    BY <1>5 DEF StopThreads, MainType, Phases
  <2> QED
    BY <1>5, <2>1 DEF StopThreads, inputs, shared, local, history, InputType, SharedType, LocalType, HistoryType, Holds
<1>6. CASE PushNull
  <2>1. MainType'
    BY <1>6 DEF PushNull, MainType, Phases
  <2> QED
    BY <1>6, <2>1 DEF PushNull, inputs, local, history, InputType, SharedType, LocalType, HistoryType, Holds
<1>7. CASE Join
  <2>1. MainType'
    BY <1>7 DEF Join, MainType, Phases
  <2> QED
    BY <1>7, <2>1 DEF Join, inputs, shared, local, history, InputType, SharedType, LocalType, HistoryType, Holds
<1> QED
  BY <1>1, <1>2, <1>3, <1>4, <1>5, <1>6, <1>7 DEF Main

\* a rule whose commands write its file gives it the current second,
FileType ==
  /\ mtime \in [Target -> Nat \cup {-1}]
  /\ clock \in Nat /\ \A t \in Target : mtime[t] <= clock
LEMMA WriteTells ==
  ASSUME SharedType, NEW t \in Target, Write(t)
  PROVE  /\ t \in Makes /\ clock' \in Nat /\ clock <= clock'
         /\ mtime' \in [Target -> Nat \cup {-1}]
         /\ \A u \in Target : mtime'[u] = IF u = t THEN clock' ELSE mtime[u]
         /\ \A u \in Target : mtime[u] \in Int /\ mtime[u] <= clock' /\ mtime'[u] <= clock'
<1>1. PICK now \in {clock, clock + 1} : clock' = now /\ mtime' = [mtime EXCEPT ![t] = now]
  BY DEF Write
<1>2. now \in Nat /\ clock <= now
  BY <1>1 DEF SharedType
<1>3. mtime' \in [Target -> Nat \cup {-1}] /\ \A u \in Target : mtime'[u] = IF u = t THEN now ELSE mtime[u]
  BY <1>1, <1>2 DEF SharedType
<1>4. ASSUME NEW u \in Target
      PROVE  mtime[u] \in Int /\ mtime[u] <= now
  BY <1>2 DEF SharedType
<1> QED
  BY <1>1, <1>2, <1>3, <1>4 DEF Write

\* and so does every worker.
LEMMA WorkKeepsType ==
  ASSUME TypeInv, NEW w \in Worker, Work(w)
  PROVE  TypeInv'
<1> USE DEF TypeInv, At, Goto
<1>1. CASE Pull(w)
  <2>1. /\ inputs' = inputs /\ history' = history /\ main' = main
        /\ mtime' = mtime /\ clock' = clock /\ state' = state /\ data' = data /\ locked' = locked
        /\ dep' = dep /\ seen' = seen
    BY <1>1 DEF Pull
  <2>2. LocalType' /\ Holds'
    <3>1. CASE UNCHANGED <<target, todo, back, failed>> /\ (pc' = pc \/ Goto(w, "exit"))
      BY <2>1, <3>1 DEF LocalType, Holds, Places, Holding, Scanning
    <3>2. ASSUME NEW t \in Target,
                 /\ target' = [target EXCEPT ![w] = t]
                 /\ todo' = [todo EXCEPT ![w] = deps[t]]
                 /\ back' = [back EXCEPT ![w] = FALSE]
                 /\ failed' = [failed EXCEPT ![w] = FALSE]
                 /\ Goto(w, "scan")
          PROVE  LocalType' /\ Holds'
      BY <2>1, <3>2 DEF LocalType, InputType, Holds, Places, Holding, Scanning
    <3> QED
      BY <1>1, <3>1, <3>2 DEF Pull
  <2> QED
    BY <2>1, <2>2 DEF inputs, history, InputType, SharedType, MainType, HistoryType
<1>2. CASE Look(w)
  BY <1>2 DEF Look, inputs, shared, history, InputType, SharedType, MainType, LocalType, HistoryType, Holds, Places, Holding, Scanning
<1>3. CASE Test(w)
  BY <1>3 DEF Test, inputs, shared, history, InputType, SharedType, MainType, LocalType, HistoryType, Holds, Places, Holding, Scanning
<1>4. CASE Claim(w)
  BY <1>4 DEF Claim, inputs, history, InputType, SharedType, MainType, LocalType, HistoryType, Holds, Places, Holding, Scanning, Queued
<1>5. CASE Result(w)
  <2>1. LocalType' /\ Holds'
    BY <1>5 DEF Result, LocalType, Holds, Places, Holding, Scanning
  <2>2. target[w] \in Target
    BY <1>5 DEF Result, Holds, Holding, Scanning
  <2>3. SharedType'
    BY <1>5, <2>2 DEF Result, inputs, SharedType
  <2>4. HistoryType'
    BY <1>5, <2>2 DEF Result, inputs, HistoryType
  <2> QED
    BY <1>5, <2>1, <2>3, <2>4 DEF Result, inputs, InputType, MainType
<1>6. CASE GiveUp(w)
  BY <1>6 DEF GiveUp, inputs, history, InputType, SharedType, MainType, LocalType, HistoryType, Holds, Places, Holding, Scanning, Scanned, Unlocked
<1>7. CASE PutAside(w)
  BY <1>7 DEF PutAside, inputs, shared, history, InputType, SharedType, MainType, LocalType, HistoryType, Holds, Places, Holding, Scanning, Scanned
<1>8. CASE PushBack(w)
  BY <1>8 DEF PushBack, inputs, history, InputType, SharedType, MainType, LocalType, HistoryType, Holds, Places, Holding, Scanning
<1>9. CASE Decide(w)
  <2>1. LocalType' /\ Holds'
    BY <1>9 DEF Decide, LocalType, Holds, Places, Holding, Scanning, Scanned
  <2>2. SharedType' /\ HistoryType'
    BY <1>9 DEF Decide, inputs, SharedType, HistoryType, LocalType, Holds, Holding, Scanning, Scanned
  <2> QED
    BY <1>9, <2>1, <2>2 DEF Decide, inputs, InputType, MainType
<1>10. CASE RunRule(w)
  <2>1. LocalType' /\ Holds'
    BY <1>10 DEF RunRule, LocalType, Holds, Places, Holding, Scanning, Outcome
  <2>2. target[w] \in Target
    BY <1>10 DEF RunRule, Holds, Holding
  <2>3. FileType'
    <3>1. CASE UNCHANGED <<mtime, clock>>
      BY <3>1 DEF FileType, SharedType
    <3>2. CASE Write(target[w])
      BY <2>2, <3>2, WriteTells DEF FileType, SharedType
    <3> QED
      BY <1>10, <3>1, <3>2 DEF RunRule
  <2>4. SharedType'
    BY <1>10, <2>2, <2>3 DEF RunRule, inputs, SharedType, FileType, Outcome
  <2>5. HistoryType'
    BY <1>10, <2>2 DEF RunRule, HistoryType
  <2> QED
    BY <1>10, <2>1, <2>4, <2>5 DEF RunRule, inputs, InputType, MainType
<1>11. CASE Finish(w)
  BY <1>11 DEF Finish, inputs, history, InputType, SharedType, MainType, LocalType, HistoryType, Holds, Places, Holding, Scanning, Unlocked
<1>12. CASE Lock(w)
  BY <1>12 DEF Lock, inputs, history, InputType, SharedType, MainType, LocalType, HistoryType, Holds, Places, Holding, Scanning
<1>13. CASE Drain(w)
  BY <1>13 DEF Drain, inputs, history, InputType, SharedType, MainType, LocalType, HistoryType, Holds, Places, Holding, Scanning
<1> QED
  BY <1>1, <1>2, <1>3, <1>4, <1>5, <1>6, <1>7, <1>8, <1>9, <1>10, <1>11, <1>12, <1>13 DEF Work

\* What Stale compares, without the maximum.
Outdated(t) == \/ mtime[t] = -1
               \/ \A d \in deps[t] : mtime[d] = -1
               \/ \E d \in deps[t] : mtime[d] > mtime[t]
\* What the test of a rule with files for dependencies decides.
LEMMA StaleMeans ==
  InputType /\ SharedType => \A t \in Target : Stale(t) <=> Outdated(t)
<1> SUFFICES ASSUME InputType, SharedType, NEW t \in Target
             PROVE  Stale(t) <=> Outdated(t)
  OBVIOUS
<1> DEFINE J == {mtime[d] : d \in deps[t]}
           I == {-1} \cup J
<1>1. deps[t] \in SUBSET Target /\ \A d \in Target : mtime[d] \in Nat \cup {-1}
  BY DEF InputType, SharedType
<1>2. I \subseteq Nat \cup {-1} /\ -1 \in I /\ \A d \in deps[t] : mtime[d] \in I
  BY <1>1
<1>3. \A n \in I : n = -1 \/ \E d \in deps[t] : n = mtime[d]
  OBVIOUS
<1>4. IsFiniteSet(I)
  <2>1. IsFiniteSet(deps[t])
    BY <1>1, FiniteAssumption, FS_Subset
  <2>2. IsFiniteSet(J)
    BY <1>1, <2>1, TimesFinite DEF SharedType
  <2> HIDE DEF J
  <2>3. IsFiniteSet(J \cup {-1})
    BY <2>2, FS_AddElement
  <2>4. I = J \cup {-1}
    OBVIOUS
  <2> QED
    BY <2>3, <2>4
<1> HIDE DEF I
<1>5. Newest(I) \in I /\ \A n \in I : n <= Newest(I)
  BY <1>2, <1>4, NewestOf
<1>6. Stale(t) <=> mtime[t] = -1 \/ Newest(I) = -1 \/ Newest(I) > mtime[t]
  BY DEF Stale, I
<1>7. Newest(I) = -1 <=> \A d \in deps[t] : mtime[d] = -1
  <2>1. ASSUME Newest(I) = -1, NEW d \in deps[t]
        PROVE  mtime[d] = -1
    <3>1. mtime[d] \in Nat \cup {-1} /\ mtime[d] <= -1
      BY <1>1, <1>2, <1>5, <2>1
    <3> QED
      BY <3>1
  <2> QED
    BY <1>3, <1>5, <2>1
<1>8. mtime[t] # -1 => (Newest(I) > mtime[t] <=> \E d \in deps[t] : mtime[d] > mtime[t])
  <2>1. mtime[t] \in Nat \cup {-1} /\ Newest(I) \in Nat \cup {-1}
    BY <1>1, <1>2, <1>5
  <2>2. ASSUME mtime[t] # -1, Newest(I) > mtime[t]
        PROVE  \E d \in deps[t] : mtime[d] > mtime[t]
    <3>1. Newest(I) # -1
      BY <2>1, <2>2
    <3> QED
      BY <1>3, <1>5, <2>2, <3>1
  <2>3. ASSUME NEW d \in deps[t], mtime[d] > mtime[t]
        PROVE  Newest(I) > mtime[t]
    <3>1. mtime[d] \in I /\ mtime[d] <= Newest(I) /\ mtime[d] \in Int
      BY <1>1, <1>2, <1>5
    <3> QED
      BY <2>1, <2>3, <3>1
  <2> QED
    BY <2>2, <2>3
<1> QED
  BY <1>6, <1>7, <1>8 DEF Outdated

\* Types hold in every state.
LEMMA SpecType == Spec => []TypeInv
<1>1. TypeInv /\ [Next]_vars => TypeInv'
  <2> SUFFICES ASSUME TypeInv, [Next]_vars
               PROVE  TypeInv'
    OBVIOUS
  <2>1. CASE Main
    BY <2>1, MainKeepsType
  <2>2. ASSUME NEW w \in Worker, Work(w)
        PROVE  TypeInv'
    BY <2>2, WorkKeepsType
  <2>3. CASE UNCHANGED vars
    BY <2>3 DEF vars, inputs, shared, local, history, TypeInv, InputType, SharedType, MainType, LocalType, HistoryType, Holds
  <2> QED
    BY <2>1, <2>2, <2>3 DEF Next
<1> QED
  BY <1>1, InitType, PTL DEF Spec

------------------------------------------------------------------------------
(* What is behind a goal's mutex, in every build.                           *)

\* A rule's state tells its history, and so does the place of its worker.
StateTells(t) == /\ state[t] = 1 => t \in built
                 /\ state[t] = -1 => t \in broken
PlaceTells(w) == /\ pc[w] = "finish" => target[w] \in built \cup broken
                 /\ pc[w] \in Scanning /\ failed[w] => target[w] \in broken
StatesTell == /\ \A t \in Target : StateTells(t)
              /\ \A w \in Worker : PlaceTells(w)

\* While a goal is neither made nor failed its mutex, which is no other
\* goal's, is locked, and the main thread has not passed it.
Decided == built \cup broken
Waited(t) ==
  /\ data[t] \in 1 .. main.n - 1
  /\ t \notin Decided => /\ main.pc \in {"goals", "wait"}
                         /\ locked[data[t]]
                         /\ main.pc = "wait" => main.i <= data[t]
MutexesHeld ==
  /\ main.n <= Len(goals) + 1
  /\ main.pc = "goals" => main.n <= main.i
  /\ \A t \in Target : data[t] = NULL \/ data[t] \in 1 .. main.n - 1
  /\ \A t, u \in Target : data[t] = data[u] /\ data[t] # NULL => t = u
  /\ \A t \in accepted : Waited(t)

\* The main thread changes no state once the workers run,
LEMMA MainKeepsStates ==
  ASSUME TypeInv, StatesTell, Main
  PROVE  StatesTell'
<1> USE DEF StatesTell, StateTells, PlaceTells
<1>1. CASE RejectGoal
  BY <1>1 DEF RejectGoal, inputs, shared, local, history
<1>2. CASE AcceptGoal
  BY <1>2 DEF AcceptGoal, inputs, local
<1>3. CASE StartThreads
  BY <1>3 DEF StartThreads, inputs, shared, history, Scanning
<1>4. CASE WaitForGoal
  BY <1>4 DEF WaitForGoal, inputs, local, history
<1>5. CASE StopThreads
  BY <1>5 DEF StopThreads, inputs, shared, local, history
<1>6. CASE PushNull
  BY <1>6 DEF PushNull, inputs, local, history
<1>7. CASE Join
  BY <1>7 DEF Join, inputs, shared, local, history
<1> QED
  BY <1>1, <1>2, <1>3, <1>4, <1>5, <1>6, <1>7 DEF Main

\* and a worker changes that of its own target.
LEMMA WorkKeepsStates ==
  ASSUME TypeInv, StatesTell, NEW w \in Worker, Work(w)
  PROVE  StatesTell'
<1> USE DEF TypeInv, SharedType, LocalType, HistoryType, Holds, StatesTell, StateTells, PlaceTells, At, Goto, Scanning, Holding
<1>1. CASE Pull(w)
  BY <1>1 DEF Pull, inputs, history
<1>2. CASE Look(w)
  BY <1>2 DEF Look, inputs, shared, history
<1>3. CASE Test(w)
  BY <1>3 DEF Test, inputs, shared, history
<1>4. CASE Claim(w)
  BY <1>4 DEF Claim, inputs, history, Queued
<1>5. CASE Result(w)
  BY <1>5 DEF Result, inputs
<1>6. CASE GiveUp(w)
  BY <1>6 DEF GiveUp, inputs, history, Scanned, Unlocked
<1>7. CASE PutAside(w)
  BY <1>7 DEF PutAside, inputs, shared, history, Scanned
<1>8. CASE PushBack(w)
  BY <1>8 DEF PushBack, inputs, history
<1>9. CASE Decide(w)
  BY <1>9 DEF Decide, inputs, Scanned
<1>10. CASE RunRule(w)
  BY <1>10 DEF RunRule, inputs, Outcome
<1>11. CASE Finish(w)
  BY <1>11 DEF Finish, inputs, history, Unlocked
<1>12. CASE Lock(w)
  BY <1>12 DEF Lock, inputs, history
<1>13. CASE Drain(w)
  BY <1>13 DEF Drain, inputs, history
<1> QED
  BY <1>1, <1>2, <1>3, <1>4, <1>5, <1>6, <1>7, <1>8, <1>9, <1>10, <1>11, <1>12, <1>13 DEF Work

\* The main thread hands goals on without breaking who holds which mutex,
LEMMA MainKeepsMutexes ==
  ASSUME TypeInv, MutexesHeld, Main
  PROVE  MutexesHeld'
<1> USE DEF TypeInv, InputType, MainType, MutexesHeld, Phases
<1>1. CASE RejectGoal
  BY <1>1 DEF RejectGoal, inputs, shared, history, Decided, Waited
<1>2. CASE AcceptGoal
  <2>1. Goal \in Target /\ main.n \in 1 .. Len(goals)
    BY <1>2 DEF AcceptGoal, Goal
  <2>2. /\ goals' = goals /\ built' = built /\ broken' = broken
        /\ main'.n = main.n + 1 /\ main'.i = main.i + 1 /\ main'.pc = "goals"
        /\ locked' = [locked EXCEPT ![main.n] = TRUE]
        /\ data' = [data EXCEPT ![Goal] = main.n]
        /\ accepted' = accepted \cup {Goal} /\ Decided' = Decided
    BY <1>2 DEF AcceptGoal, inputs, Held, Decided
  <2>3. main'.n <= Len(goals') + 1 /\ main'.n <= main'.i
    BY <1>2, <2>1, <2>2 DEF AcceptGoal
  <2>4. \A t \in Target : data'[t] = IF t = Goal THEN main.n ELSE data[t]
    BY <2>2 DEF SharedType
  <2>5. \A t \in Target : data'[t] = NULL \/ data'[t] \in 1 .. main'.n - 1
    BY <2>2, <2>4
  <2>6. \A t, u \in Target : data'[t] = data'[u] /\ data'[t] # NULL => t = u
    BY <2>4
  <2>7. ASSUME NEW t \in accepted'
        PROVE  /\ data'[t] \in 1 .. main'.n - 1
               /\ locked'[data'[t]] \/ t \in Decided
    <3>1. t \in Target /\ main.n - 1 < main.n
      BY <2>1, <2>2 DEF HistoryType
    <3>2. CASE t = Goal
      BY <2>1, <2>2, <2>4, <3>1, <3>2 DEF SharedType
    <3>3. CASE t # Goal
      <4>0. t \in accepted /\ Waited(t)
        BY <2>2, <3>3
      <4>1. data'[t] = data[t] /\ data[t] \in 1 .. main.n - 1
        BY <2>4, <3>1, <3>3, <4>0 DEF Waited
      <4>2. data[t] \in 1 .. Len(goals) /\ data[t] # main.n
        BY <2>1, <4>1
      <4>3. locked'[data[t]] = locked[data[t]]
        BY <2>2, <4>2 DEF SharedType
      <4>4. t \in Decided \/ locked[data[t]]
        BY <4>0, Zenon DEF Waited
      <4> QED
        BY <2>2, <4>1, <4>2, <4>3, <4>4
    <3> QED
      BY <3>2, <3>3
  <2> QED
    BY <2>2, <2>3, <2>5, <2>6, <2>7 DEF Waited
<1>3. CASE StartThreads
  BY <1>3 DEF StartThreads, inputs, shared, history, Decided, Waited
<1>4. CASE WaitForGoal
  <2>1. /\ goals' = goals /\ built' = built /\ broken' = broken /\ data' = data /\ accepted' = accepted
        /\ main'.n = main.n /\ main'.i = main.i + 1 /\ main'.pc = "wait" /\ main.pc = "wait"
        /\ ~ locked[main.i] /\ Decided' = Decided
        /\ locked' = [locked EXCEPT ![main.i] = TRUE]
        /\ main.i \in 1 .. Len(goals)
    BY <1>4 DEF WaitForGoal, inputs, history, Decided, Waited
  <2>2. ASSUME NEW t \in accepted, t \notin Decided
        PROVE  locked'[data[t]] /\ main.i + 1 <= data[t]
    <3>0. Waited(t)
      BY <2>2
    <3>1. data[t] \in 1 .. main.n - 1 /\ locked[data[t]] /\ main.i <= data[t]
      BY <2>1, <2>2, <3>0, Zenon DEF Waited
    <3> QED
      BY <2>1, <3>1 DEF SharedType
  <2> QED
    BY <2>1, <2>2 DEF Waited
<1>5. CASE StopThreads
  BY <1>5 DEF StopThreads, inputs, shared, history, Decided, Waited
<1>6. CASE PushNull
  BY <1>6 DEF PushNull, inputs, history, Decided, Waited
<1>7. CASE Join
  BY <1>7 DEF Join, inputs, shared, history, Decided, Waited
<1> QED
  BY <1>1, <1>2, <1>3, <1>4, <1>5, <1>6, <1>7 DEF Main

\* A worker unlocks the mutex of nothing but what it has decided.
LEMMA WorkUnlocks ==
  ASSUME TypeInv, StatesTell, NEW w \in Worker, Work(w)
  PROVE  /\ UNCHANGED <<inputs, main, data, accepted>>
         /\ Decided \subseteq Decided'
         /\ \/ locked' = locked
            \/ /\ target[w] \in Decided
               /\ locked' = Unlocked(target[w])
<1> USE DEF At, Goto, Decided, history, shared
<1>1. CASE Pull(w)
  BY <1>1 DEF Pull
<1>2. CASE Look(w)
  BY <1>2 DEF Look
<1>3. CASE Test(w)
  BY <1>3 DEF Test
<1>4. CASE Claim(w)
  BY <1>4 DEF Claim
<1>5. CASE Result(w)
  BY <1>5 DEF Result
<1>6. CASE GiveUp(w)
  <2>1. pc[w] \in Scanning /\ failed[w]
    BY <1>6 DEF GiveUp, Scanned, Scanning
  <2>2. PlaceTells(w)
    BY DEF StatesTell
  <2>3. target[w] \in broken
    BY <2>1, <2>2 DEF PlaceTells
  <2> QED
    BY <1>6, <2>3 DEF GiveUp
<1>7. CASE PutAside(w)
  BY <1>7 DEF PutAside
<1>8. CASE PushBack(w)
  BY <1>8 DEF PushBack
<1>9. CASE Decide(w)
  BY <1>9 DEF Decide
<1>10. CASE RunRule(w)
  BY <1>10 DEF RunRule
<1>11. CASE Finish(w)
  <2>1. PlaceTells(w) /\ pc[w] = "finish"
    BY <1>11 DEF Finish, StatesTell
  <2>2. target[w] \in built \cup broken
    BY <2>1 DEF PlaceTells
  <2> QED
    BY <1>11, <2>2 DEF Finish
<1>12. CASE Lock(w)
  BY <1>12 DEF Lock
<1>13. CASE Drain(w)
  BY <1>13 DEF Drain
<1> QED
  BY <1>1, <1>2, <1>3, <1>4, <1>5, <1>6, <1>7, <1>8, <1>9, <1>10, <1>11, <1>12, <1>13 DEF Work

\* and so does a worker.
LEMMA WorkKeepsMutexes ==
  ASSUME TypeInv, StatesTell, MutexesHeld, NEW w \in Worker, Work(w)
  PROVE  MutexesHeld'
<1>1. /\ goals' = goals /\ main' = main /\ data' = data /\ accepted' = accepted
      /\ Decided \subseteq Decided'
      /\ \/ locked' = locked
         \/ /\ target[w] \in Decided
            /\ locked' = Unlocked(target[w])
  BY WorkUnlocks DEF inputs
<1>2. ASSUME NEW t \in accepted, t \notin Decided', locked[data[t]]
      PROVE  locked'[data[t]]
  <2>1. CASE locked' = locked
    BY <1>2, <2>1
  <2>2. CASE target[w] \in Decided /\ locked' = Unlocked(target[w])
    <3>1. target[w] \in Target /\ t \in Target /\ t # target[w]
      BY <1>1, <1>2, <2>2 DEF Decided, TypeInv, HistoryType
    <3>2. CASE data[target[w]] = NULL
      BY <1>2, <2>2, <3>2 DEF Unlocked
    <3>3. CASE data[target[w]] # NULL
      <4>1. data[t] # data[target[w]]
        BY <3>1, <3>3 DEF MutexesHeld
      <4>2. locked' = [locked EXCEPT ![data[target[w]]] = FALSE]
        BY <2>2, <3>3 DEF Unlocked
      <4>3. data[t] \in 1 .. Len(goals)
        BY <1>2 DEF MutexesHeld, Waited, TypeInv, MainType, InputType
      <4> QED
        BY <1>2, <4>1, <4>2, <4>3 DEF TypeInv, SharedType
    <3> QED
      BY <3>2, <3>3
  <2> QED
    BY <1>1, <2>1, <2>2
<1>3. ASSUME NEW t \in accepted
      PROVE  Waited(t)'
  <2>1. Waited(t)
    BY DEF MutexesHeld
  <2>2. CASE t \in Decided'
    BY <1>1, <2>1, <2>2 DEF Waited
  <2>3. CASE t \notin Decided'
    <3>1. t \notin Decided
      BY <1>1, <2>3
    <3>2. /\ main.pc \in {"goals", "wait"}
          /\ locked[data[t]]
          /\ main.pc = "wait" => main.i <= data[t]
      BY <2>1, <3>1, Zenon DEF Waited
    <3>3. locked'[data[t]]
      BY <1>2, <2>3, <3>2
    <3> QED
      BY <1>1, <2>1, <3>2, <3>3, Zenon DEF Waited
  <2> QED
    BY <2>2, <2>3
<1> QED
  BY <1>1, <1>3 DEF MutexesHeld

\* States tell who has a target, and mutexes who scans, in every state.
LEMMA SpecMutexes == Spec => [](StatesTell /\ MutexesHeld)
<1> DEFINE Inv == StatesTell /\ MutexesHeld
<1>1. Init => Inv
  BY DEF Init, Inv, StatesTell, StateTells, PlaceTells, MutexesHeld, Waited, Scanning
<1>2. TypeInv /\ Inv /\ [Next]_vars => Inv'
  <2> SUFFICES ASSUME TypeInv, Inv, [Next]_vars
               PROVE  Inv'
    OBVIOUS
  <2>1. CASE Main
    BY <2>1, MainKeepsStates, MainKeepsMutexes
  <2>2. ASSUME NEW w \in Worker, Work(w)
        PROVE  Inv'
    BY <2>2, WorkKeepsStates, WorkKeepsMutexes
  <2>3. CASE UNCHANGED vars
    BY <2>3 DEF vars, inputs, shared, local, history, StatesTell, StateTells, PlaceTells, MutexesHeld, Waited, Decided
  <2> QED
    BY <2>1, <2>2, <2>3 DEF Next
<1> QED
  BY <1>1, <1>2, SpecType, PTL DEF Spec

\* parmake() does not return before every goal it accepted was made or has
\* failed, in every build and however its workers raced.
THEOREM GoalsAreDecided == Spec => []ExitMeansDone
<1>1. TypeInv /\ MutexesHeld => ExitMeansDone
  <2> SUFFICES ASSUME MutexesHeld, main.pc \in {"stop", "done"}, NEW t \in accepted
               PROVE  t \in Decided
    BY DEF ExitMeansDone, Decided
  <2> QED
    BY DEF MutexesHeld, Waited
<1> QED
  BY <1>1, SpecType, SpecMutexes, PTL
------------------------------------------------------------------------------
(* One load: the tests of one pass see the same state, because the build    *)
(* keeps it (-O2) or because nobody else writes it (-j 1).                  *)

OneLoad == ~ Reloads \/ \E w : Worker = {w}
LoadsAgree == \A w \in Worker : pc[w] \in {"test", "result"} => Loaded(w) = seen[w]

\* A single worker has just loaded the state it looks at.
SeenNow == \A w \in Worker : pc[w] \in {"test", "claim", "result"} => seen[w] = state[dep[w]]
\* So it is in every state.
LEMMA AloneSeesNow ==
  ASSUME NEW w, Worker = {w}
  PROVE  Spec => []SeenNow
<1>1. Init => SeenNow
  BY DEF Init, SeenNow
<1>2. TypeInv /\ SeenNow /\ [Next]_vars => SeenNow'
  <2> SUFFICES ASSUME TypeInv, SeenNow, [Next]_vars
               PROVE  SeenNow'
    OBVIOUS
  <2>1. CASE Main
    <3>1. /\ state' = state
          /\ \/ UNCHANGED local
             \/ \A v \in Worker : pc'[v] = "pull"
      BY <2>1 DEF Main, RejectGoal, AcceptGoal, StartThreads, WaitForGoal, StopThreads, PushNull,
                  Join, shared, local
    <3> QED
      BY <3>1 DEF SeenNow, local
  <2>2. ASSUME Work(w)
        PROVE  SeenNow'
    <3> USE DEF At, Goto, shared, TypeInv, LocalType
    <3>1. CASE Look(w)
      BY <2>2, <3>1 DEF Look, SeenNow
    <3>2. CASE Test(w)
      BY <2>2, <3>2 DEF Test, SeenNow
    <3>3. CASE ~ (Look(w) \/ Test(w))
      <4>1. pc'[w] \notin {"test", "claim", "result"}
        BY <2>2, <3>3 DEF Work, Pull, Claim, Result, GiveUp, PutAside, PushBack, Decide, RunRule,
                          Finish, Lock, Drain
      <4> QED
        BY <4>1 DEF SeenNow
    <3> QED
      BY <3>1, <3>2, <3>3
  <2>3. CASE UNCHANGED vars
    BY <2>3 DEF vars, shared, local, SeenNow
  <2> QED
    BY <2>1, <2>2, <2>3 DEF Next
<1> QED
  BY <1>1, <1>2, SpecType, PTL DEF Spec

\* So one load is all that a pass sees.
LEMMA SpecLoads ==
  ASSUME OneLoad
  PROVE  Spec => []LoadsAgree
<1>1. CASE ~ Reloads
  <2>1. LoadsAgree
    BY <1>1 DEF LoadsAgree, Loaded
  <2> QED
    BY <2>1, PTL
<1>2. ASSUME NEW w, Worker = {w}
      PROVE  Spec => []LoadsAgree
  <2>1. SeenNow => LoadsAgree
    BY DEF SeenNow, LoadsAgree, Loaded
  <2> QED
    BY <1>2, <2>1, AloneSeesNow, PTL
<1> QED
  BY <1>1, <1>2 DEF OneLoad

\* What the worker knows of the dependency it is looking at.
LoadTells(w) ==
  /\ dep[w] \in deps[target[w]]
  /\ seen[w] = 2 => back[w] = TRUE
  /\ seen[w] = 1 => dep[w] \in built
  /\ seen[w] = -1 => dep[w] \in broken

\* A pass over the dependencies that found nothing to wait for and nothing
\* failed has seen made every dependency behind it.
Passed(w) ==
  failed[w] = FALSE /\ back[w] = FALSE =>
    \A d \in deps[target[w]] \ todo[w] : d \in built \/ (pc[w] # "scan" /\ d = dep[w])
ScanTells(w) ==
  /\ pc[w] \in {"test", "claim", "result"} => LoadTells(w)
  /\ pc[w] = "claim" => seen[w] = 0
  /\ pc[w] = "result" => seen[w] # 0
  /\ pc[w] \in Scanning => todo[w] \subseteq deps[target[w]] /\ Passed(w)
  /\ pc[w] = "running" => deps[target[w]] \subseteq built
BuiltInOrder == \A t \in built : deps[t] \subseteq built
ScansTell == BuiltInOrder /\ \A w \in Worker : ScanTells(w)

Same(v) ==
  /\ target'[v] = target[v] /\ pc'[v] = pc[v] /\ todo'[v] = todo[v] /\ dep'[v] = dep[v]
  /\ seen'[v] = seen[v] /\ back'[v] = back[v] /\ failed'[v] = failed[v]

\* What has been made or has failed is not forgotten, and a worker leaves the
\* others where they are.
LEMMA WorkGrows ==
  ASSUME LocalType, NEW w \in Worker, Work(w)
  PROVE  /\ UNCHANGED inputs
         /\ built \subseteq built' /\ broken \subseteq broken'
         /\ \A v \in Worker \ {w} : Same(v)
<1> USE DEF At, Goto, history, shared, LocalType, Same
<1>1. CASE Pull(w)
  BY <1>1 DEF Pull
<1>2. CASE Look(w)
  BY <1>2 DEF Look
<1>3. CASE Test(w)
  BY <1>3 DEF Test
<1>4. CASE Claim(w)
  BY <1>4 DEF Claim
<1>5. CASE Result(w)
  BY <1>5 DEF Result
<1>6. CASE GiveUp(w)
  BY <1>6 DEF GiveUp
<1>7. CASE PutAside(w)
  BY <1>7 DEF PutAside
<1>8. CASE PushBack(w)
  BY <1>8 DEF PushBack
<1>9. CASE Decide(w)
  BY <1>9 DEF Decide
<1>10. CASE RunRule(w)
  BY <1>10 DEF RunRule
<1>11. CASE Finish(w)
  BY <1>11 DEF Finish
<1>12. CASE Lock(w)
  BY <1>12 DEF Lock
<1>13. CASE Drain(w)
  BY <1>13 DEF Drain
<1> QED
  BY <1>1, <1>2, <1>3, <1>4, <1>5, <1>6, <1>7, <1>8, <1>9, <1>10, <1>11, <1>12, <1>13 DEF Work

\* A step that makes nothing leaves what is made in order.
LEMMA OthersScan ==
  ASSUME TypeInv, NEW v \in Worker, ScanTells(v), Same(v), UNCHANGED inputs,
         built \subseteq built', broken \subseteq broken'
  PROVE  ScanTells(v)'
<1>1. deps' = deps
  BY DEF inputs
<1>2. pc'[v] \in {"test", "claim", "result"} => LoadTells(v)'
  BY <1>1 DEF ScanTells, LoadTells, Same
<1>3. pc'[v] \in Scanning => todo'[v] \subseteq deps'[target'[v]] /\ Passed(v)'
  BY <1>1 DEF ScanTells, Passed, Same
<1> QED
  BY <1>1, <1>2, <1>3 DEF ScanTells, Same

\* A scan keeps track of what it has seen, whichever step it takes.
LEMMA WorkerScans ==
  ASSUME LoadsAgree, TypeInv, StatesTell, NEW w \in Worker, ScanTells(w), Work(w)
  PROVE  ScanTells(w)'
<1> USE DEF At, Goto, TypeInv, LocalType, ScanTells
<1>0. deps' = deps /\ built \subseteq built' /\ broken \subseteq broken'
  BY WorkGrows DEF inputs
<1>1. CASE Pull(w)
  <2>1. CASE pc'[w] \in {"pull", "exit"}
    BY <2>1 DEF Scanning
  <2>2. ASSUME NEW t \in Target,
               /\ target' = [target EXCEPT ![w] = t]
               /\ todo' = [todo EXCEPT ![w] = deps[t]]
               /\ Goto(w, "scan")
        PROVE  ScanTells(w)'
    BY <1>0, <2>2 DEF Scanning, Passed
  <2> QED
    BY <1>1, <2>1, <2>2 DEF Pull
<1>2. CASE Look(w)
  <2>0. PICK d \in todo[w] : /\ dep' = [dep EXCEPT ![w] = d]
                              /\ seen' = [seen EXCEPT ![w] = state[d]]
                              /\ todo' = [todo EXCEPT ![w] = todo[w] \ {d}]
                              /\ back' = [back EXCEPT ![w] = back[w] \/ state[d] = 2]
    BY <1>2, Zenon DEF Look
  <2>1. /\ dep' = [dep EXCEPT ![w] = d]
        /\ seen' = [seen EXCEPT ![w] = state[d]]
        /\ todo' = [todo EXCEPT ![w] = todo[w] \ {d}]
    BY <2>0, Zenon
  <2>2. /\ target' = target /\ failed' = failed /\ built' = built /\ broken' = broken
        /\ pc[w] = "scan" /\ pc'[w] = "test"
    BY <1>2 DEF Look, history
  <2>3. d \in Target /\ dep'[w] = d /\ seen'[w] = state[d] /\ todo'[w] = todo[w] \ {d}
    BY <2>1
  <2>b. back'[w] = (back[w] \/ state[d] = 2)
    BY <2>0, Zenon
  <2>4. state[d] = 2 => back'[w] = TRUE
    BY <2>b, Zenon
  <2>5. back'[w] = FALSE => back[w] = FALSE
    BY <2>b, Zenon
  <2>6. StateTells(d)
    BY <2>3 DEF StatesTell
  <2>7. LoadTells(w)'
    BY <1>0, <2>2, <2>3, <2>4, <2>6 DEF LoadTells, StateTells, Scanning
  <2>8. todo'[w] \subseteq deps'[target'[w]] /\ Passed(w)'
    BY <1>0, <2>2, <2>3, <2>5 DEF Passed, Scanning
  <2> QED
    BY <2>2, <2>7, <2>8
<1>3. CASE Test(w)
  <2>1. /\ pc[w] = "test" /\ pc'[w] = IF seen[w] = 0 THEN "claim" ELSE "result"
        /\ UNCHANGED <<target, todo, dep, seen, back, failed, built, broken>>
    BY <1>3 DEF Test, LoadsAgree, history
  <2>2. LoadTells(w)' /\ Passed(w)'
    BY <1>0, <2>1 DEF LoadTells, Passed, Scanning
  <2> QED
    BY <1>0, <2>1, <2>2 DEF Scanning
<1>4. CASE Claim(w)
  <2>1. /\ pc[w] = "claim" /\ pc'[w] = "scan" /\ back'[w] = TRUE
        /\ UNCHANGED <<target, todo>>
    BY <1>4 DEF Claim
  <2> QED
    BY <1>0, <2>1 DEF Passed, Scanning
<1>5. CASE Result(w)
  <2>1. /\ pc[w] = "result" /\ pc'[w] = "scan"
        /\ UNCHANGED <<target, todo, dep, seen, back, built>>
    BY <1>5 DEF Result
  <2>2. CASE seen[w] = -1
    <3>1. failed'[w] = TRUE
      BY <1>5, <2>2 DEF Result, LoadsAgree
    <3> QED
      BY <1>0, <2>1, <3>1 DEF Passed, Scanning
  <2>3. CASE seen[w] # -1
    <3>1. failed' = failed
      BY <1>5, <2>3 DEF Result, LoadsAgree
    <3>2. back[w] = FALSE => dep[w] \in built
      BY <2>1, <2>3 DEF LoadTells
    <3>3. Passed(w)'
      BY <1>0, <2>1, <3>1, <3>2 DEF Passed, Scanning
    <3> QED
      BY <1>0, <2>1, <3>3 DEF Scanning
  <2> QED
    BY <2>2, <2>3
<1>6. CASE GiveUp(w)
  BY <1>6, <1>0 DEF GiveUp, Scanning, Scanned
<1>7. CASE PutAside(w)
  BY <1>7, <1>0 DEF PutAside, Scanning, Scanned
<1>8. CASE PushBack(w)
  BY <1>8, <1>0 DEF PushBack, Scanning
<1>9. CASE Decide(w)
  <2>1. /\ pc[w] = "scan" /\ todo[w] = {} /\ failed[w] = FALSE /\ back[w] = FALSE
        /\ pc'[w] \in {"running", "finish"} /\ target' = target
    BY <1>9 DEF Decide, Scanned
  <2>2. deps[target[w]] \subseteq built
    BY <2>1 DEF Passed, Scanning
  <2> QED
    BY <1>0, <2>1, <2>2 DEF Scanning
<1>10. CASE RunRule(w)
  BY <1>10, <1>0 DEF RunRule, Scanning
<1>11. CASE Finish(w)
  BY <1>11, <1>0 DEF Finish, Scanning
<1>12. CASE Lock(w)
  BY <1>12, <1>0 DEF Lock, Scanning
<1>13. CASE Drain(w)
  BY <1>13, <1>0 DEF Drain, Scanning
<1> QED
  BY <1>1, <1>2, <1>3, <1>4, <1>5, <1>6, <1>7, <1>8, <1>9, <1>10, <1>11, <1>12, <1>13 DEF Work

\* A command starts only when every dependency is done.
LEMMA WorkBuildsInOrder ==
  ASSUME TypeInv, BuiltInOrder, NEW w \in Worker, ScanTells(w), Work(w)
  PROVE  BuiltInOrder'
<1> USE DEF At, Goto, BuiltInOrder
<1>0. deps' = deps
  BY WorkGrows DEF inputs, TypeInv
<1>a. ASSUME deps[target[w]] \subseteq built,
             built' = built \/ built' = built \cup {target[w]}
      PROVE  BuiltInOrder'
  BY <1>0, <1>a
<1>1. CASE Pull(w)
  BY <1>1, <1>0 DEF Pull, history
<1>2. CASE Look(w)
  BY <1>2, <1>0 DEF Look, history
<1>3. CASE Test(w)
  BY <1>3, <1>0 DEF Test, history
<1>4. CASE Claim(w)
  BY <1>4, <1>0 DEF Claim, history
<1>5. CASE Result(w)
  BY <1>5, <1>0 DEF Result, history
<1>6. CASE GiveUp(w)
  BY <1>6, <1>0 DEF GiveUp, history
<1>7. CASE PutAside(w)
  BY <1>7, <1>0 DEF PutAside, history
<1>8. CASE PushBack(w)
  BY <1>8, <1>0 DEF PushBack, history
<1>9. CASE Decide(w)
  <2>1. deps[target[w]] \subseteq built
    BY <1>9 DEF Decide, Scanned, ScanTells, Passed, Scanning, TypeInv, LocalType
  <2> QED
    BY <1>9, <1>a, <2>1 DEF Decide
<1>10. CASE RunRule(w)
  <2>1. deps[target[w]] \subseteq built
    BY <1>10 DEF RunRule, ScanTells
  <2> QED
    BY <1>10, <1>a, <2>1 DEF RunRule
<1>11. CASE Finish(w)
  BY <1>11, <1>0 DEF Finish, history
<1>12. CASE Lock(w)
  BY <1>12, <1>0 DEF Lock, history
<1>13. CASE Drain(w)
  BY <1>13, <1>0 DEF Drain, history
<1> QED
  BY <1>1, <1>2, <1>3, <1>4, <1>5, <1>6, <1>7, <1>8, <1>9, <1>10, <1>11, <1>12, <1>13 DEF Work

\* The main thread does not disturb a scan,
LEMMA MainKeepsScans ==
  ASSUME TypeInv, ScansTell, Main
  PROVE  ScansTell'
<1>1. /\ UNCHANGED <<deps, built, broken>>
      /\ \/ UNCHANGED local
         \/ \A w \in Worker : pc'[w] = "pull"
  <2>1. CASE StartThreads
    BY <2>1 DEF StartThreads, inputs, history, TypeInv, LocalType
  <2>2. CASE RejectGoal
    BY <2>2 DEF RejectGoal, inputs, history
  <2>3. CASE AcceptGoal
    BY <2>3 DEF AcceptGoal, inputs
  <2>4. CASE WaitForGoal
    BY <2>4 DEF WaitForGoal, inputs, history
  <2>5. CASE StopThreads
    BY <2>5 DEF StopThreads, inputs, history
  <2>6. CASE PushNull
    BY <2>6 DEF PushNull, inputs, history
  <2>7. CASE Join
    BY <2>7 DEF Join, inputs, history
  <2> QED
    BY <2>1, <2>2, <2>3, <2>4, <2>5, <2>6, <2>7 DEF Main
<1>2. CASE UNCHANGED local
  BY <1>1, <1>2 DEF local, ScansTell, ScanTells, LoadTells, Passed, BuiltInOrder
<1>3. CASE \A w \in Worker : pc'[w] = "pull"
  BY <1>1, <1>3 DEF ScansTell, ScanTells, Scanning, BuiltInOrder
<1> QED
  BY <1>1, <1>2, <1>3

\* so that no step does.
LEMMA StepKeepsScans ==
  ASSUME LoadsAgree, TypeInv, StatesTell, ScansTell, [Next]_vars
  PROVE  ScansTell'
<1>1. CASE Main
  BY <1>1, MainKeepsScans
<1>2. ASSUME NEW w \in Worker, Work(w)
      PROVE  ScansTell'
  <2>1. BuiltInOrder'
    BY <1>2, WorkBuildsInOrder DEF ScansTell
  <2>2. ScanTells(w)'
    BY <1>2, WorkerScans DEF ScansTell
  <2>3. ASSUME NEW v \in Worker \ {w}
        PROVE  ScanTells(v)'
    BY <1>2, WorkGrows, OthersScan DEF ScansTell, TypeInv
  <2> QED
    BY <2>1, <2>2, <2>3 DEF ScansTell
<1>3. CASE UNCHANGED vars
  BY <1>3 DEF vars, inputs, local, history, ScansTell, ScanTells, LoadTells, Passed, BuiltInOrder
<1> QED
  BY <1>1, <1>2, <1>3 DEF Next

\* What a worker noted while scanning stays true of the states.
LEMMA SpecScans ==
  ASSUME OneLoad
  PROVE  Spec => []ScansTell
<1>1. Init => ScansTell
  BY DEF Init, ScansTell, ScanTells, BuiltInOrder, Scanning
<1>2. LoadsAgree /\ TypeInv /\ StatesTell /\ ScansTell /\ [Next]_vars => ScansTell'
  BY StepKeepsScans
<1> QED
  BY <1>1, <1>2, SpecType, SpecMutexes, SpecLoads, PTL DEF Spec

\* When the tests of one pass see one load of rule->state (the build keeps it, or
\* there is one worker) no rule runs, and none counts as made, before every rule it depends on was made,
\* however the workers raced for them.
THEOREM MadeInOrder ==
  ASSUME OneLoad
  PROVE  Spec => []DependenciesFirst
<1>1. ScansTell => DependenciesFirst
  BY DEF ScansTell, ScanTells, BuiltInOrder, DependenciesFirst, Running
<1> QED
  BY <1>1, SpecScans, PTL
------------------------------------------------------------------------------
(* Files and failures, with one load; m0 are the times of the files         *)
(* before the run, all of them from an earlier second.                      *)

\* The rules below a rule are a closed set, and in every closed set it is in.
LEMMA BelowIsLeast ==
  ASSUME InputType, NEW t \in Target
  PROVE  /\ t \in Below(t) /\ Below(t) \subseteq Target /\ Closed(Below(t))
         /\ \A S \in SUBSET Target : t \in S /\ Closed(S) => Below(t) \subseteq S
<1>1. t \in Below(t) /\ Below(t) \subseteq Target
  BY DEF Below
<1>2. ASSUME NEW u \in Below(t), NEW d \in deps[u]
      PROVE  d \in Below(t)
  <2>1. d \in Target
    BY <1>1, <1>2 DEF InputType
  <2>2. ASSUME NEW S \in SUBSET Target, t \in S, Closed(S)
        PROVE  d \in S
    BY <1>2, <2>2 DEF Below, Closed
  <2> QED
    BY <2>1, <2>2 DEF Below
<1>3. ASSUME NEW S \in SUBSET Target, t \in S, Closed(S)
      PROVE  Below(t) \subseteq S
  BY <1>3 DEF Below
<1> QED
  BY <1>1, <1>2, <1>3 DEF Closed

\* What is below something below a rule is below the rule.
LEMMA BelowBelow ==
  ASSUME InputType, NEW t \in Target, NEW u \in Below(t)
  PROVE  u \in Target /\ Below(u) \subseteq Below(t) /\ \A d \in deps[u] : d \in Below(t)
<1>1. u \in Target /\ Below(t) \in SUBSET Target /\ Closed(Below(t))
  BY BelowIsLeast
<1> QED
  BY <1>1, BelowIsLeast DEF Closed

\* It depends on the graph only.
LEMMA BelowSame ==
  ASSUME UNCHANGED deps, NEW t
  PROVE  Below(t)' = Below(t)
BY DEF Below, Closed

Older == \A t \in Target : mtime[t] < clock

\* No rule below has failed after it wrote its file.
Clean(t) == Below(t) \cap torn = {}

LEMMA CleanBelow ==
  ASSUME InputType, NEW t \in Target, NEW d \in deps[t], Clean(t)
  PROVE  Clean(d) /\ t \notin torn /\ d \in Target /\ d \notin torn
BY BelowIsLeast, BelowBelow DEF Clean, Closed, InputType

Written(m0, t) == mtime[t] # m0[t]

\* Only rules whose commands write do, those that fail become torn, and what is
\* written is newer than any file there was.
WritesTell(m0) ==
  /\ \A u \in Target : clock > m0[u]
  /\ \A t \in Target : Written(m0, t) =>
       /\ t \in Makes /\ (t \in fails => t \in torn)
       /\ \A u \in Target : mtime[t] > m0[u]

\* A rule runs because its file was stale.  A rule counts as made without a
\* file of its own being written only if it was up to date, and still is; it
\* has failed because of a dependency, or its command failed.
RunTells(m0, w) == pc[w] = "running" /\ ~ Written(m0, target[w]) => Stale(target[w])
MadeTells(m0, t) == ~ Written(m0, t) /\ (t \in Makes \/ t \in fails) => ~ Stale(t)
FailTells(t) == deps[t] \cap broken # {} \/ (t \in fails /\ Stale(t))
Apart == \A t \in built \cap broken : ~ Clean(t)
FilesTell(m0) ==
  /\ WritesTell(m0)
  /\ \A w \in Worker : RunTells(m0, w)
  /\ \A t \in built : Clean(t) => MadeTells(m0, t)
  /\ \A t \in broken : Clean(t) => FailTells(t)
  /\ Apart

\* Files that are not touched keep the rules as stale as they were.
LEMMA StaleSame ==
  ASSUME UNCHANGED <<deps, mtime>>, NEW t
  PROVE  Stale(t)' <=> Stale(t)
BY DEF Stale

\* The same of the state after a step.
LEMMA StaleMeansNext ==
  (InputType /\ SharedType => \A t \in Target : Stale(t) <=> Outdated(t))'
BY StaleMeans, PTL

\* A rule that is out of date stays so while others write newer files than its own.
LEMMA StaleStays ==
  ASSUME InputType, SharedType, InputType', SharedType', deps' = deps,
         NEW u \in Target, Write(u),
         NEW t \in Target, t # u, mtime[t] < clock, Stale(t)
  PROVE  Stale(t)'
<1>1. \A v \in Target : mtime'[v] = IF v = u THEN clock' ELSE mtime[v]
  BY WriteTells
<1>2. deps[t] \subseteq Target /\ mtime'[t] = mtime[t]
  BY <1>1 DEF InputType
<1>3. clock' > mtime[t]
  BY WriteTells DEF SharedType
<1>4. Outdated(t)
  BY StaleMeans
<1>5. Outdated(t)'
  <2>1. CASE u \in deps[t]
    BY <1>1, <1>2, <1>3, <2>1 DEF Outdated
  <2>2. CASE u \notin deps[t]
    <3>1. \A d \in deps[t] : mtime'[d] = mtime[d]
      BY <1>1, <1>2, <2>2
    <3> QED
      BY <1>2, <1>4, <3>1 DEF Outdated
  <2> QED
    BY <2>1, <2>2
<1> QED
  BY <1>5, StaleMeansNext

\* A file that is up to date stays so when another is written that it does not
\* depend on.
LEMMA FreshStays ==
  ASSUME InputType, SharedType, InputType', SharedType', deps' = deps,
         NEW u \in Target, Write(u),
         NEW t \in Target, t # u, u \notin deps[t], ~ Stale(t)
  PROVE  ~ Stale(t)'
<1>1. \A v \in Target : v # u => mtime'[v] = mtime[v]
  BY WriteTells
<1>2. deps[t] \subseteq Target /\ mtime'[t] = mtime[t] /\ \A d \in deps[t] : mtime'[d] = mtime[d]
  BY <1>1 DEF InputType
<1>3. ~ Outdated(t)
  BY StaleMeans
<1>4. ~ Outdated(t)'
  BY <1>2, <1>3 DEF Outdated
<1> QED
  BY <1>4, StaleMeansNext

\* Steps that neither write a file nor decide a rule.
LEMMA QuietKeepsFiles ==
  ASSUME NEW m0, TypeInv, FilesTell(m0), UNCHANGED <<inputs, mtime, clock, built, broken, torn>>,
         \A w \in Worker : pc'[w] = "running" => pc[w] = "running" /\ target'[w] = target[w]
  PROVE  FilesTell(m0)'
<1>1. deps' = deps /\ fails' = fails /\ \A t : Stale(t)' <=> Stale(t)
  BY StaleSame DEF inputs
<1>2. \A t : Written(m0, t)' <=> Written(m0, t)
  BY DEF Written
<1>3. WritesTell(m0)'
  BY <1>1, <1>2 DEF FilesTell, WritesTell
<1>c. \A t : Clean(t)' <=> Clean(t)
  BY <1>1, BelowSame DEF Clean
<1>4. ASSUME NEW w \in Worker
      PROVE  RunTells(m0, w)'
  BY <1>1, <1>2 DEF FilesTell, RunTells
<1>5. ASSUME NEW t \in built, Clean(t)'
      PROVE  MadeTells(m0, t)'
  BY <1>1, <1>2, <1>c, <1>5 DEF FilesTell, MadeTells
<1>6. ASSUME NEW t \in broken, Clean(t)'
      PROVE  FailTells(t)'
  BY <1>1, <1>c, <1>6 DEF FilesTell, FailTells
<1>7. Apart'
  BY <1>c DEF FilesTell, Apart
<1> QED
  BY <1>3, <1>4, <1>5, <1>6, <1>7 DEF FilesTell

\* A rule that failed is never up to date, unless one below it is torn.
LEMMA NeitherBoth ==
  ASSUME TypeInv, BuiltInOrder, NEW m0, FilesTell(m0), NEW t \in Target, Clean(t)
  PROVE  /\ t \in broken /\ deps[t] \subseteq built => t \in fails /\ Stale(t)
         /\ deps[t] \cap broken # {} => t \notin built
<1>1. Apart /\ (t \in broken => FailTells(t))
  BY DEF FilesTell
<1>2. \A d \in deps[t] : Clean(d)
  BY CleanBelow DEF TypeInv
<1>3. deps[t] \cap broken \cap built = {}
  BY <1>1, <1>2 DEF Apart
<1> QED
  BY <1>1, <1>3 DEF FailTells, BuiltInOrder

\* Reading a dependency keeps what is known of the files,
LEMMA ResultKeepsFiles ==
  ASSUME LoadsAgree, TypeInv, StatesTell, BuiltInOrder, NEW m0, FilesTell(m0),
         NEW w \in Worker, ScanTells(w), Result(w)
  PROVE  FilesTell(m0)'
<1> DEFINE t == target[w]
<1>1. /\ pc[w] = "result" /\ UNCHANGED <<inputs, mtime, clock, built, torn, target>>
      /\ pc' = [pc EXCEPT ![w] = "scan"]
      /\ broken' = broken \/ (broken' = broken \cup {t} /\ seen[w] = -1)
  BY DEF Result, At, Goto, LoadsAgree
<1>2. \A v \in Worker : pc'[v] = "running" => pc[v] = "running" /\ target'[v] = target[v]
  BY <1>1 DEF TypeInv, LocalType
<1>3. CASE broken' = broken
  BY <1>1, <1>2, <1>3, QuietKeepsFiles
<1>4. CASE broken' = broken \cup {t} /\ seen[w] = -1
  <2>1. t \in Target /\ deps[t] \cap broken # {}
    BY <1>1, <1>4 DEF ScanTells, LoadTells, TypeInv, Holds, Holding, Scanning
  <2>2. Clean(t) => t \notin built
    BY <2>1, NeitherBoth
  <2>3. deps' = deps /\ fails' = fails /\ \A u : Stale(u)' <=> Stale(u)
    BY <1>1, StaleSame DEF inputs
  <2>4. \A u : Written(m0, u)' <=> Written(m0, u)
    BY <1>1 DEF Written
  <2>c. \A u : Clean(u)' <=> Clean(u)
    BY <1>1, <2>3, BelowSame DEF Clean
  <2>5. WritesTell(m0)'
    BY <1>1, <2>3, <2>4 DEF FilesTell, WritesTell
  <2>6. ASSUME NEW v \in Worker
        PROVE  RunTells(m0, v)'
    BY <1>2, <2>3, <2>4 DEF FilesTell, RunTells
  <2>7. ASSUME NEW u \in built, Clean(u)'
        PROVE  MadeTells(m0, u)'
    BY <2>3, <2>4, <2>c, <2>7 DEF FilesTell, MadeTells
  <2>8. ASSUME NEW u \in broken', Clean(u)'
        PROVE  FailTells(u)'
    <3>1. CASE u = t
      BY <1>4, <2>1, <2>3, <3>1 DEF FailTells
    <3>2. CASE u \in broken
      BY <1>4, <2>3, <2>c, <2>8, <3>2 DEF FailTells, FilesTell
    <3> QED
      BY <1>4, <3>1, <3>2
  <2>9. Apart'
    BY <1>1, <1>4, <2>2, <2>c DEF Apart, FilesTell
  <2> QED
    BY <1>1, <2>5, <2>6, <2>7, <2>8, <2>9 DEF FilesTell
<1> QED
  BY <1>1, <1>3, <1>4

\* so does deciding what becomes of the target,
LEMMA DecideKeepsFiles ==
  ASSUME TypeInv, BuiltInOrder, NEW m0, FilesTell(m0),
         NEW w \in Worker, ScanTells(w), Decide(w)
  PROVE  FilesTell(m0)'
<1> DEFINE t == target[w]
<1>1. /\ pc[w] = "scan" /\ todo[w] = {} /\ failed[w] = FALSE /\ back[w] = FALSE
      /\ UNCHANGED <<inputs, mtime, clock, broken, torn, target>>
      /\ \/ Stale(t) /\ built' = built /\ pc' = [pc EXCEPT ![w] = "running"]
         \/ ~ Stale(t) /\ built' = built \cup {t} /\ pc' = [pc EXCEPT ![w] = "finish"]
  BY DEF Decide, Scanned, At, Goto, TypeInv, LocalType
<1>2. t \in Target /\ deps[t] \subseteq built
  BY <1>1 DEF ScanTells, Passed, TypeInv, Holds, Holding, Scanning
<1>3. deps' = deps /\ fails' = fails /\ \A u : Stale(u)' <=> Stale(u)
  BY <1>1, StaleSame DEF inputs
<1>4. \A u : Written(m0, u)' <=> Written(m0, u)
  BY <1>1 DEF Written
<1>c. \A u : Clean(u)' <=> Clean(u)
  BY <1>1, <1>3, BelowSame DEF Clean
<1>5. WritesTell(m0)'
  BY <1>1, <1>3, <1>4 DEF FilesTell, WritesTell
<1>6. ASSUME NEW v \in Worker
      PROVE  RunTells(m0, v)'
  <2>1. CASE v = w
    BY <1>1, <1>3, <2>1 DEF RunTells, TypeInv, LocalType
  <2>2. CASE v # w
    BY <1>1, <1>3, <1>4, <2>2 DEF RunTells, FilesTell, TypeInv, LocalType
  <2> QED
    BY <2>1, <2>2
<1>7. ASSUME NEW u \in built', Clean(u)'
      PROVE  MadeTells(m0, u)'
  <2>1. CASE u \in built
    BY <1>3, <1>4, <1>c, <1>7, <2>1 DEF MadeTells, FilesTell
  <2>2. CASE u \notin built
    BY <1>1, <1>3, <2>2 DEF MadeTells
  <2> QED
    BY <2>1, <2>2
<1>8. ASSUME NEW u \in broken, Clean(u)'
      PROVE  FailTells(u)'
  BY <1>1, <1>3, <1>c, <1>8 DEF FailTells, FilesTell
<1>9. Apart'
  <2>1. ~ Stale(t) /\ Clean(t) => t \notin broken
    BY <1>2, NeitherBoth
  <2> QED
    BY <1>1, <1>c, <2>1 DEF Apart, FilesTell
<1> QED
  BY <1>1, <1>5, <1>6, <1>7, <1>8, <1>9 DEF FilesTell

\* A failing rule that writes nothing was stale when it began to run, so nobody
\* found it up to date.
LEMMA FailKeepsFiles ==
  ASSUME TypeInv, BuiltInOrder, NEW m0, FilesTell(m0),
         NEW w \in Worker, ScanTells(w), RunRule(w), target[w] \in fails,
         UNCHANGED <<mtime, clock, torn>>
  PROVE  FilesTell(m0)'
<1> DEFINE t == target[w]
<1>1. /\ pc[w] = "running" /\ UNCHANGED <<inputs, built, target>>
      /\ broken' = broken \cup {t} /\ pc' = [pc EXCEPT ![w] = "finish"]
  BY DEF RunRule, At, Goto
<1>2. t \in Target
  BY <1>1 DEF TypeInv, Holds, Holding
<1>3. Clean(t) => ~ Written(m0, t) /\ Stale(t)
  <2>1. t \in Below(t)
    BY <1>2, BelowIsLeast DEF TypeInv
  <2> QED
    BY <1>1, <1>2, <2>1 DEF FilesTell, WritesTell, RunTells, Clean
<1>4. Clean(t) => t \notin built
  BY <1>3 DEF FilesTell, MadeTells
<1>5. deps' = deps /\ fails' = fails /\ \A u : Stale(u)' <=> Stale(u)
  BY <1>1, StaleSame DEF inputs
<1>6. \A u : Written(m0, u)' <=> Written(m0, u)
  BY <1>1 DEF Written
<1>c. \A u : Clean(u)' <=> Clean(u)
  BY <1>5, BelowSame DEF Clean
<1>7. WritesTell(m0)'
  BY <1>1, <1>5, <1>6 DEF FilesTell, WritesTell
<1>8. ASSUME NEW v \in Worker
      PROVE  RunTells(m0, v)'
  BY <1>1, <1>5, <1>6 DEF RunTells, FilesTell, TypeInv, LocalType
<1>9. ASSUME NEW u \in built, Clean(u)'
      PROVE  MadeTells(m0, u)'
  BY <1>5, <1>6, <1>c, <1>9 DEF MadeTells, FilesTell
<1>10. ASSUME NEW u \in broken', Clean(u)'
       PROVE  FailTells(u)'
  <2>1. CASE u = t
    BY <1>3, <1>5, <1>c, <1>10, <2>1 DEF FailTells
  <2>2. CASE u \in broken
    BY <1>1, <1>5, <1>c, <1>10, <2>2 DEF FailTells, FilesTell
  <2> QED
    BY <1>1, <2>1, <2>2
<1>11. Apart'
  BY <1>1, <1>4, <1>c DEF Apart, FilesTell
<1> QED
  BY <1>1, <1>7, <1>8, <1>9, <1>10, <1>11 DEF FilesTell

\* What a rule that writes its file does to those that do not write theirs.
LEMMA WriteKeepsOthers ==
  ASSUME TypeInv, TypeInv', NEW m0 \in [Target -> Nat \cup {-1}], FilesTell(m0),
         NEW t \in Target, Write(t), UNCHANGED inputs, torn \subseteq torn', t \in fails => t \in torn'
  PROVE  /\ WritesTell(m0)' /\ Written(m0, t)'
         /\ \A u \in Target : u # t => (Written(m0, u)' <=> Written(m0, u))
         /\ \A u \in Target : u # t /\ ~ Written(m0, u) /\ Stale(u) => Stale(u)'
         /\ \A u \in Target : u # t /\ t \notin deps[u] /\ ~ Stale(u) => ~ Stale(u)'
         /\ \A u : Clean(u)' => Clean(u)
<1>1. deps' = deps /\ fails' = fails
  BY DEF inputs
<1>2. /\ t \in Makes /\ clock' \in Nat /\ clock <= clock' /\ clock \in Nat
      /\ \A u \in Target : mtime'[u] = IF u = t THEN clock' ELSE mtime[u]
      /\ \A u \in Target : m0[u] \in Int
  BY WriteTells DEF TypeInv, SharedType
<1>3. \A u \in Target : clock > m0[u]
  BY DEF FilesTell, WritesTell
<1>4. \A u \in Target : clock' > m0[u]
  <2> SUFFICES ASSUME NEW u \in Target
               PROVE  clock' > m0[u]
    OBVIOUS
  <2>1. m0[u] \in Int /\ clock > m0[u]
    BY <1>2, <1>3
  <2> QED
    BY <1>2, <2>1
<1>5. Written(m0, t)'
  BY <1>2, <1>4 DEF Written
<1>6. \A u \in Target : u # t => (Written(m0, u)' <=> Written(m0, u))
  BY <1>2 DEF Written
<1>7. WritesTell(m0)'
  <2> SUFFICES ASSUME NEW u \in Target, Written(m0, u)'
               PROVE  u \in Makes /\ (u \in fails => u \in torn') /\ \A v \in Target : mtime'[u] > m0[v]
    BY <1>1, <1>4 DEF WritesTell
  <2>1. CASE u = t
    BY <1>2, <1>4, <2>1
  <2>2. CASE u # t
    <3>1. Written(m0, u) /\ mtime'[u] = mtime[u]
      BY <1>2, <1>6, <2>2
    <3> QED
      BY <3>1 DEF FilesTell, WritesTell
  <2> QED
    BY <2>1, <2>2
<1>8. ASSUME NEW u \in Target, u # t, ~ Written(m0, u), Stale(u)
      PROVE  Stale(u)'
  <2>1. mtime[u] < clock
    BY <1>3, <1>8 DEF Written
  <2> QED
    BY <1>1, <1>8, <2>1, StaleStays DEF TypeInv
<1>9. ASSUME NEW u \in Target, u # t, t \notin deps[u], ~ Stale(u)
      PROVE  ~ Stale(u)'
  BY <1>1, <1>9, FreshStays DEF TypeInv
<1>10. ASSUME NEW u, Clean(u)'
       PROVE  Clean(u)
  BY <1>1, <1>10, BelowSame DEF Clean
<1> QED
  BY <1>5, <1>6, <1>7, <1>8, <1>9, <1>10

\* A failing rule that has written its file makes those above it no longer
\* clean; the others do not depend on it.
LEMMA TearKeepsFiles ==
  ASSUME TypeInv, TypeInv', BuiltInOrder, NEW m0 \in [Target -> Nat \cup {-1}], FilesTell(m0),
         NEW w \in Worker, RunRule(w), target[w] \in fails,
         Write(target[w]), torn' = torn \cup {target[w]}
  PROVE  FilesTell(m0)'
<1> DEFINE t == target[w]
<1>1. /\ pc[w] = "running" /\ UNCHANGED <<inputs, built, target>>
      /\ broken' = broken \cup {t} /\ pc' = [pc EXCEPT ![w] = "finish"]
  BY DEF RunRule, At, Goto
<1>2. t \in Target /\ deps' = deps /\ fails' = fails
  BY <1>1 DEF TypeInv, Holds, Holding, inputs
<1>3. /\ WritesTell(m0)' /\ Written(m0, t)'
      /\ \A u \in Target : u # t => (Written(m0, u)' <=> Written(m0, u))
      /\ \A u \in Target : u # t /\ ~ Written(m0, u) /\ Stale(u) => Stale(u)'
      /\ \A u \in Target : u # t /\ t \notin deps[u] /\ ~ Stale(u) => ~ Stale(u)'
      /\ \A u : Clean(u)' => Clean(u)
  BY <1>1, <1>2, WriteKeepsOthers
<1>4. ASSUME NEW u \in Target, Clean(u)'
      PROVE  u # t /\ t \notin deps[u] /\ u \notin torn
  <2>1. u \in Below(u) /\ \A d \in deps[u] : d \in Below(u)
    BY BelowIsLeast, BelowBelow DEF TypeInv
  <2>2. Below(u)' = Below(u)
    BY <1>2, BelowSame
  <2> QED
    BY <1>4, <2>1, <2>2 DEF Clean
<1>5. ASSUME NEW v \in Worker
      PROVE  RunTells(m0, v)'
  <2> SUFFICES ASSUME pc'[v] = "running", ~ Written(m0, target[v])'
               PROVE  Stale(target[v])'
    BY <1>1 DEF RunTells
  <2>1. pc[v] = "running" /\ target[v] \in Target /\ RunTells(m0, v) /\ target'[v] = target[v]
    BY <1>1 DEF TypeInv, LocalType, Holds, Holding, FilesTell
  <2>2. target[v] # t
    BY <1>1, <1>3, <2>1 DEF Written
  <2>3. ~ Written(m0, target[v])
    BY <1>1, <1>3, <2>1, <2>2 DEF Written
  <2>4. Stale(target[v])
    BY <2>1, <2>3 DEF RunTells
  <2>5. Stale(target[v])'
    BY <1>1, <1>3, <2>1, <2>2, <2>3, <2>4 DEF Stale
  <2> QED
    BY <2>5
<1>6. ASSUME NEW u \in built, Clean(u)'
      PROVE  MadeTells(m0, u)'
  <2>1. u \in Target /\ Clean(u) /\ MadeTells(m0, u)
    BY <1>3, <1>6 DEF TypeInv, HistoryType, FilesTell
  <2>2. u # t /\ t \notin deps[u]
    BY <1>4, <1>6, <2>1
  <2> QED
    BY <1>2, <1>3, <2>1, <2>2 DEF MadeTells
<1>7. ASSUME NEW u \in broken', Clean(u)'
      PROVE  FailTells(u)'
  <2>1. u \in Target
    BY <1>1, <1>2, <1>7 DEF TypeInv, HistoryType
  <2>2. u # t /\ t \notin deps[u] /\ u \notin torn
    BY <1>4, <1>7, <2>1
  <2>3. FailTells(u)
    BY <1>1, <1>3, <1>7, <2>2 DEF FilesTell
  <2>4. u \in fails => ~ Written(m0, u)
    BY <2>1, <2>2 DEF FilesTell, WritesTell
  <2> QED
    BY <1>1, <1>2, <1>3, <2>1, <2>2, <2>3, <2>4 DEF FailTells
<1>8. Apart'
  <2> SUFFICES ASSUME NEW u \in built \cap broken', Clean(u)'
               PROVE  FALSE
    BY <1>1 DEF Apart
  <2>1. u \in Target
    BY DEF TypeInv, HistoryType
  <2>2. u # t
    BY <1>4, <2>1
  <2> QED
    BY <1>1, <1>3, <2>2 DEF Apart, FilesTell
<1> QED
  BY <1>1, <1>3, <1>5, <1>6, <1>7, <1>8 DEF FilesTell

\* A rule that succeeds has made dependencies, and nobody who depends on it
\* was found up to date before.
LEMMA MakeKeepsFiles ==
  ASSUME TypeInv, TypeInv', BuiltInOrder, NEW m0 \in [Target -> Nat \cup {-1}], FilesTell(m0),
         NEW w \in Worker, ScanTells(w), RunRule(w), target[w] \notin fails
  PROVE  FilesTell(m0)'
<1> DEFINE t == target[w]
<1>1. /\ pc[w] = "running" /\ UNCHANGED <<inputs, broken, torn, target>>
      /\ built' = built \cup {t} /\ pc' = [pc EXCEPT ![w] = "finish"]
      /\ Write(t) \/ (t \notin Makes /\ UNCHANGED <<mtime, clock>>)
  BY DEF RunRule, At, Goto
<1>2. t \in Target /\ deps[t] \subseteq built
  BY <1>1 DEF ScanTells, TypeInv, Holds, Holding
<1>3. deps' = deps /\ fails' = fails
  BY <1>1 DEF inputs
<1>c. \A u : Clean(u)' <=> Clean(u)
  BY <1>1, <1>3, BelowSame DEF Clean
<1>15. Clean(t) => t \notin broken
  BY <1>2, NeitherBoth
<1>17. Apart'
  BY <1>1, <1>15, <1>c DEF Apart, FilesTell
<1>18. \A v \in Worker : pc'[v] = "running" =>
         /\ pc[v] = "running" /\ target'[v] = target[v] /\ target[v] \in Target /\ RunTells(m0, v)
  BY <1>1 DEF TypeInv, LocalType, Holds, Holding, FilesTell
<1>19. \A u \in Target : Clean(u) => \A d \in deps[u] : Clean(d)
  BY CleanBelow DEF TypeInv
<1>20. CASE Write(t)
  <2>1. /\ WritesTell(m0)' /\ Written(m0, t)'
        /\ \A u \in Target : u # t => (Written(m0, u)' <=> Written(m0, u))
        /\ \A u \in Target : u # t /\ ~ Written(m0, u) /\ Stale(u) => Stale(u)'
        /\ \A u \in Target : u # t /\ t \notin deps[u] /\ ~ Stale(u) => ~ Stale(u)'
    BY <1>1, <1>2, <1>20, WriteKeepsOthers
  <2>2. t \in Makes
    BY <1>20 DEF Write
  <2>3. ASSUME NEW v \in Worker
        PROVE  RunTells(m0, v)'
    <3> SUFFICES ASSUME pc'[v] = "running", ~ Written(m0, target[v])'
                 PROVE  Stale(target[v])'
      BY <1>1 DEF RunTells
    <3>1. target[v] \in Target /\ RunTells(m0, v) /\ pc[v] = "running"
      BY <1>18
    <3>2. target[v] # t
      BY <1>1, <2>1 DEF Written
    <3>3. ~ Written(m0, target[v])
      BY <1>1, <2>1, <3>1, <3>2 DEF Written
    <3>4. Stale(target[v])
      BY <3>1, <3>3 DEF RunTells
    <3>5. Stale(target[v])'
      BY <1>1, <2>1, <3>1, <3>2, <3>3, <3>4 DEF Stale
    <3> QED
      BY <3>5
  <2>4. ASSUME NEW u \in built', Clean(u)'
        PROVE  MadeTells(m0, u)'
    <3> SUFFICES ASSUME ~ Written(m0, u)', u \in Makes \/ u \in fails
                 PROVE  ~ Stale(u)'
      BY <1>3 DEF MadeTells
    <3>1. u # t
      BY <1>1, <2>1 DEF Written
    <3>2. u \in built /\ u \in Target /\ Clean(u)
      BY <1>1, <1>c, <2>4, <3>1 DEF TypeInv, HistoryType
    <3>3. ~ Written(m0, u) /\ ~ Stale(u)
      BY <2>1, <3>1, <3>2 DEF FilesTell, MadeTells
    <3>4. ASSUME t \in deps[u]
          PROVE  FALSE
      <4>1. t \in built /\ Clean(t)
        BY <1>19, <3>2, <3>4 DEF BuiltInOrder
      <4>2. CASE Written(m0, t)
        <5>1. mtime[t] > mtime[u]
          BY <1>2, <3>2, <3>3, <4>2 DEF FilesTell, WritesTell, Written
        <5> QED
          BY <3>2, <3>3, <3>4, <5>1, StaleMeans DEF TypeInv, Outdated
      <4>3. CASE ~ Written(m0, t)
        <5>1. Stale(t)
          BY <1>1, <4>3 DEF FilesTell, RunTells
        <5> QED
          BY <2>2, <4>1, <4>3, <5>1 DEF FilesTell, MadeTells
      <4> QED
        BY <4>2, <4>3
    <3> QED
      BY <2>1, <3>1, <3>2, <3>3, <3>4
  <2>5. ASSUME NEW u \in broken, Clean(u)'
        PROVE  FailTells(u)'
    <3>1. FailTells(u) /\ u \in Target /\ u # t
      BY <1>15, <1>c, <2>5 DEF FilesTell, TypeInv, HistoryType
    <3>2. u \in fails => ~ Written(m0, u)
      <4>1. u \in Below(u)
        BY <3>1, BelowIsLeast DEF TypeInv
      <4> QED
        BY <1>c, <2>5, <3>1, <4>1 DEF FilesTell, WritesTell, Clean
    <3> QED
      BY <1>1, <1>3, <2>1, <3>1, <3>2 DEF FailTells
  <2> QED
    BY <1>1, <1>17, <2>1, <2>3, <2>4, <2>5 DEF FilesTell
<1>21. CASE t \notin Makes /\ UNCHANGED <<mtime, clock>>
  <2>1. \A u : Stale(u)' <=> Stale(u)
    BY <1>3, <1>21, StaleSame
  <2>2. \A u : Written(m0, u)' <=> Written(m0, u)
    BY <1>21 DEF Written
  <2>3. WritesTell(m0)'
    BY <1>1, <1>3, <1>21, <2>2 DEF FilesTell, WritesTell
  <2>4. ASSUME NEW v \in Worker
        PROVE  RunTells(m0, v)'
    BY <1>18, <2>1, <2>2 DEF RunTells
  <2>5. ASSUME NEW u \in built', Clean(u)'
        PROVE  MadeTells(m0, u)'
    <3>1. CASE u = t
      BY <1>3, <1>21, <3>1 DEF MadeTells
    <3>2. CASE u \in built
      BY <1>3, <1>c, <2>1, <2>2, <2>5, <3>2 DEF MadeTells, FilesTell
    <3> QED
      BY <1>1, <3>1, <3>2
  <2>6. ASSUME NEW u \in broken, Clean(u)'
        PROVE  FailTells(u)'
    BY <1>1, <1>3, <1>c, <2>1, <2>6 DEF FailTells, FilesTell
  <2> QED
    BY <1>1, <1>17, <2>3, <2>4, <2>5, <2>6 DEF FilesTell
<1> QED
  BY <1>1, <1>20, <1>21

\* and so does every other step of a worker,
LEMMA WorkKeepsFiles ==
  ASSUME LoadsAgree, TypeInv, TypeInv', StatesTell, BuiltInOrder,
         NEW m0 \in [Target -> Nat \cup {-1}], FilesTell(m0),
         NEW w \in Worker, ScanTells(w), Work(w)
  PROVE  FilesTell(m0)'
<1>0. ASSUME UNCHANGED <<inputs, mtime, clock, built, broken, torn>>, pc'[w] # "running",
             target' = target \/ pc'[w] = "scan"
      PROVE  FilesTell(m0)'
  <2>1. \A v \in Worker : pc'[v] = "running" => pc[v] = "running" /\ target'[v] = target[v]
    BY <1>0, WorkGrows DEF Same, TypeInv
  <2> QED
    BY <1>0, <2>1, QuietKeepsFiles
<1> USE DEF At, Goto, TypeInv, LocalType
<1>1. CASE Pull(w)
  BY <1>1, <1>0 DEF Pull, inputs, shared, history
<1>2. CASE Look(w)
  BY <1>2, <1>0 DEF Look, inputs, shared, history
<1>3. CASE Test(w)
  BY <1>3, <1>0 DEF Test, inputs, shared, history
<1>4. CASE Claim(w)
  BY <1>4, <1>0 DEF Claim, inputs, shared, history
<1>5. CASE Result(w)
  BY <1>5, ResultKeepsFiles
<1>6. CASE GiveUp(w)
  BY <1>6, <1>0 DEF GiveUp, inputs, shared, history
<1>7. CASE PutAside(w)
  BY <1>7, <1>0 DEF PutAside, inputs, shared, history
<1>8. CASE PushBack(w)
  BY <1>8, <1>0 DEF PushBack, inputs, shared, history
<1>9. CASE Decide(w)
  BY <1>9, DecideKeepsFiles
<1>10. CASE RunRule(w)
  BY <1>10, FailKeepsFiles, TearKeepsFiles, MakeKeepsFiles DEF RunRule
<1>11. CASE Finish(w)
  BY <1>11, <1>0 DEF Finish, inputs, shared, history
<1>12. CASE Lock(w)
  BY <1>12, <1>0 DEF Lock, inputs, shared, history
<1>13. CASE Drain(w)
  BY <1>13, <1>0 DEF Drain, inputs, history
<1> QED
  BY <1>1, <1>2, <1>3, <1>4, <1>5, <1>6, <1>7, <1>8, <1>9, <1>10, <1>11, <1>12, <1>13 DEF Work

\* and every step of the main thread.
LEMMA MainKeepsFiles ==
  ASSUME TypeInv, NEW m0, FilesTell(m0), Main
  PROVE  FilesTell(m0)'
<1>1. ASSUME UNCHANGED <<inputs, mtime, clock, built, broken, torn>>,
             UNCHANGED local \/ \A w \in Worker : pc'[w] = "pull"
      PROVE  FilesTell(m0)'
  <2>1. \A w \in Worker : pc'[w] = "running" => pc[w] = "running" /\ target'[w] = target[w]
    BY <1>1 DEF local
  <2> QED
    BY <1>1, <2>1, QuietKeepsFiles
<1>2. CASE StartThreads
  BY <1>1, <1>2 DEF StartThreads, shared, history, TypeInv, LocalType
<1>3. CASE RejectGoal
  BY <1>1, <1>3 DEF RejectGoal, shared, history
<1>4. CASE AcceptGoal
  BY <1>1, <1>4 DEF AcceptGoal
<1>5. CASE WaitForGoal
  BY <1>1, <1>5 DEF WaitForGoal, history
<1>6. CASE StopThreads
  BY <1>1, <1>6 DEF StopThreads, shared, history
<1>7. CASE PushNull
  BY <1>1, <1>7 DEF PushNull, history
<1>8. CASE Join
  BY <1>1, <1>8 DEF Join, shared, history
<1> QED
  BY <1>2, <1>3, <1>4, <1>5, <1>6, <1>7, <1>8 DEF Main

\* No step breaks what is known of the files.
LEMMA StepKeepsFiles ==
  ASSUME LoadsAgree, TypeInv, TypeInv', StatesTell, ScansTell,
         NEW m0 \in [Target -> Nat \cup {-1}], FilesTell(m0), [Next]_vars
  PROVE  FilesTell(m0)'
<1>1. CASE Main
  BY <1>1, MainKeepsFiles
<1>2. ASSUME NEW w \in Worker, Work(w)
      PROVE  FilesTell(m0)'
  BY <1>2, WorkKeepsFiles DEF ScansTell
<1>3. CASE UNCHANGED vars
  BY <1>3, QuietKeepsFiles DEF vars, shared, local, history
<1> QED
  BY <1>1, <1>2, <1>3 DEF Next

\* What is known of the files holds in every state.
LEMMA SpecFiles ==
  ASSUME OneLoad, NEW CONSTANT m0 \in [Target -> Nat \cup {-1}]
  PROVE  (mtime = m0) /\ Older /\ Spec => [](TypeInv /\ ScansTell /\ FilesTell(m0))
<1>1. (mtime = m0) /\ Older /\ Init => FilesTell(m0)
  BY DEF Older, Init, FilesTell, WritesTell, Written, RunTells, Apart
<1>2. LoadsAgree /\ TypeInv /\ TypeInv' /\ StatesTell /\ ScansTell /\ FilesTell(m0) /\ [Next]_vars => FilesTell(m0)'
  BY StepKeepsFiles
<1> QED
  BY <1>1, <1>2, SpecType, SpecMutexes, SpecLoads, SpecScans, PTL DEF Spec

\* Nor does a rule run then when one it depends on has failed, unless a rule at or
\* below that one had written its file before it failed:
\* samples/test5:2 "this should not be shown because of the dependency failure".
\* The files there were must be from an earlier second than the one parmake starts
\* in: a file written in the same second as an older one does not look newer.
THEOREM FailuresStop ==
  ASSUME OneLoad
  PROVE  Older /\ Spec => []FailureStops
<1>1. ASSUME NEW CONSTANT m0 \in [Target -> Nat \cup {-1}]
      PROVE  (mtime = m0) /\ Older /\ Spec => []FailureStops
  <2>1. TypeInv /\ ScansTell /\ FilesTell(m0) => FailureStops
    <3> SUFFICES ASSUME TypeInv, ScansTell, FilesTell(m0), NEW w \in Worker, Running(w),
                        NEW d \in deps[target[w]] \cap broken
                 PROVE  Below(d) \cap torn # {}
      BY DEF FailureStops
    <3>1. d \in built
      BY DEF ScansTell, ScanTells, Running
    <3> QED
      BY <3>1 DEF FilesTell, Apart, Clean
  <2> QED
    BY <2>1, SpecFiles, PTL
<1>2. Init => mtime \in [Target -> Nat \cup {-1}]
  BY ShapeAssumption DEF Init
<1>3. Spec => Init
  BY PTL DEF Spec
<1> QED
  BY <1>1, <1>2, <1>3
------------------------------------------------------------------------------
(* hasCycle.                                                                *)

\* What is below a rule is the rule, or below one it depends on.
LEMMA BelowSplits ==
  ASSUME InputType, NEW t \in Target, NEW u \in Below(t), u # t
  PROVE  \E d \in deps[t] : u \in Below(d)
<1> DEFINE S == {t} \cup UNION {Below(d) : d \in deps[t]}
<1>1. \A d \in deps[t] : d \in Target
  BY DEF InputType
<1>2. S \in SUBSET Target
  BY <1>1, BelowIsLeast
<1>3. ASSUME NEW v \in S, NEW n \in deps[v]
      PROVE  n \in S
  <2>1. CASE v = t
    BY <1>1, <2>1, BelowIsLeast
  <2>2. ASSUME NEW d \in deps[t], v \in Below(d)
        PROVE  n \in S
    BY <1>1, <2>2, BelowBelow
  <2> QED
    BY <2>1, <2>2
<1>4. Below(t) \subseteq S
  <2>1. t \in S /\ Closed(S)
    BY <1>3 DEF Closed
  <2> HIDE DEF S
  <2> QED
    BY <1>2, <2>1, BelowIsLeast
<1> QED
  BY <1>4

\* A rule is cyclic if one below it is,
LEMMA CyclicAbove ==
  ASSUME InputType, NEW t \in Target, NEW u \in Below(t), Cyclic(u)
  PROVE  Cyclic(t)
BY BelowBelow DEF Cyclic

\* and else exactly if it is on a cycle or depends on a cyclic one.
LEMMA CyclicSplits ==
  ASSUME InputType, NEW t \in Target
  PROVE  Cyclic(t) <=> OnCycle(t) \/ \E d \in deps[t] : Cyclic(d)
<1>1. t \in Below(t) /\ \A d \in deps[t] : d \in Below(t)
  BY BelowIsLeast, BelowBelow
<1>2. ASSUME Cyclic(t), ~ OnCycle(t)
      PROVE  \E d \in deps[t] : Cyclic(d)
  <2>1. PICK u \in Below(t) : OnCycle(u)
    BY <1>2 DEF Cyclic
  <2>2. PICK d \in deps[t] : u \in Below(d)
    BY <1>2, <2>1, BelowSplits
  <2> QED
    BY <2>1, <2>2 DEF Cyclic
<1>3. OnCycle(t) => Cyclic(t)
  BY <1>1 DEF Cyclic
<1>4. ASSUME NEW d \in deps[t], Cyclic(d)
      PROVE  Cyclic(t)
  BY <1>1, <1>4, CyclicAbove
<1> QED
  BY <1>2, <1>3, <1>4

\* What is true of a path when it is true of the longer ones is true of all:
\* a path has no rule twice and there are finitely many rules.
LEMMA PathInduction ==
  ASSUME NEW Good,
         \A path \in SUBSET Target :
           (\A v \in Target \ path : path \cup {v} \in Good) => path \in Good
  PROVE  \A path \in SUBSET Target : path \in Good
<1> DEFINE R == StrictSubsetOrdering(Target)
           Bad == {Z \in SUBSET Target : Target \ Z \notin Good}
<1>1. IsWellFoundedOn(R, SUBSET Target)
  BY FiniteAssumption, FS_StrictSubsetOrderingWellFounded, FS_FiniteSubsetsOfFinite
<1>2. ASSUME Bad # {}
      PROVE  FALSE
  <2>1. PICK Z \in Bad : \A Y \in Bad : ~ (<<Y, Z>> \in R)
    <3> HIDE DEF R
    <3>1. Bad \subseteq SUBSET Target
      OBVIOUS
    <3> HIDE DEF Bad
    <3> QED
      BY <1>1, <1>2, <3>1, WFMin
  <2>2. Z \in SUBSET Target /\ Target \ Z \notin Good
    OBVIOUS
  <2>3. ASSUME NEW v \in Z
        PROVE  (Target \ Z) \cup {v} \in Good
    <3> DEFINE Y == Z \ {v}
    <3>1. Y \in SUBSET Target /\ Y \subseteq Z /\ Y # Z
      BY <2>2
    <3>2. <<Y, Z>> \in R
      BY <2>2, <3>1 DEF StrictSubsetOrdering
    <3>3. Y \notin Bad
      BY <2>1, <3>2
    <3>4. Target \ Y = (Target \ Z) \cup {v}
      BY <2>2
    <3> QED
      BY <3>1, <3>3, <3>4
  <2>4. Target \ (Target \ Z) = Z
    BY <2>2
  <2> QED
    BY <2>2, <2>3, <2>4
<1>3. ASSUME NEW path \in SUBSET Target
      PROVE  path \in Good
  <2>1. Target \ path \notin Bad /\ Target \ path \in SUBSET Target
    BY <1>2
  <2>2. Target \ (Target \ path) = path
    OBVIOUS
  <2> QED
    BY <2>1, <2>2
<1> QED
  BY <1>3

\* One turn of the recursion in Leftovers.
Turn(g, L) ==
  [path \in SUBSET Target |-> [v \in Target |->
     IF v \in path THEN {path} ELSE UNION {L[path \cup {v}][n] : n \in g[v]}]]
Found == [SUBSET Target -> [Target -> SUBSET SUBSET Target]]

\* A turn finds sets of rules.
LEMMA TurnFinds ==
  ASSUME NEW g \in [Target -> SUBSET Target], NEW L \in Found
  PROVE  Turn(g, L) \in Found
<1> SUFFICES ASSUME NEW path \in SUBSET Target, NEW v \in Target, v \notin path
             PROVE  UNION {L[path \cup {v}][n] : n \in g[v]} \in SUBSET SUBSET Target
  BY DEF Turn, Found
<1>1. path \cup {v} \in SUBSET Target
  OBVIOUS
<1> DEFINE f(n) == L[path \cup {v}][n]
<1>2. \A n \in g[v] : f(n) \in SUBSET SUBSET Target
  <2>1. g[v] \in SUBSET Target
    OBVIOUS
  <2> QED
    BY <1>1, <2>1 DEF Found
<1> HIDE DEF f
<1>3. UNION {f(n) : n \in g[v]} \in SUBSET SUBSET Target
  BY <1>2
<1> QED
  BY <1>3 DEF f

\* After as many turns as there are rules nothing changes any more: the
\* recursion of Leftovers has a solution.
LEMMA LeftoversExist ==
  ASSUME NEW g \in [Target -> SUBSET Target]
  PROVE  \E L \in Found : L = Turn(g, L)
<1> DEFINE Steady(n) == \E L \in Found : \A path \in SUBSET Target :
                          Cardinality(Target \ path) < n => L[path] = Turn(g, L)[path]
           N == Cardinality(Target)
<1>1. N \in Nat /\ \A Z \in SUBSET Target : IsFiniteSet(Z) /\ Cardinality(Z) \in 0 .. N
  <2>1. N \in Nat
    BY FiniteAssumption, FS_CardinalityType
  <2>2. ASSUME NEW Z \in SUBSET Target
        PROVE  IsFiniteSet(Z) /\ Cardinality(Z) \in Nat /\ Cardinality(Z) <= N
    BY FiniteAssumption, FS_Subset, FS_CardinalityType
  <2> QED
    BY <2>1, <2>2
<1>2. Steady(0)
  <2>1. PICK L \in Found : TRUE
    <3>1. [path \in SUBSET Target |-> [v \in Target |-> {}]] \in Found
      BY DEF Found
    <3> QED
      BY <3>1
  <2>2. \A path \in SUBSET Target : ~ (Cardinality(Target \ path) < 0)
    BY <1>1
  <2> QED
    BY <2>2
<1>3. ASSUME NEW n \in Nat, Steady(n)
      PROVE  Steady(n + 1)
  <2>1. PICK L \in Found : \A path \in SUBSET Target :
                             Cardinality(Target \ path) < n => L[path] = Turn(g, L)[path]
    BY <1>3
  <2> DEFINE M == Turn(g, L)
  <2>2. M \in Found
    BY TurnFinds
  <2>3. ASSUME NEW path \in SUBSET Target, Cardinality(Target \ path) < n + 1, NEW v \in Target
        PROVE  M[path][v] = Turn(g, M)[path][v]
    <3>1. CASE v \in path
      BY <3>1 DEF Turn
    <3>2. CASE v \notin path
      <4>1. path \cup {v} \in SUBSET Target /\ Target \ (path \cup {v}) = (Target \ path) \ {v}
        OBVIOUS
      <4>2. Cardinality((Target \ path) \ {v}) = Cardinality(Target \ path) - 1
        BY <1>1, <3>2, FS_RemoveElement
      <4>3. Cardinality(Target \ path) \in Nat
        BY <1>1
      <4>4. Cardinality(Target \ (path \cup {v})) < n
        <5>1. Cardinality(Target \ path) - 1 < n
          BY <2>3, <4>3
        <5> QED
          BY <4>1, <4>2, <5>1
      <4>5. M[path \cup {v}] = L[path \cup {v}]
        BY <2>1, <4>1, <4>4
      <4>6. M[path][v] = UNION {L[path \cup {v}][m] : m \in g[v]}
        BY <3>2 DEF Turn
      <4>7. Turn(g, M)[path][v] = UNION {M[path \cup {v}][m] : m \in g[v]}
        <5> HIDE DEF M
        <5> QED
          BY <3>2 DEF Turn
      <4> QED
        BY <4>5, <4>6, <4>7
    <3> QED
      BY <3>1, <3>2
  <2>4. ASSUME NEW path \in SUBSET Target, Cardinality(Target \ path) < n + 1
        PROVE  M[path] = Turn(g, M)[path]
    <3>1. M[path] \in [Target -> SUBSET SUBSET Target]
          /\ Turn(g, M)[path] \in [Target -> SUBSET SUBSET Target]
      <4> HIDE DEF M
      <4>1. Turn(g, M) \in Found
        BY <2>2, TurnFinds
      <4> QED
        BY <2>2, <4>1 DEF Found
    <3>2. \A v \in Target : M[path][v] = Turn(g, M)[path][v]
      BY <2>3, <2>4
    <3> HIDE DEF M
    <3> QED
      BY <3>1, <3>2
  <2> HIDE DEF M
  <2> QED
    BY <2>2, <2>4
<1>4. \A n \in Nat : Steady(n)
  <2> DEFINE Bad == {n \in Nat : ~ Steady(n)}
             R == OpToRel(<, Nat)
  <2> HIDE DEF Steady
  <2>1. ASSUME Bad # {}
        PROVE  FALSE
    <3>1. IsWellFoundedOn(R, Nat)
      BY NatLessThanWellFounded
    <3>2. PICK n \in Bad : \A m \in Bad : ~ (<<m, n>> \in R)
      <4> HIDE DEF R
      <4>1. Bad \subseteq Nat
        OBVIOUS
      <4> HIDE DEF Bad
      <4> QED
        BY <2>1, <3>1, <4>1, WFMin
    <3>3. n \in Nat /\ n # 0 /\ ~ Steady(n)
      BY <1>2
    <3>4. n - 1 \in Nat /\ <<n - 1, n>> \in R
      BY <3>3 DEF OpToRel
    <3>5. Steady(n - 1)
      BY <3>2, <3>4
    <3>6. Steady((n - 1) + 1)
      BY <1>3, <3>4, <3>5
    <3>7. (n - 1) + 1 = n
      BY <3>3
    <3> QED
      BY <3>3, <3>6, <3>7
  <2> QED
    BY <2>1
<1>5. PICK L \in Found : \A path \in SUBSET Target :
                           Cardinality(Target \ path) < N + 1 => L[path] = Turn(g, L)[path]
  <2>1. Steady(N + 1)
    <3> HIDE DEF Steady
    <3> QED
      BY <1>1, <1>4
  <2> QED
    BY <2>1
<1>6. ASSUME NEW path \in SUBSET Target
      PROVE  L[path] = Turn(g, L)[path]
  <2>1. Cardinality(Target \ path) \in 0 .. N
    BY <1>1
  <2>2. Cardinality(Target \ path) < N + 1
    BY <1>1, <2>1
  <2> QED
    BY <1>5, <2>2
<1>7. Turn(g, L) \in Found
  BY TurnFinds
<1>8. L = Turn(g, L)
  BY <1>6, <1>7 DEF Found
<1> QED
  BY <1>8

\* What hasCycle answers, one step of its search.
LEMMA LeftoversTurn ==
  ASSUME NEW g \in [Target -> SUBSET Target]
  PROVE  \A path \in SUBSET Target, v \in Target :
           /\ v \in path => Leftovers(g)[path][v] = {path}
           /\ v \notin path => Leftovers(g)[path][v] =
                                 UNION {Leftovers(g)[path \cup {v}][n] : n \in g[v]}
<1> DEFINE L == Leftovers(g)
<1>1. L = Turn(g, L)
  <2>1. L = CHOOSE left : left = Turn(g, left)
    BY DEF Leftovers, Turn
  <2>2. \E left : left = Turn(g, left)
    BY LeftoversExist
  <2> HIDE DEF L
  <2> QED
    BY <2>1, <2>2
<1> HIDE DEF L
<1>3. ASSUME NEW path \in SUBSET Target, NEW v \in Target
      PROVE  /\ v \in path => L[path][v] = {path}
             /\ v \notin path => L[path][v] = UNION {L[path \cup {v}][n] : n \in g[v]}
  <2>1. L[path][v] = IF v \in path THEN {path} ELSE UNION {L[path \cup {v}][n] : n \in g[v]}
    <3>1. Turn(g, L)[path][v] = IF v \in path THEN {path} ELSE UNION {L[path \cup {v}][n] : n \in g[v]}
      BY DEF Turn
    <3> QED
      BY <1>1, <3>1
  <2> QED
    BY <2>1
<1> QED
  BY <1>3 DEF L

\* hasCycle answers 0 exactly for the rules that reach neither what is in
\* visited nor a cycle.
LEMMA NothingLeft ==
  ASSUME InputType
  PROVE  \A path \in SUBSET Target : \A v \in Target :
           Leftovers(deps)[path][v] = {} <=> Below(v) \cap path = {} /\ ~ Cyclic(v)
<1> DEFINE L == Leftovers(deps)
           Right(path, v) == L[path][v] = {} <=> Below(v) \cap path = {} /\ ~ Cyclic(v)
           Good == {path \in SUBSET Target : \A v \in Target : Right(path, v)}
<1>0. deps \in [Target -> SUBSET Target]
  BY DEF InputType
<1>1. ASSUME NEW path \in SUBSET Target, \A v \in Target \ path : path \cup {v} \in Good,
             NEW v \in Target
      PROVE  Right(path, v)
  <2>1. CASE v \in path
    <3>1. L[path][v] = {path}
      BY <1>0, <2>1, LeftoversTurn
    <3>2. v \in Below(v)
      BY BelowIsLeast
    <3> QED
      BY <2>1, <3>1, <3>2
  <2>2. CASE v \notin path
    <3> DEFINE longer == path \cup {v}
    <3>1. L[path][v] = UNION {L[longer][n] : n \in deps[v]}
      BY <1>0, <2>2, LeftoversTurn
    <3>2. ASSUME NEW n \in deps[v]
          PROVE  n \in Target /\ Right(longer, n)
      <4>1. longer \in Good /\ n \in Target
        BY <1>1, <2>2 DEF InputType
      <4> QED
        BY <4>1
    <3>3. L[path][v] = {} <=> \A n \in deps[v] : L[longer][n] = {}
      <4> HIDE DEF longer, L
      <4> QED
        BY <3>1
    <3>4. ASSUME \A n \in deps[v] : L[longer][n] = {}
          PROVE  Below(v) \cap path = {} /\ ~ Cyclic(v)
      <4>1. \A n \in deps[v] : Below(n) \cap longer = {} /\ ~ Cyclic(n)
        BY <3>2, <3>4
      <4>2. ~ OnCycle(v)
        BY <4>1 DEF OnCycle
      <4>3. ~ Cyclic(v)
        BY <4>1, <4>2, CyclicSplits
      <4>4. \A u \in Below(v) : u = v \/ \E n \in deps[v] : u \in Below(n)
        BY BelowSplits
      <4> QED
        BY <2>2, <4>1, <4>3, <4>4
    <3>5. ASSUME Below(v) \cap path = {}, ~ Cyclic(v), NEW n \in deps[v]
          PROVE  L[longer][n] = {}
      <4>1. ~ Cyclic(n) /\ ~ OnCycle(v)
        BY <3>5, CyclicSplits
      <4>2. v \notin Below(n)
        BY <4>1 DEF OnCycle
      <4>3. v \in Below(v)
        BY BelowIsLeast
      <4>4. n \in Below(v)
        BY <4>3, BelowBelow
      <4>5. Below(n) \subseteq Below(v)
        BY <4>4, BelowBelow
      <4>6. Below(n) \cap longer = {}
        BY <3>5, <4>2, <4>5
      <4> QED
        BY <3>2, <4>1, <4>6
    <3> QED
      BY <3>3, <3>4, <3>5
  <2> QED
    BY <2>1, <2>2
<1>2. \A path \in SUBSET Target :
        (\A v \in Target \ path : path \cup {v} \in Good) => path \in Good
  <2> HIDE DEF Right
  <2> QED
    BY <1>1
<1>3. \A path \in SUBSET Target : path \in Good
  <2> HIDE DEF Good
  <2> QED
    BY <1>2, PathInduction
<1> QED
  BY <1>3

\* Every rule of a path is cyclic, or is above the rule the search has come to.
Leads(path, v) == \A u \in path : Cyclic(u) \/ \E d \in deps[u] : v \in Below(d)

\* What hasCycle leaves in visited when it answers 1 are rules that are cyclic.
LEMMA CyclicLeft ==
  ASSUME InputType
  PROVE  \A path \in SUBSET Target : \A v \in Target :
           Leads(path, v) =>
             \A left \in Leftovers(deps)[path][v] :
               left \in SUBSET Target /\ \A u \in left : Cyclic(u)
<1> DEFINE L == Leftovers(deps)
           Right(path, v) ==
             Leads(path, v) => \A left \in L[path][v] :
                                 left \in SUBSET Target /\ \A u \in left : Cyclic(u)
           Good == {path \in SUBSET Target : \A v \in Target : Right(path, v)}
<1>0. deps \in [Target -> SUBSET Target]
  BY DEF InputType
<1>1. ASSUME NEW path \in SUBSET Target, \A v \in Target \ path : path \cup {v} \in Good,
             NEW v \in Target
      PROVE  Right(path, v)
  <2> SUFFICES ASSUME Leads(path, v), NEW left \in L[path][v]
               PROVE  left \in SUBSET Target /\ \A u \in left : Cyclic(u)
    OBVIOUS
  <2>1. CASE v \in path
    <3>1. left = path
      BY <1>0, <2>1, LeftoversTurn
    <3>2. v \in Below(v)
      BY BelowIsLeast
    <3>3. Cyclic(v)
      BY <2>1, <3>2 DEF Leads, OnCycle, Cyclic
    <3>4. ASSUME NEW u \in path
          PROVE  Cyclic(u)
      <4>1. CASE Cyclic(u)
        BY <4>1
      <4>2. ASSUME NEW d \in deps[u], v \in Below(d)
            PROVE  Cyclic(u)
        <5>1. u \in Target /\ d \in Target
          BY <3>4 DEF InputType
        <5>2. Cyclic(d)
          BY <3>3, <4>2, <5>1, CyclicAbove
        <5> QED
          BY <5>1, <5>2, <4>2, CyclicSplits
      <4> QED
        BY <3>4, <4>1, <4>2 DEF Leads
    <3> QED
      BY <3>1, <3>4
  <2>2. CASE v \notin path
    <3> DEFINE longer == path \cup {v}
    <3>1. L[path][v] = UNION {L[longer][n] : n \in deps[v]}
      BY <1>0, <2>2, LeftoversTurn
    <3>2. PICK n \in deps[v] : left \in L[longer][n]
      <4> HIDE DEF longer, L
      <4> QED
        BY <3>1
    <3>3. n \in Target /\ longer \in Good
      BY <1>1, <2>2 DEF InputType
    <3>4. Right(longer, n)
      BY <3>3
    <3>5. ASSUME NEW u \in longer
          PROVE  Cyclic(u) \/ \E d \in deps[u] : n \in Below(d)
      <4>1. CASE u = v
        BY <3>3, <4>1, BelowIsLeast
      <4>2. CASE u \in path
        <5>1. \A d \in deps[u] : d \in Target
          BY <4>2 DEF InputType
        <5>2. \A d \in deps[u] : v \in Below(d) => n \in Below(d)
          BY <5>1, BelowBelow
        <5> QED
          BY <4>2, <5>2 DEF Leads
      <4> QED
        BY <4>1, <4>2
    <3>6. Leads(longer, n)
      BY <3>5 DEF Leads
    <3> QED
      BY <3>2, <3>4, <3>6
  <2> QED
    BY <2>1, <2>2
<1>2. \A path \in SUBSET Target :
        (\A v \in Target \ path : path \cup {v} \in Good) => path \in Good
  <2> HIDE DEF Right
  <2> QED
    BY <1>1
<1>3. \A path \in SUBSET Target : path \in Good
  <2> HIDE DEF Good
  <2> QED
    BY <1>2, PathInduction
<1> QED
  BY <1>3

\* What the loop over the goals knows: what is left in visited is cyclic, the
\* accepted goals are not, and of the goals behind it nothing else was rejected.
GoalsTell ==
  /\ main.visited \in SUBSET Target /\ \A u \in main.visited : Cyclic(u)
  /\ \A t \in accepted : ~ Cyclic(t)
  /\ main.pc = "goals" => /\ main.i <= Len(goals) + 1
                          /\ \A i \in 1 .. main.i - 1 : Cyclic(goals[i]) \/ goals[i] \in accepted

\* One goal more,
LEMMA GoalsStep ==
  ASSUME TypeInv, StatesTell, GoalsTell, [Next]_vars
  PROVE  GoalsTell'
<1>0. ASSUME deps' = deps
      PROVE  \A t : Cyclic(t)' <=> Cyclic(t)
  BY <1>0 DEF Cyclic, OnCycle, Below, Closed
<1>q. ASSUME UNCHANGED <<deps, goals, accepted>>, main'.visited = main.visited,
             main' = main \/ main'.pc # "goals"
      PROVE  GoalsTell'
  BY <1>0, <1>q DEF GoalsTell
<1>v. ASSUME main.pc = "goals", main.i <= Len(goals)
      PROVE  /\ Goal \in Target /\ main.i \in 1 .. Len(goals)
             /\ hasCycle(Goal, main.visited) = {} <=> ~ Cyclic(Goal)
             /\ \A left \in hasCycle(Goal, main.visited) :
                  left \in SUBSET Target /\ \A u \in left : Cyclic(u)
  <2>1. Goal \in Target /\ main.i \in 1 .. Len(goals)
    BY <1>v DEF Goal, TypeInv, InputType, MainType
  <2>2. InputType /\ main.visited \in SUBSET Target
    BY DEF TypeInv, GoalsTell
  <2>3. hasCycle(Goal, main.visited) = {} <=> Below(Goal) \cap main.visited = {} /\ ~ Cyclic(Goal)
    BY <2>1, <2>2, NothingLeft DEF hasCycle
  <2>4. ~ Cyclic(Goal) => Below(Goal) \cap main.visited = {}
    BY <2>1, <2>2, CyclicAbove DEF GoalsTell
  <2>5. Leads(main.visited, Goal)
    BY DEF Leads, GoalsTell
  <2> QED
    BY <2>1, <2>2, <2>3, <2>4, <2>5, CyclicLeft DEF hasCycle
<1>1. CASE RejectGoal
  <2>1. /\ UNCHANGED <<deps, goals, accepted>> /\ main.pc = "goals" /\ main.i <= Len(goals)
    BY <1>1 DEF RejectGoal, inputs, history
  <2>2. PICK left \in hasCycle(Goal, main.visited) :
          main' = [main EXCEPT !.i = main.i + 1, !.visited = left]
    BY <1>1 DEF RejectGoal
  <2>3. main'.pc = "goals" /\ main'.i = main.i + 1 /\ main'.visited = left
    BY <2>1, <2>2 DEF TypeInv, MainType
  <2>4. Cyclic(goals[main.i]) /\ left \in SUBSET Target /\ \A u \in left : Cyclic(u)
    BY <1>v, <2>1 DEF Goal
  <2>5. \A i \in 1 .. main.i : Cyclic(goals[i]) \/ goals[i] \in accepted
    BY <2>1, <2>4 DEF GoalsTell, TypeInv, MainType
  <2>6. main'.i - 1 = main.i /\ main'.i <= Len(goals) + 1
    BY <1>v, <2>1, <2>3
  <2> QED
    BY <1>0, <2>1, <2>3, <2>4, <2>5, <2>6 DEF GoalsTell
<1>2. CASE AcceptGoal
  <2>1. /\ UNCHANGED <<deps, goals>> /\ main.pc = "goals" /\ main.i <= Len(goals)
        /\ accepted' = accepted \cup {Goal} /\ hasCycle(Goal, main.visited) = {}
    BY <1>2 DEF AcceptGoal, inputs
  <2>2. main'.pc = "goals" /\ main'.i = main.i + 1 /\ main'.visited = main.visited
    BY <1>2 DEF AcceptGoal, TypeInv, MainType
  <2>3. ~ Cyclic(Goal)
    BY <1>v, <2>1
  <2>4. \A t \in accepted' : ~ Cyclic(t)
    BY <2>1, <2>3 DEF GoalsTell
  <2>5. \A i \in 1 .. main.i : Cyclic(goals[i]) \/ goals[i] \in accepted'
    BY <2>1 DEF GoalsTell, TypeInv, MainType, Goal
  <2>6. main'.i - 1 = main.i /\ main'.i <= Len(goals) + 1
    BY <1>v, <2>1, <2>2
  <2> QED
    BY <1>0, <2>1, <2>2, <2>4, <2>5, <2>6 DEF GoalsTell
<1>3. CASE StartThreads
  BY <1>3, <1>q DEF StartThreads, inputs, history, TypeInv, MainType
<1>4. CASE WaitForGoal
  BY <1>4, <1>q DEF WaitForGoal, inputs, history, TypeInv, MainType
<1>5. CASE StopThreads
  BY <1>5, <1>q DEF StopThreads, inputs, history, TypeInv, MainType
<1>6. CASE PushNull
  BY <1>6, <1>q DEF PushNull, inputs, history, TypeInv, MainType
<1>7. CASE Join
  BY <1>7, <1>q DEF Join, inputs, history, TypeInv, MainType
<1>8. ASSUME NEW w \in Worker, Work(w)
      PROVE  GoalsTell'
  <2>1. main' = main /\ accepted' = accepted /\ UNCHANGED inputs
    BY <1>8, WorkUnlocks
  <2> QED
    BY <1>q, <2>1 DEF inputs
<1>9. CASE UNCHANGED vars
  BY <1>9, <1>q DEF vars, inputs, history
<1> QED
  BY <1>1, <1>2, <1>3, <1>4, <1>5, <1>6, <1>7, <1>8, <1>9 DEF Next, Main

\* hasCycle rejects a goal if and only if it reaches a cycle, for any graph and any
\* goals, whatever the rejected goals before it left in visited.
THEOREM RejectsCycles == Spec => []RejectsExactlyCycles
<1>1. Init => GoalsTell
  BY DEF Init, GoalsTell
<1>2. TypeInv /\ StatesTell /\ GoalsTell /\ [Next]_vars => GoalsTell'
  BY GoalsStep
<1>3. TypeInv /\ GoalsTell => RejectsExactlyCycles
  BY DEF GoalsTell, RejectsExactlyCycles
<1> QED
  BY <1>1, <1>2, <1>3, SpecType, SpecMutexes, PTL DEF Spec
------------------------------------------------------------------------------
(* One worker: where a target is.                                           *)

\* The goals are different, and no rule depends on one.
GoalsApart ==
  /\ \A i, j \in 1 .. Len(goals) : goals[i] = goals[j] => i = j
  /\ \A i \in 1 .. Len(goals), t \in Target : goals[i] \notin deps[t]

\* In a queue q, or in the first n slots s, no target is twice.
Has(q, t) == \E i \in 1 .. Len(q) : q[i] = t
HasSlot(s, n, t) == \E j \in 0 .. n - 1 : s[j] = t
QueueOnce(q) == \A i, j \in 1 .. Len(q) : q[i] \in Target /\ q[i] = q[j] => i = j
SlotsOnce(s, n) == \A i, j \in 0 .. n - 1 : s[i] \in Target /\ s[i] = s[j] => i = j
Item == Target \cup {NULL, Garbage}

\* Pushing what is not there keeps a queue without repetitions.
LEMMA Pushed ==
  ASSUME NEW q \in Seq(Item), NEW x \in Item, QueueOnce(q), x \in Target => ~ Has(q, x)
  PROVE  /\ Append(q, x) \in Seq(Item) /\ QueueOnce(Append(q, x))
         /\ \A t : Has(Append(q, x), t) <=> Has(q, t) \/ t = x
<1> DEFINE r == Append(q, x)
<1>1. r \in Seq(Item) /\ Len(r) = Len(q) + 1 /\ Len(q) \in Nat
  OBVIOUS
<1>2. r[Len(q) + 1] = x /\ \A i \in 1 .. Len(q) : r[i] = q[i]
  OBVIOUS
<1>3. 1 .. Len(r) = (1 .. Len(q)) \cup {Len(q) + 1}
  BY <1>1
<1> HIDE DEF r
<1>4. \A t : Has(r, t) <=> Has(q, t) \/ t = x
  BY <1>2, <1>3 DEF Has
<1>5. QueueOnce(r)
  BY <1>1, <1>2, <1>3 DEF QueueOnce, Has
<1> QED
  BY <1>1, <1>4, <1>5 DEF r

\* What is pulled is gone.
LEMMA Pulled ==
  ASSUME NEW q \in Seq(Item), q # <<>>, QueueOnce(q)
  PROVE  /\ Tail(q) \in Seq(Item) /\ QueueOnce(Tail(q)) /\ Head(q) \in Item /\ Has(q, Head(q))
         /\ \A t : Has(Tail(q), t) => Has(q, t)
         /\ Head(q) \in Target => ~ Has(Tail(q), Head(q))
<1> DEFINE r == Tail(q)
<1>1. /\ r \in Seq(Item) /\ Len(r) = Len(q) - 1 /\ Len(q) \in Nat \ {0}
      /\ Head(q) = q[1] /\ q[1] \in Item
  OBVIOUS
<1>2. \A i \in 1 .. Len(r) : r[i] = q[i + 1] /\ i + 1 \in 1 .. Len(q)
  BY <1>1
<1>3. 1 \in 1 .. Len(q)
  BY <1>1
<1> HIDE DEF r
<1>4. Has(q, Head(q))
  BY <1>1, <1>3 DEF Has
<1>5. \A t : Has(r, t) => Has(q, t)
  BY <1>2 DEF Has
<1>6. ASSUME q[1] \in Target, NEW i \in 1 .. Len(r), r[i] = q[1]
      PROVE  FALSE
  <2>1. i + 1 = 1
    BY <1>2, <1>3, <1>6 DEF QueueOnce
  <2> QED
    BY <1>1, <2>1
<1>7. QueueOnce(r)
  <2> SUFFICES ASSUME NEW i \in 1 .. Len(r), NEW j \in 1 .. Len(r), r[i] \in Target, r[i] = r[j]
               PROVE  i = j
    BY DEF QueueOnce
  <2>1. i + 1 = j + 1
    BY <1>2 DEF QueueOnce
  <2> QED
    BY <1>1, <2>1
<1> QED
  BY <1>1, <1>4, <1>5, <1>6, <1>7 DEF r, Has

\* Writing to the slot behind the last one,
LEMMA SlotWritten ==
  ASSUME NEW s \in [Slot -> Item], NEW n \in Nat, n < MaxPending, SlotsOnce(s, n),
         NEW x \in Target, ~ HasSlot(s, n, x)
  PROVE  LET r == [s EXCEPT ![n] = x]
         IN /\ r \in [Slot -> Item] /\ SlotsOnce(r, n + 1)
            /\ \A t : HasSlot(r, n + 1, t) <=> HasSlot(s, n, t) \/ t = x
<1> DEFINE r == [s EXCEPT ![n] = x]
<1>1. n \in Slot /\ \A j \in 0 .. n - 1 : j \in Slot /\ j # n
  BY BoundAssumption DEF Slot
<1>2. r \in [Slot -> Item] /\ r[n] = x /\ \A j \in 0 .. n - 1 : r[j] = s[j]
  BY <1>1 DEF Item
<1>3. 0 .. (n + 1) - 1 = (0 .. n - 1) \cup {n}
  OBVIOUS
<1> HIDE DEF r
<1>4. \A t : HasSlot(r, n + 1, t) <=> HasSlot(s, n, t) \/ t = x
  BY <1>2, <1>3 DEF HasSlot
<1>5. SlotsOnce(r, n + 1)
  BY <1>2, <1>3 DEF SlotsOnce, HasSlot
<1> QED
  BY <1>2, <1>4, <1>5 DEF r

\* and taking the last one.
LEMMA SlotTaken ==
  ASSUME NEW s \in [Slot -> Item], NEW n \in Nat, n > 0, n <= MaxPending, SlotsOnce(s, n)
  PROVE  /\ s[n - 1] \in Item /\ SlotsOnce(s, n - 1) /\ HasSlot(s, n, s[n - 1])
         /\ \A t : HasSlot(s, n - 1, t) => HasSlot(s, n, t)
         /\ s[n - 1] \in Target => ~ HasSlot(s, n - 1, s[n - 1])
<1>1. n - 1 \in Slot /\ n - 1 \in 0 .. n - 1
  BY BoundAssumption DEF Slot
<1>2. \A j \in 0 .. (n - 1) - 1 : j \in 0 .. n - 1 /\ j # n - 1
  OBVIOUS
<1> QED
  BY <1>1, <1>2 DEF SlotsOnce, HasSlot

------------------------------------------------------------------------------
\* A target that is to be made was claimed, or is a goal nobody claims.
Waiting(t) == state[t] = 2 \/ (state[t] = 0 /\ t \in accepted)
Mine(w, t) ==
  /\ target[w] = t
  /\ pc[w] \in {"push", "running"} \/ (pc[w] \in Scanning /\ failed[w] = FALSE)

\* Such a target is in one place only: the queue, the slots, or in the worker's hand.
Placed(w, t) ==
  /\ ~ (Has(queue, t) /\ HasSlot(slots, size, t))
  /\ ~ (Has(queue, t) /\ Mine(w, t))
  /\ ~ (HasSlot(slots, size, t) /\ Mine(w, t))
  /\ Has(queue, t) \/ HasSlot(slots, size, t) \/ Mine(w, t) => Waiting(t)

QueueType ==
  /\ queue \in Seq(Item) /\ QueueOnce(queue)
  /\ slots \in [Slot -> Item] /\ SlotsOnce(slots, size)
  /\ size \in Nat /\ size <= MaxPending
  /\ slot \in [Worker -> Nat]

\* A rule that is decided is not to be made again.
StatesOpen == \A t \in Target : state[t] \in {0, 2} => t \notin Decided
GoalsFirst(w) ==
  /\ \A t \in accepted : \E i \in 1 .. Len(goals) : t = goals[i]
  /\ main.pc = "goals" =>
       /\ \A t \in accepted : \E i \in 1 .. main.i - 1 : t = goals[i]
       /\ size = 0 /\ pc[w] = "none" /\ \A t \in Target : state[t] = 0
Alone(w) ==
  /\ QueueType
  /\ \A t \in Target : Placed(w, t)
  /\ StatesOpen
  /\ GoalsFirst(w)
  /\ pc[w] = "push" => slot[w] = size

\* The main thread only queues goals nobody has, and NULLs,
LEMMA MainKeepsAlone ==
  ASSUME NEW w, Worker = {w}, TypeInv, GoalsApart, Alone(w), Main
  PROVE  Alone(w)'
<1> USE DEF Alone, Decided
<1>0. ASSUME UNCHANGED <<inputs, state, queue, slots, size, local, history>>,
             main'.pc = main.pc \/ main'.pc # "goals",
             main'.i = main.i \/ main'.i = main.i + 1 \/ main'.pc # "goals"
      PROVE  Alone(w)'
  <2>1. main.i \in Nat \ {0} /\ 1 .. main.i - 1 \subseteq 1 .. (main.i + 1) - 1
    BY DEF TypeInv, MainType
  <2>2. GoalsFirst(w)'
    BY <1>0, <2>1 DEF inputs, local, history, GoalsFirst
  <2> QED
    BY <1>0, <2>2 DEF inputs, local, history, QueueType, Placed, Waiting, Mine, StatesOpen
<1>1. CASE RejectGoal
  BY <1>0, <1>1 DEF RejectGoal, shared, TypeInv, MainType
<1>2. CASE AcceptGoal
  <2>1. /\ main.pc = "goals" /\ main.i \in 1 .. Len(goals) /\ Goal \in Target
        /\ Goal = goals[main.i] /\ main.i \in Nat
    BY <1>2 DEF AcceptGoal, Goal, TypeInv, InputType, MainType
  <2>2. /\ queue' = Append(queue, Goal) /\ accepted' = accepted \cup {Goal}
        /\ main'.pc = "goals" /\ main'.i = main.i + 1
        /\ UNCHANGED <<inputs, state, slots, size, local, built, broken>>
    BY <1>2, <2>1 DEF AcceptGoal, TypeInv, MainType
  <2>3. Goal \notin accepted
    <3>1. \A i \in 1 .. main.i - 1 : i \in 1 .. Len(goals) /\ i # main.i
      BY <2>1
    <3> QED
      BY <2>1, <3>1 DEF GoalsFirst, GoalsApart
  <2>4. /\ ~ Has(queue, Goal) /\ size = 0 /\ pc[w] = "none" /\ state[Goal] = 0
    BY <2>1, <2>3 DEF GoalsFirst, Placed, Waiting
  <2>5. /\ queue' \in Seq(Item) /\ QueueOnce(queue')
        /\ \A t : Has(queue', t) <=> Has(queue, t) \/ t = Goal
    BY <2>1, <2>2, <2>4, Pushed DEF QueueType, Item
  <2>6. QueueType'
    BY <2>2, <2>5 DEF QueueType, local
  <2>7. ASSUME NEW t \in Target
        PROVE  Placed(w, t)'
    <3>1. ~ HasSlot(slots', size', t) /\ ~ Mine(w, t)'
      BY <2>2, <2>4 DEF HasSlot, Mine, Scanning, local
    <3>2. Has(queue', t) => Waiting(t)'
      BY <2>2, <2>4, <2>5 DEF Placed, Waiting
    <3> QED
      BY <3>1, <3>2 DEF Placed
  <2>8. GoalsFirst(w)'
    <3>1. 1 .. main'.i - 1 = (1 .. main.i - 1) \cup {main.i}
      BY <2>1, <2>2
    <3> QED
      BY <2>1, <2>2, <2>4, <3>1 DEF GoalsFirst, inputs, local
  <2> QED
    BY <2>2, <2>4, <2>6, <2>7, <2>8 DEF StatesOpen, local
<1>3. CASE StartThreads
  <2>1. /\ main.pc = "goals" /\ main'.pc = "wait" /\ pc'[w] = "pull"
        /\ UNCHANGED <<inputs, shared, target, failed, slot, history>>
    BY <1>3 DEF StartThreads, TypeInv, MainType
  <2>2. pc[w] = "none"
    BY <2>1 DEF GoalsFirst
  <2>3. \A t : ~ Mine(w, t) /\ ~ Mine(w, t)'
    BY <2>1, <2>2 DEF Mine, Scanning
  <2> QED
    BY <2>1, <2>3 DEF inputs, shared, history, QueueType, Placed, Waiting, StatesOpen, GoalsFirst
<1>4. CASE WaitForGoal
  BY <1>0, <1>4 DEF WaitForGoal, TypeInv, MainType
<1>5. CASE StopThreads
  BY <1>0, <1>5 DEF StopThreads, shared, TypeInv, MainType
<1>6. CASE PushNull
  <2>1. /\ main.pc = "stop" /\ main'.pc = "stop" /\ queue' = Append(queue, NULL)
        /\ UNCHANGED <<inputs, state, slots, size, local, history>>
    BY <1>6 DEF PushNull, TypeInv, MainType
  <2>2. /\ queue' \in Seq(Item) /\ QueueOnce(queue')
        /\ \A t : Has(queue', t) <=> Has(queue, t) \/ t = NULL
    BY <2>1, Pushed, NullAssumption DEF QueueType, Item
  <2>3. \A t \in Target : Placed(w, t)'
    BY <2>1, <2>2, NullAssumption DEF Placed, Waiting, Mine, local, history
  <2> QED
    BY <2>1, <2>2, <2>3 DEF inputs, local, history, QueueType, StatesOpen, GoalsFirst
<1>7. CASE Join
  BY <1>0, <1>7 DEF Join, shared, TypeInv, MainType
<1> QED
  BY <1>1, <1>2, <1>3, <1>4, <1>5, <1>6, <1>7 DEF Main

\* and the worker moves a target, claims one nobody has, or decides the one it has.
LEMMA WorkKeepsAlone ==
  ASSUME NEW w, Worker = {w}, TypeInv, StatesTell, SeenNow, ScanTells(w), GoalsApart, Alone(w), Work(w)
  PROVE  Alone(w)'
<1> USE DEF At, Goto, Decided, TypeInv, LocalType, SharedType
<1>0. /\ QueueType /\ (\A t \in Target : Placed(w, t)) /\ StatesOpen /\ GoalsFirst(w)
      /\ pc[w] = "push" => slot[w] = size
  BY DEF Alone
<1>a. w \in Worker /\ main.pc # "goals"
  <2>1. pc[w] # "none"
    BY DEF Work, Pull, Look, Test, Claim, Result, GiveUp, PutAside, PushBack, Decide, RunRule,
           Finish, Lock, Drain, Scanned
  <2> QED
    BY <1>0, <2>1 DEF GoalsFirst
<1>b. UNCHANGED <<inputs, main, accepted>>
  BY <1>a, WorkUnlocks
<1>c. GoalsFirst(w)'
  BY <1>0, <1>a, <1>b DEF GoalsFirst, inputs
\* Nothing moves and the worker keeps, or drops, what it has.
<1>d. ASSUME UNCHANGED <<state, queue, slots, size, built, broken>>,
             \A t \in Target : Mine(w, t)' => Mine(w, t), slot' \in [Worker -> Nat],
             pc'[w] = "push" => slot'[w] = size
      PROVE  Alone(w)'
  <2>1. \A t \in Target : Placed(w, t)'
    BY <1>0, <1>b, <1>d DEF Placed, Waiting
  <2> QED
    BY <1>0, <1>c, <1>d, <2>1 DEF Alone, QueueType, StatesOpen
\* The target it has is decided and dropped.
<1>e. ASSUME UNCHANGED <<queue, slots, size, slot>>, target[w] \in Target,
             Mine(w, target[w]) \/ target[w] \in Decided,
             \A t \in Target : ~ Mine(w, t)',
             pc'[w] # "push",
             NEW s \in {-1, 1}, state' = [state EXCEPT ![target[w]] = s],
             Decided' = Decided \cup {target[w]}
      PROVE  Alone(w)'
  <2>1. ~ Has(queue, target[w]) /\ ~ HasSlot(slots, size, target[w])
    <3>1. CASE Mine(w, target[w])
      BY <1>0, <1>e, <3>1 DEF Placed
    <3>2. CASE target[w] \in Decided
      BY <1>0, <1>e, <3>2 DEF Placed, Waiting, StatesOpen
    <3> QED
      BY <1>e, <3>1, <3>2
  <2>2. \A t \in Target : t # target[w] => state'[t] = state[t]
    BY <1>e
  <2>3. \A t \in Target : Placed(w, t)'
    BY <1>0, <1>b, <1>e, <2>1, <2>2 DEF Placed, Waiting
  <2>4. state'[target[w]] \in {-1, 1}
    BY <1>e
  <2>5. StatesOpen'
    BY <1>0, <1>e, <2>2, <2>4 DEF StatesOpen
  <2> QED
    BY <1>0, <1>c, <1>e, <2>3, <2>5 DEF Alone, QueueType
<1>1. CASE Pull(w)
  <2>1. /\ pc[w] = "pull" /\ queue # <<>> /\ queue' = Tail(queue)
        /\ UNCHANGED <<state, slots, size, slot, built, broken>>
    BY <1>1 DEF Pull, history
  <2>2. /\ queue' \in Seq(Item) /\ QueueOnce(queue') /\ Has(queue, Head(queue))
        /\ \A t : Has(queue', t) => Has(queue, t)
        /\ Head(queue) \in Target => ~ Has(queue', Head(queue))
    BY <1>0, <2>1, Pulled DEF QueueType
  <2>3. \A t : ~ Mine(w, t)
    BY <2>1 DEF Mine, Scanning
  <2>4. pc'[w] # "push" /\ \A t : Mine(w, t)' => t = Head(queue) /\ t \in Target
    BY <1>1, <1>a, <2>1 DEF Pull, Mine, Scanning
  <2>5. \A t \in Target : Placed(w, t)'
    BY <1>0, <1>b, <2>1, <2>2, <2>3, <2>4 DEF Placed, Waiting
  <2> QED
    BY <1>0, <1>c, <2>1, <2>2, <2>4, <2>5 DEF Alone, QueueType, StatesOpen
<1>2. CASE Look(w)
  <2>1. UNCHANGED <<state, queue, slots, size, slot, built, broken>> /\ pc'[w] = "test"
    BY <1>2, <1>a DEF Look, shared, history
  <2>2. \A t \in Target : Mine(w, t)' => Mine(w, t)
    BY <1>2, <1>a DEF Look, Mine, Scanning
  <2> QED
    BY <1>0, <1>d, <2>1, <2>2 DEF QueueType
<1>3. CASE Test(w)
  <2>1. UNCHANGED <<state, queue, slots, size, slot, built, broken>> /\ pc'[w] # "push"
    BY <1>3, <1>a DEF Test, shared, history
  <2>2. \A t \in Target : Mine(w, t)' => Mine(w, t)
    BY <1>3, <1>a DEF Test, Mine, Scanning
  <2> QED
    BY <1>0, <1>d, <2>1, <2>2 DEF QueueType
<1>4. CASE Claim(w)
  <2> DEFINE d == dep[w]
  <2>1. /\ pc[w] = "claim" /\ pc'[w] = "scan" /\ queue' = Append(queue, d)
        /\ state' = [state EXCEPT ![d] = 2]
        /\ UNCHANGED <<slots, size, slot, built, broken, target, failed>>
    BY <1>4, <1>a DEF Claim, Queued, history
  <2>2. d \in Target /\ d \in deps[target[w]] /\ target[w] \in Target
    BY <1>a, <2>1 DEF ScanTells, LoadTells, Holds, Holding, Scanning
  <2>3. state[d] = 0
    BY <1>a, <2>1 DEF ScanTells, SeenNow
  <2>4. d \notin accepted
    BY <1>0, <2>2 DEF GoalsFirst, GoalsApart
  <2>5. ~ Has(queue, d) /\ ~ HasSlot(slots, size, d) /\ ~ Mine(w, d)
    BY <1>0, <2>2, <2>3, <2>4 DEF Placed, Waiting
  <2>6. /\ queue' \in Seq(Item) /\ QueueOnce(queue')
        /\ \A t : Has(queue', t) <=> Has(queue, t) \/ t = d
    BY <1>0, <2>1, <2>2, <2>5, Pushed DEF QueueType, Item
  <2>7. \A t : Mine(w, t)' <=> Mine(w, t)
    BY <2>1 DEF Mine, Scanning
  <2>8. state'[d] = 2 /\ \A t \in Target : t # d => state'[t] = state[t]
    BY <2>1, <2>2
  <2>9. \A t \in Target : Placed(w, t)'
    BY <1>0, <1>b, <2>1, <2>5, <2>6, <2>7, <2>8 DEF Placed, Waiting
  <2>10. StatesOpen'
    BY <1>0, <2>1, <2>2, <2>3, <2>8 DEF StatesOpen
  <2> QED
    BY <1>0, <1>c, <2>1, <2>6, <2>9, <2>10 DEF Alone, QueueType
<1>5. CASE Result(w)
  <2>1. /\ pc[w] = "result" /\ pc'[w] = "scan" /\ target[w] \in Target
        /\ UNCHANGED <<queue, slots, size, slot, built, target>>
    BY <1>5, <1>a DEF Result, Holds, Holding, Scanning
  <2>2. CASE UNCHANGED <<state, broken, failed>>
    <3>1. \A t \in Target : Mine(w, t)' => Mine(w, t)
      BY <2>1, <2>2 DEF Mine, Scanning
    <3> QED
      BY <1>0, <1>d, <2>1, <2>2, <3>1 DEF QueueType
  <2>3. ASSUME state' = [state EXCEPT ![target[w]] = -1], broken' = broken \cup {target[w]},
               failed'[w] = TRUE
        PROVE  Alone(w)'
    <3>1. Mine(w, target[w]) \/ target[w] \in Decided
      <4>1. PlaceTells(w)
        BY <1>a DEF StatesTell
      <4> QED
        BY <1>a, <2>1, <4>1 DEF PlaceTells, Mine, Scanning
    <3>2. \A t \in Target : ~ Mine(w, t)'
      BY <2>1, <2>3 DEF Mine
    <3> QED
      BY <1>e, <2>1, <2>3, <3>1, <3>2
  <2> QED
    BY <1>5, <1>a, <2>2, <2>3 DEF Result
<1>6. CASE GiveUp(w)
  <2>1. UNCHANGED <<state, queue, slots, size, slot, built, broken>> /\ pc'[w] = "lock"
    BY <1>6, <1>a DEF GiveUp, history
  <2> QED
    BY <1>0, <1>d, <2>1 DEF QueueType, Mine, Scanning
<1>7. CASE PutAside(w)
  <2>1. /\ UNCHANGED <<state, queue, slots, size, built, broken, target>>
        /\ pc[w] = "scan" /\ failed[w] = FALSE
        /\ slot' \in [Worker -> Nat] /\ slot'[w] = size
    BY <1>7, <1>0, <1>a DEF PutAside, Scanned, shared, history, QueueType
  <2>2. \A t \in Target : Mine(w, t)' => Mine(w, t)
    BY <2>1 DEF Mine, Scanning
  <2> QED
    BY <1>d, <2>1, <2>2
<1>8. CASE PushBack(w)
  <2> DEFINE t0 == target[w]
  <2>1. /\ pc[w] = "push" /\ size < MaxPending /\ pc'[w] = "pull" /\ slot[w] = size
        /\ slots' = [slots EXCEPT ![size] = t0] /\ size' = size + 1 /\ t0 \in Target
        /\ UNCHANGED <<state, queue, slot, built, broken>>
    BY <1>8, <1>0, <1>a DEF PushBack, history, Holds, Holding
  <2>2. Mine(w, t0) /\ \A t : ~ Mine(w, t)'
    BY <2>1 DEF Mine, Scanning
  <2>3. ~ HasSlot(slots, size, t0)
    BY <1>0, <2>1, <2>2 DEF Placed
  <2>4. /\ slots' \in [Slot -> Item] /\ SlotsOnce(slots', size')
        /\ \A t : HasSlot(slots', size', t) <=> HasSlot(slots, size, t) \/ t = t0
    BY <1>0, <2>1, <2>3, SlotWritten DEF QueueType
  <2>5. \A t \in Target : Placed(w, t)'
    BY <1>0, <1>b, <2>1, <2>2, <2>4 DEF Placed, Waiting
  <2>6. size' \in Nat /\ size' <= MaxPending
    BY <1>0, <2>1, BoundAssumption DEF QueueType
  <2> QED
    BY <1>0, <1>c, <2>1, <2>4, <2>5, <2>6 DEF Alone, QueueType, StatesOpen
<1>9. CASE Decide(w)
  <2>1. /\ pc[w] = "scan" /\ failed[w] = FALSE /\ target[w] \in Target
        /\ UNCHANGED <<queue, slots, size, slot, broken, target, failed>>
    BY <1>9, <1>a DEF Decide, Scanned, Holds, Holding, Scanning
  <2>2. Mine(w, target[w])
    BY <2>1 DEF Mine, Scanning
  <2>3. CASE pc'[w] = "running" /\ UNCHANGED <<state, built>>
    BY <1>0, <1>d, <2>1, <2>3 DEF Mine, Scanning, QueueType
  <2>4. CASE /\ pc'[w] = "finish"
             /\ state' = [state EXCEPT ![target[w]] = 1] /\ built' = built \cup {target[w]}
    <3>1. \A t \in Target : ~ Mine(w, t)'
      BY <2>4 DEF Mine, Scanning
    <3> QED
      BY <1>e, <2>1, <2>2, <2>4, <3>1
  <2> QED
    BY <1>9, <1>a, <2>3, <2>4 DEF Decide
<1>10. CASE RunRule(w)
  <2>1. /\ pc[w] = "running" /\ pc'[w] = "finish" /\ target[w] \in Target
        /\ UNCHANGED <<queue, slots, size, slot>>
        /\ state' = [state EXCEPT ![target[w]] = Outcome(target[w])]
        /\ Decided' = Decided \cup {target[w]}
    BY <1>10, <1>a DEF RunRule, Holds, Holding
  <2>2. Mine(w, target[w]) /\ \A t \in Target : ~ Mine(w, t)'
    BY <2>1 DEF Mine, Scanning
  <2>3. Outcome(target[w]) \in {-1, 1}
    BY DEF Outcome
  <2> QED
    BY <1>e, <2>1, <2>2, <2>3
<1>11. CASE Finish(w)
  <2>1. UNCHANGED <<state, queue, slots, size, slot, built, broken>> /\ pc'[w] = "lock"
    BY <1>11, <1>a DEF Finish, history
  <2> QED
    BY <1>0, <1>d, <2>1 DEF QueueType, Mine, Scanning
<1>12. CASE Lock(w)
  <2>1. UNCHANGED <<state, queue, slots, size, slot, built, broken>> /\ pc'[w] = "drain"
    BY <1>12, <1>a DEF Lock, history
  <2> QED
    BY <1>0, <1>d, <2>1 DEF QueueType, Mine, Scanning
<1>13. CASE Drain(w)
  <2>1. pc[w] = "drain" /\ UNCHANGED <<state, slots, slot, built, broken>>
    BY <1>13 DEF Drain, history
  <2>2. CASE size > 0
    <3> DEFINE t0 == slots[size - 1]
    <3>1. queue' = Append(queue, t0) /\ size' = size - 1 /\ pc' = pc
      BY <1>13, <2>2 DEF Drain
    <3>2. /\ t0 \in Item /\ SlotsOnce(slots, size - 1) /\ HasSlot(slots, size, t0)
          /\ \A t : HasSlot(slots, size - 1, t) => HasSlot(slots, size, t)
          /\ t0 \in Target => ~ HasSlot(slots, size - 1, t0)
      BY <1>0, <2>2, SlotTaken DEF QueueType
    <3>3. t0 \in Target => ~ Has(queue, t0)
      BY <1>0, <3>2 DEF Placed
    <3>4. /\ queue' \in Seq(Item) /\ QueueOnce(queue')
          /\ \A t : Has(queue', t) <=> Has(queue, t) \/ t = t0
      BY <1>0, <3>1, <3>2, <3>3, Pushed DEF QueueType
    <3>5. \A t : ~ Mine(w, t) /\ ~ Mine(w, t)'
      BY <2>1, <3>1 DEF Mine, Scanning
    <3>6. \A t \in Target : Placed(w, t)'
      BY <1>0, <1>b, <2>1, <3>1, <3>2, <3>4, <3>5 DEF Placed, Waiting
    <3>7. size' \in Nat /\ size' <= MaxPending
      BY <1>0, <2>2, <3>1, BoundAssumption DEF QueueType
    <3> QED
      BY <1>0, <1>c, <2>1, <3>1, <3>2, <3>4, <3>6, <3>7 DEF Alone, QueueType, StatesOpen
  <2>3. CASE ~ (size > 0)
    <3>1. UNCHANGED <<queue, size>> /\ pc'[w] = "pull"
      BY <1>13, <1>a, <2>3 DEF Drain
    <3> QED
      BY <1>0, <1>d, <2>1, <3>1 DEF QueueType, Mine, Scanning
  <2> QED
    BY <2>2, <2>3
<1> QED
  BY <1>1, <1>2, <1>3, <1>4, <1>5, <1>6, <1>7, <1>8, <1>9, <1>10, <1>11, <1>12, <1>13 DEF Work

\* Targets are where a single worker left them, in every state.
LEMMA SpecAlone ==
  ASSUME NEW w, Worker = {w}
  PROVE  Spec /\ GoalsApart => [](GoalsApart /\ Alone(w))
<1>1. Init => Alone(w)
  <2> SUFFICES ASSUME Init
               PROVE  Alone(w)
    OBVIOUS
  <2>1. QueueType
    BY BoundAssumption DEF Init, QueueType, Item, QueueOnce, SlotsOnce
  <2>2. \A t \in Target : Placed(w, t)
    BY DEF Init, Placed, Has, HasSlot, Mine, Scanning
  <2> QED
    BY <2>1, <2>2 DEF Init, Alone, StatesOpen, Decided, GoalsFirst
<1>2. /\ TypeInv /\ StatesTell /\ SeenNow /\ ScansTell /\ GoalsApart /\ Alone(w) /\ [Next]_vars
      => GoalsApart' /\ Alone(w)'
  <2> SUFFICES ASSUME TypeInv, StatesTell, SeenNow, ScansTell, GoalsApart, Alone(w), [Next]_vars
               PROVE  GoalsApart' /\ Alone(w)'
    OBVIOUS
  <2>1. CASE Main
    <3>1. UNCHANGED inputs
      BY <2>1 DEF Main, RejectGoal, AcceptGoal, StartThreads, WaitForGoal, StopThreads, PushNull, Join
    <3> QED
      BY <2>1, <3>1, MainKeepsAlone DEF GoalsApart, inputs
  <2>2. CASE Work(w)
    <3>1. UNCHANGED inputs
      BY <2>2, WorkGrows DEF TypeInv
    <3> QED
      BY <2>2, <3>1, WorkKeepsAlone DEF GoalsApart, inputs, ScansTell
  <2>3. CASE UNCHANGED vars
    <3>1. UNCHANGED <<inputs, shared, local, history>> /\ main' = main
      BY <2>3 DEF vars
    <3>2. GoalsApart'
      BY <3>1 DEF inputs, GoalsApart
    <3>3. \A t \in Target : Placed(w, t)'
      BY <3>1 DEF shared, local, history, Alone, Placed, Waiting, Mine
    <3> QED
      BY <3>1, <3>2, <3>3 DEF inputs, shared, local, history, Alone, QueueType, StatesOpen,
                              Decided, GoalsFirst
  <2> QED
    BY <2>1, <2>2, <2>3 DEF Next
<1>3. OneLoad
  BY DEF OneLoad
<1> QED
  BY <1>1, <1>2, <1>3, SpecType, SpecMutexes, SpecScans, AloneSeesNow, PTL DEF Spec

\* With one worker, and goals that are different and that nothing depends on, no
\* rule runs after it was made or has failed, in any build and for any graph: also
\* one with cycles the goals do not reach.
THEOREM RulesRunOnce ==
  ASSUME NEW w, Worker = {w}
  PROVE  Spec /\ GoalsApart => []RunsOnce
<1>1. TypeInv /\ Alone(w) => RunsOnce
  BY DEF Alone, Placed, Waiting, Mine, StatesOpen, Decided, RunsOnce, Running, TypeInv, Holds, Holding
<1> QED
  BY <1>1, SpecType, SpecAlone, PTL
------------------------------------------------------------------------------
\* A file that was made is not older than what it was made from.
FilesFresh == \A t \in built \cap Makes : \A d \in deps[t] : mtime[d] <= mtime[t]

\* A rule that a single worker runs was not made before, so that its new file makes
\* no other one old; and one that does not run has a file that is new enough.
LEMMA WorkKeepsFresh ==
  ASSUME NEW w, Worker = {w}, TypeInv, ScansTell, Alone(w), FilesFresh, Work(w)
  PROVE  FilesFresh'
<1> USE DEF At, Goto, TypeInv
<1>0. deps' = deps /\ w \in Worker
  BY WorkGrows DEF inputs
<1>1. CASE Decide(w)
  <2>1. /\ mtime' = mtime /\ target[w] \in Target
        /\ built' = built \/ (built' = built \cup {target[w]} /\ ~ Stale(target[w]))
    BY <1>0, <1>1 DEF Decide, Scanned, Holds, Holding, Scanning, LocalType
  <2>2. CASE built' = built
    BY <1>0, <2>1, <2>2 DEF FilesFresh
  <2>3. CASE built' = built \cup {target[w]} /\ ~ Stale(target[w])
    <3>1. ~ Outdated(target[w])
      BY <2>1, <2>3, StaleMeans
    <3>2. ASSUME NEW d \in deps[target[w]]
          PROVE  mtime[d] <= mtime[target[w]]
      <4>1. d \in Target /\ mtime[d] \in Int /\ mtime[target[w]] \in Int
        BY <2>1 DEF InputType, SharedType
      <4>2. ~ (mtime[d] > mtime[target[w]])
        BY <3>1 DEF Outdated
      <4> QED
        BY <4>1, <4>2
    <3> QED
      BY <1>0, <2>1, <2>3, <3>2 DEF FilesFresh
  <2> QED
    BY <2>1, <2>2, <2>3
<1>2. CASE RunRule(w)
  <2> DEFINE t == target[w]
  <2>1. /\ pc[w] = "running" /\ t \in Target
        /\ \/ UNCHANGED mtime
           \/ Write(t)
        /\ \/ UNCHANGED built
           \/ built' = built \cup {t} /\ (Write(t) \/ (t \notin Makes /\ UNCHANGED mtime))
    BY <1>0, <1>2 DEF RunRule, Holds, Holding
  <2>2. t \notin built /\ deps[t] \subseteq built
    <3>1. Mine(w, t)
      BY <2>1 DEF Mine
    <3>2. t \notin built
      BY <2>1, <3>1 DEF Alone, Placed, Waiting, StatesOpen, Decided
    <3> QED
      BY <1>0, <2>1, <3>2 DEF ScansTell, ScanTells
  <2>4. CASE Write(t)
    <3>1. /\ \A u \in Target : mtime'[u] = IF u = t THEN clock' ELSE mtime[u]
          /\ \A u \in Target : mtime[u] <= clock'
      BY <2>1, <2>4, WriteTells
    <3>2. ASSUME NEW u \in built, NEW d \in deps[u]
          PROVE  u # t /\ d # t /\ u \in Target /\ d \in Target
      <4>1. deps[u] \subseteq built
        BY DEF ScansTell, BuiltInOrder
      <4> QED
        BY <2>2, <4>1 DEF HistoryType
    <3>3. ASSUME NEW d \in deps[t]
          PROVE  mtime'[d] <= mtime'[t]
      <4>1. d \in Target /\ d # t
        BY <2>1, <2>2 DEF InputType
      <4> QED
        BY <2>1, <3>1, <4>1
    <3>4. ASSUME NEW u \in built \cap Makes, NEW d \in deps[u]
          PROVE  mtime'[d] <= mtime'[u]
      BY <3>1, <3>2 DEF FilesFresh
    <3> QED
      BY <1>0, <2>1, <3>3, <3>4 DEF FilesFresh
  <2>3. CASE UNCHANGED mtime
    <3>1. CASE Write(t)
      BY <2>4, <3>1
    <3>2. CASE ~ Write(t)
      <4>1. built' = built \/ (built' = built \cup {t} /\ t \notin Makes)
        BY <2>1, <3>2
      <4> QED
        BY <1>0, <2>3, <4>1 DEF FilesFresh
    <3> QED
      BY <3>1, <3>2
  <2> QED
    BY <2>1, <2>3, <2>4
<1>3. CASE ~ (Decide(w) \/ RunRule(w))
  <2>1. UNCHANGED <<mtime, built>>
    BY <1>3 DEF Work, Pull, Look, Test, Claim, Result, GiveUp, PutAside, PushBack, Finish, Lock,
                Drain, shared, history
  <2> QED
    BY <1>0, <2>1 DEF FilesFresh
<1> QED
  BY <1>1, <1>2, <1>3

\* With one worker and such goals, the files that were made for a goal are in order
\* when parmake() returns: none is older than one it was made from.
THEOREM FilesFreshWhenDone ==
  ASSUME NEW w, Worker = {w}
  PROVE  Spec /\ GoalsApart => []FreshWhenDone
<1>1. Init => FilesFresh
  BY DEF Init, FilesFresh
<1>2. TypeInv /\ ScansTell /\ Alone(w) /\ FilesFresh /\ [Next]_vars => FilesFresh'
  <2> SUFFICES ASSUME TypeInv, ScansTell, Alone(w), FilesFresh, [Next]_vars
               PROVE  FilesFresh'
    OBVIOUS
  <2>1. CASE Main
    <3>1. UNCHANGED <<deps, mtime, built>>
      BY <2>1 DEF Main, RejectGoal, AcceptGoal, StartThreads, WaitForGoal, StopThreads, PushNull,
                  Join, inputs, shared, history
    <3> QED
      BY <3>1 DEF FilesFresh
  <2>2. CASE Work(w)
    BY <2>2, WorkKeepsFresh
  <2>3. CASE UNCHANGED vars
    BY <2>3 DEF vars, inputs, shared, history, FilesFresh
  <2> QED
    BY <2>1, <2>2, <2>3 DEF Next
<1>3. TypeInv /\ ScansTell /\ FilesFresh => FreshWhenDone
  <2> SUFFICES ASSUME TypeInv, ScansTell, FilesFresh,
                      NEW g \in built, NEW t \in Below(g) \cap Makes, NEW d \in deps[t]
               PROVE  mtime[d] <= mtime[t]
    BY DEF FreshWhenDone
  <2>1. built \in SUBSET Target /\ Closed(built)
    BY DEF TypeInv, HistoryType, ScansTell, BuiltInOrder, Closed
  <2>2. Below(g) \subseteq built
    BY <2>1, BelowIsLeast DEF TypeInv
  <2> QED
    BY <2>2 DEF FilesFresh
<1>4. OneLoad
  BY DEF OneLoad
<1> QED
  BY <1>1, <1>2, <1>3, <1>4, SpecType, SpecScans, SpecAlone, PTL DEF Spec
=============================================================================
