------------------------------ MODULE Scheduler ------------------------------
(***************************************************************************)
(* libscheduler.c and libpriqueue.c of savvy_scheduler: the jobs that wait  *)
(* for the processor, in the order of the scheme.  The library keeps its    *)
(* state in globals; here it is one record, so that a caller can chain the  *)
(* calls of one step:                                                       *)
(*   scheme    pqueue_scheme                                                *)
(*   queue     pqueue, as a sequence of jobs                                *)
(*   info      the job_info of each job                                     *)
(*   current   currenttime, or -1                                           *)
(*   arrived, finished   the jobs counted by numarr and numfin              *)
(*   total     totalwait, totalturnaround and totalresponse                 *)
(* Times are in ticks.                                                      *)
(***************************************************************************)
EXTENDS Integers, Sequences, FiniteSets

CONSTANTS Job,
          Second,   \* ticks in a second: what the int currenttime keeps
          NULL      \* no job

ASSUME SecondAssumption == Second \in Nat \ {0}
ASSUME NoJobAssumption == NULL \notin Job
ASSUME JobAssumption == IsFiniteSet(Job)

Schemes == {"FCFS", "PPRI", "PRI", "PSRTF", "RR", "SJF"}
Preemptive(scheme) == scheme \in {"PPRI", "PSRTF", "RR"}

\* What the comparer of each scheme looks at first.
Key(scheme, i) ==
  CASE scheme = "FCFS" -> i.arrivetime
    [] scheme \in {"PRI", "PPRI"} -> i.priority
    [] scheme = "PSRTF" -> i.timeremaining
    [] scheme = "RR" -> i.lastTimeRun
    [] scheme = "SJF" -> i.runningtime

\* comparer(a, b) < 0; ties go to the job that arrived first.
Before(l, a, b) ==
  LET x == Key(l.scheme, l.info[a])
      y == Key(l.scheme, l.info[b])
  IN x < y \/ (x = y /\ l.info[a].arrivetime < l.info[b].arrivetime)

\* How many jobs priqueue_offer leaves in front of j: none, those up to the
\* first gap j fits in, or all.
\* Mutation: every job goes to the tail.
Ahead_All(l, j) == Len(l.queue)
Ahead(l, j) ==
  LET q == l.queue
      gaps == {i \in 1 .. Len(q) - 1 : ~Before(l, j, q[i]) /\ Before(l, j, q[i + 1])}
  IN IF q = <<>> \/ Before(l, j, q[1]) THEN 0
     ELSE IF gaps = {} THEN Len(q)
     ELSE CHOOSE i \in gaps : \A k \in gaps : i <= k

Offer(l, j) ==
  LET n == Ahead(l, j)
  IN [l EXCEPT !.queue = SubSeq(@, 1, n) \o <<j>> \o SubSeq(@, n + 1, Len(@))]

\* What priqueue_offer may leave behind when entries it has read were freed by
\* others, or new ones came in, before it writes its links.  The new entry hangs
\* on a freed one and is lost; or it is linked somewhere, and what follows it
\* begins at any place of the queue: jobs in between are lost, or found twice.
Torn(l, j) ==
  LET q == l.queue
      linked == {SubSeq(q, 1, n) \o <<j>> \o SubSeq(q, k, Len(q)) :
                   n \in 0 .. Len(q), k \in 1 .. Len(q) + 1}
  IN {[l EXCEPT !.queue = r] : r \in linked \cup {q}}

Truncated(time) == (time \div Second) * Second

\* scheduler_start_up.
StartUp(scheme) ==
  [scheme |-> scheme, queue |-> <<>>, current |-> -1, arrived |-> {}, finished |-> {},
   info |-> [j \in Job |-> [priority |-> 0, runningtime |-> 0, arrivetime |-> 0,
                            timeremaining |-> 0, starttime |-> 0, lastTimeRun |-> 0]],
   total |-> [wait |-> 0, turnaround |-> 0, response |-> 0]]

\* scheduler_new_job up to its call of priqueue_offer.
NewJob(l, j, time, data) ==
  LET i == [priority |-> data.priority, runningtime |-> data.running_time,
            arrivetime |-> time, timeremaining |-> data.running_time,
            starttime |-> 0, lastTimeRun |-> 0]
  IN [l EXCEPT !.info[j] = i, !.arrived = @ \cup {j}]

\* Mutation: no start time is kept.
Started_Not(l, j, time) == l
\* A job that has run for no time yet starts now.
Started(l, j, time) ==
  IF l.info[j].timeremaining = l.info[j].runningtime
  THEN [l EXCEPT !.info[j].starttime = time] ELSE l

\* priqueue_poll: the library without the head of the queue, and the head.
Poll(l) ==
  IF l.queue = <<>> THEN [lib |-> l, next |-> NULL]
  ELSE [lib |-> [l EXCEPT !.queue = Tail(@)], next |-> Head(l.queue)]

\* scheduler_quantum_expired: the library after the call, and its answer.
QuantumExpired(l, evicted, time) ==
  LET charged == IF l.current # -1 /\ evicted # NULL
                 THEN [l EXCEPT !.info[evicted].timeremaining = @ - (time - l.current)]
                 ELSE l
      now == [charged EXCEPT !.current = Truncated(time)]
      back == IF evicted = NULL THEN now
              ELSE Offer([now EXCEPT !.info[evicted].lastTimeRun = time], evicted)
      polled == Poll(back)
  IN IF evicted # NULL /\ ~Preemptive(l.scheme) THEN [lib |-> now, next |-> evicted]
     ELSE IF polled.next = NULL THEN polled
     ELSE [polled EXCEPT !.lib = Started(@, polled.next, time)]

\* scheduler_job_finished.
JobFinished(l, j, time) ==
  LET i == l.info[j]
      turnaround == time - i.arrivetime
  IN [l EXCEPT !.finished = @ \cup {j},
               !.total = [wait |-> @.wait + turnaround - i.runningtime,
                          turnaround |-> @.turnaround + turnaround,
                          response |-> @.response + i.starttime - i.arrivetime]]

\* The averages shown at the end; they are doubles, here rounded down.
print_stats(l) ==
  LET n == Cardinality(l.finished)
  IN [turnaround |-> l.total.turnaround \div n,
      waiting |-> l.total.wait \div n,
      response |-> l.total.response \div n]

\* scheduler_clean_up: what is queued is dropped.
CleanUp(l) == [l EXCEPT !.queue = <<>>]
=============================================================================
