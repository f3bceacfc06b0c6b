-------------------------- MODULE GThreadsProperties --------------------------
(***************************************************************************)
(* What the green threads promise.  Most of it ends (cut) when an alarm has  *)
(* changed the queue while gtgo was inside priqueue_offer: the code then     *)
(* reads freed entries, and jobs are lost or run twice.  A program that      *)
(* calls gtstart after its last gtgo never gets there (NeverCut in           *)
(* GThreadsProofs).                                                          *)
(***************************************************************************)
EXTENDS GThreads, FiniteSets

TypeOK ==
  /\ lib.scheme \in Schemes
  /\ lib.queue \in Seq(Job)
  /\ lib.arrived \subseteq Job /\ lib.finished \subseteq lib.arrived
  /\ \A j \in Job : lib.info[j].timeremaining \in Int
  /\ currjob \in Thread
  /\ suspended \in Thread \cup {NULL}
  /\ counter \in 0 .. MAIN_FREQUENCY - 1
  /\ job_count \in 0 .. Cardinality(Job)
  /\ ctx \in [Thread -> {"none", "start", "user", "expire", "gone"}]
  /\ timer \in {"off", "once", "periodic"}

One(b) == IF b THEN 1 ELSE 0
Places(j) ==
  Cardinality({i \in DOMAIN lib.queue : lib.queue[i] = j})
    + One(currjob = j) + One(suspended = j) + One(j \in lib.finished)

\* The job main is about to link into the queue.
Arriving == IF Linking THEN {Head(script).job} ELSE {}

\* A job that has arrived is in exactly one place: waiting in the queue,
\* running, suspended while main has a quantum, or finished.  None is lost by
\* a switch, none runs twice, none is switched to after its stack was freed;
\* unless an alarm changed the queue inside the priqueue_offer of gtgo.
OnePlace == ~cut => \A j \in lib.arrived \ Arriving : Places(j) = 1

\* While a job runs, the alarm that takes the processor from it is set: no
\* path through gtyield leaves it off.
Preemptible == currjob \in Job => timer # "off"

\* The main program leaves gtret only when every job it started has finished,
\* or an alarm changed the queue inside the priqueue_offer of gtgo.
ExitMeansFinished == exited /\ ~cut => lib.finished = lib.arrived /\ job_count = 0

\* libscheduler.c:180: the averages that are printed at the end make sense: no
\* job started before it arrived or after it ended, whatever job the queue,
\* main's quantum or a voluntary yield brought to the processor first (as long
\* as the library has used no freed entry).
StatisticsMakeSense ==
  ~cut /\ lib.finished # {} => /\ 0 <= print_stats(lib).response
                       /\ print_stats(lib).response <= print_stats(lib).turnaround

\* The job that gets the processor from the queue is one the scheme puts
\* before all that wait, although priorities, remaining times and last runs
\* were compared when each of them was queued; and under a scheme without
\* preemption a job gives way to another only when it has finished; unless an
\* alarm changed the queue inside the priqueue_offer of gtgo.
SchemeObeyed ==
  [][~cut' =>
     /\ \A j \in Job : j = currjob' /\ j # currjob /\ j # suspended =>
          \A i \in DOMAIN lib'.queue : ~Before(lib', lib'.queue[i], j)
     /\ ~Preemptive(lib.scheme) /\ currjob \in Job /\ currjob' \in Job \ {currjob}
          => currjob \in lib'.finished]_vars

\* gthreads.h:74 "won't start until it's actually scheduled - after gtgo is
\* called": no job is switched to before gtgo has set up its stack.
StartsAfterGtgo == currjob \in Job => ctx[currjob] # "none"

\* The main program gets to its exit, whatever alarms come, unless one of them
\* makes gtyield switch to a context nobody has set or changes the queue inside
\* priqueue_offer, which may leave a queue that has no end.
Finishes == <>(exited \/ crashed \/ cut)
=============================================================================
