------------------------------- MODULE GThreads -------------------------------
(***************************************************************************)
(* The green threads of savvy_scheduler (gthreads/gthreads.c): one process  *)
(* whose SIGALRM handler switches between the main program and the jobs     *)
(* the scheduler picks.                                                     *)
(*                                                                         *)
(* The main program calls gtgo, gtstart and gtsleep as its script says and  *)
(* ends with gtret, like the tests of main.c.  An alarm may arrive between  *)
(* any two steps of the thread that runs, also inside gtgo, which does not  *)
(* block it, and there inside priqueue_offer, which the handler calls too.  *)
(* gtyield itself is one step: it runs with the alarm blocked, or just      *)
(* after the 100 ms timer was set again.                                    *)
(***************************************************************************)
EXTENDS Scheduler, SequencesExt

CONSTANTS MAIN,      \* gtmain
          Scripts,   \* what the main program may call before gtret, under each scheme
          Infos,     \* the scheduler_info of the jobs: functions on Job
          Work,      \* bound: the steps a job takes before it returns
          MaxTime    \* bound: the alarms that arrive

Thread == Job \cup {MAIN}
SIGALRM == "SIGALRM"
GTSLEEP_SIG == "GTSLEEP"
YIELD == "YIELD"              \* the 0 of gtdoyield(0)
STOP == "STOP"                \* the -1 of gtret
MAIN_FREQUENCY == 2

ASSUME MainAssumption == MAIN \notin Job /\ MAIN # NULL
ASSUME BoundAssumption == Work \in Nat /\ MaxTime \in Nat
\* A job is one call of gtgo: a script starts it once.
Call == [op : {"gtgo"}, job : Job] \cup [op : {"gtstart", "gtsleep"}]
StartsOnce(p) == \A i, k \in DOMAIN p : p[i].op = "gtgo" /\ p[k].op = "gtgo" /\ p[i].job = p[k].job => i = k
ASSUME ScriptAssumption == \A s \in Schemes : \A p \in Scripts[s] : p \in Seq(Call) /\ StartsOnce(p)
ASSUME InfoAssumption == Infos \subseteq [Job -> [priority : Int, running_time : Int]]

VARIABLES
  lib,        \* the globals of libscheduler.c
  sched_data, \* the scheduler_info the main program gives each job
  time,       \* currtime(), in quanta
  currjob,
  suspended,
  counter,
  job_count,
  ctx,        \* where a thread goes on: "none" no stack yet, "start" its
              \* function, "user" its own code, "expire" the rest of gtyield
              \* after the visit of main, "gone" its stack is freed
  timer,      \* the alarm: "off", "once" or "periodic"
  script,     \* what the main program has left to call
  left,       \* the steps each job has left
  stopping,   \* the jobs between job_count-- and gtyield(-1)
  moved,      \* external: while main is inside priqueue_offer: the handler has
              \* changed the queue since
  exited,
  crashed,    \* a switch to a context that nobody has set or that is freed, or
              \* an entry used that was freed
  cut         \* history: priqueue_offer has linked a job into a queue that the
              \* handler had changed under it

gvars == <<lib, time, currjob, suspended, counter, ctx, timer, moved, crashed>>
vars == <<gvars, sched_data, job_count, script, left, stopping, exited, cut>>

------------------------------------------------------------------------------
(* gtyield.                                                                 *)

InYield == ctx[currjob] = "expire"
\* Main is between the first load of priqueue_offer and its last store.
Linking == script # <<>> /\ Head(script).op = "link"
InUser(t) == ~exited /\ ~crashed /\ currjob = t /\ ~InYield

\* gtswtch: the thread that runs is left with its context saved as c.
SwitchTo(t, c) ==
  /\ currjob' = t
  /\ ctx' = [ctx EXCEPT ![currjob] = c]
  /\ crashed' = (ctx'[t] \in {"none", "gone"})

\* Mutation: suspended keeps the job that goes on.
ToSuspended_Kept ==
  /\ SwitchTo(suspended, "user")
  /\ timer' = "periodic"
  /\ UNCHANGED <<lib, counter, suspended, moved>>

\* Main returns to the job it interrupted.
ToSuspended ==
  /\ SwitchTo(suspended, "user")
  /\ suspended' = NULL
  /\ timer' = "periodic"
  /\ UNCHANGED <<lib, counter, moved>>

\* Every other time main gets a quantum; a thread that comes back from there
\* is in the middle of gtyield.
ToMain ==
  /\ suspended' = currjob
  /\ SwitchTo(MAIN, "expire")
  /\ timer' = "once"
  /\ UNCHANGED <<lib, moved>>

Quantum(sig) == IF sig = STOP \/ currjob = MAIN THEN NULL ELSE currjob
Ended(sig) == IF sig = STOP THEN JobFinished(lib, currjob, time') ELSE lib
Expired(sig) == QuantumExpired(Ended(sig), Quantum(sig), time')

\* Mutation: the alarm is not set again when the same thread goes on.
Rearmed_OnSwitch(next) == IF next = currjob THEN "off" ELSE "periodic"
Rearmed(next) == "periodic"

\* gtdestroy: the stack a job has ended on is not one to switch back to.
Parted(sig) == IF sig = STOP THEN "gone" ELSE "user"

\* The scheduler picks the next thread, main when no job waits.
Expire(sig) ==
  LET r == Expired(sig)
      next == IF r.next = NULL THEN MAIN ELSE r.next
  IN /\ lib' = r.lib
     /\ timer' = Rearmed(next)
     /\ SwitchTo(next, Parted(sig))
     /\ moved' = (Linking /\ (moved \/ r.lib.queue # lib.queue))
     /\ UNCHANGED suspended

\* Mutation: the counter is not wrapped.
Counted_NotWrapped(sig) == IF sig \in {SIGALRM, GTSLEEP_SIG} THEN counter + 1 ELSE counter
Counted(sig) ==
  IF sig \in {SIGALRM, GTSLEEP_SIG} THEN (counter + 1) % MAIN_FREQUENCY ELSE counter

Visits(sig) == sig \in {SIGALRM, GTSLEEP_SIG} /\ Counted(sig) = 0 /\ job_count > 0

GtYield(sig) ==
  \/ /\ currjob = MAIN /\ suspended # NULL
     /\ ToSuspended
  \/ /\ ~(currjob = MAIN /\ suspended # NULL)
     /\ counter' = Counted(sig)
     /\ IF Visits(sig) THEN ToMain ELSE Expire(sig)

\* The thread that visited main goes on with the rest of gtyield.
FallThrough ==
  /\ ~exited /\ ~crashed /\ InYield
  /\ time' = time
  /\ Expire(SIGALRM)
  /\ UNCHANGED <<sched_data, counter, job_count, script, left, stopping, exited, cut>>

\* gthandle.
Alarm ==
  /\ InUser(currjob) /\ timer # "off" /\ time < MaxTime
  /\ time' = time + 1
  /\ GtYield(SIGALRM)
  /\ UNCHANGED <<sched_data, job_count, script, left, stopping, exited, cut>>

------------------------------------------------------------------------------
(* The main program.                                                        *)

Calls(op) == InUser(MAIN) /\ script # <<>> /\ Head(script).op = op
Then(ops) == script' = ops \o Tail(script)

\* gtgo, in four steps an alarm can come between.
Steps(ops, j) == [i \in DOMAIN ops |-> [op |-> ops[i], job |-> j]]
GtGo ==
  /\ Calls("gtgo")
  /\ job_count' = job_count + 1
  /\ Then(Steps(<<"info", "link", "stack">>, Head(script).job))
  /\ UNCHANGED <<gvars, sched_data, left, stopping, exited, cut>>

\* scheduler_new_job, until priqueue_offer begins to read the queue.
NewJobMade ==
  /\ Calls("info")
  /\ LET j == Head(script).job IN lib' = NewJob(lib, j, time, sched_data[j])
  /\ moved' = FALSE
  /\ Then(<<>>)
  /\ UNCHANGED <<time, currjob, suspended, counter, ctx, timer, crashed,
                 sched_data, job_count, left, stopping, exited, cut>>

\* The stores of priqueue_offer, at the place its loads have found.  If alarms
\* have changed the queue since, that place may be an entry that is freed.
NewJobQueued ==
  /\ Calls("link")
  /\ LET j == Head(script).job
     IN \/ ~moved /\ lib' = Offer(lib, j) /\ UNCHANGED crashed
        \/ moved /\ lib' \in Torn(lib, j) /\ UNCHANGED crashed
        \/ moved /\ crashed' = TRUE /\ UNCHANGED lib
  /\ cut' = (cut \/ moved)
  /\ Then(<<>>)
  /\ UNCHANGED <<time, currjob, suspended, counter, ctx, timer, moved,
                 sched_data, job_count, left, stopping, exited>>

StackReady ==
  /\ Calls("stack")
  /\ ctx' = [ctx EXCEPT ![Head(script).job] = "start"]
  /\ Then(<<>>)
  /\ UNCHANGED <<lib, time, currjob, suspended, counter, timer, moved, crashed,
                 sched_data, job_count, left, stopping, exited, cut>>

GtStart ==
  /\ Calls("gtstart")
  /\ timer' = "periodic"
  /\ Then(<<>>)
  /\ UNCHANGED <<lib, time, currjob, suspended, counter, ctx, moved, crashed,
                 sched_data, job_count, left, stopping, exited, cut>>

\* One turn of the loop of gtsleep; a longer sleep is several of them.
GtSleep ==
  /\ Calls("gtsleep")
  /\ Then(<<>>)
  /\ time' = time
  /\ GtYield(GTSLEEP_SIG)
  /\ UNCHANGED <<sched_data, job_count, left, stopping, exited, cut>>

\* Mutation: main leaves as soon as the queue is empty.
NothingToRun_Queue == lib.queue = <<>>
\* gtdoyield(0) of main returns false: no thread is suspended, none waits.
NothingToRun == suspended = NULL /\ lib.queue = <<>>

GtRet ==
  /\ InUser(MAIN) /\ script = <<>> /\ ~NothingToRun
  /\ time' = time
  /\ GtYield(YIELD)
  /\ UNCHANGED <<sched_data, job_count, script, left, stopping, exited, cut>>

Exit ==
  /\ InUser(MAIN) /\ script = <<>> /\ NothingToRun
  /\ exited' = TRUE
  /\ lib' = CleanUp(lib)
  /\ UNCHANGED <<time, currjob, suspended, counter, ctx, timer, moved, crashed, sched_data, job_count, script, left, stopping, cut>>

------------------------------------------------------------------------------
(* The jobs.                                                                *)

Step(j) == InUser(j) /\ left[j] > 0 /\ left' = [left EXCEPT ![j] = @ - 1]

Run(j) ==
  /\ Step(j)
  /\ UNCHANGED <<gvars, sched_data, job_count, script, stopping, exited, cut>>

\* A job may give up the processor, by gtsleep or gtdoyield(0).
JobYield(j, sig) ==
  /\ Step(j)
  /\ time' = time
  /\ GtYield(sig)
  /\ UNCHANGED <<sched_data, job_count, script, stopping, exited, cut>>

\* The function returns into gtstop.
GtStop(j) ==
  /\ InUser(j) /\ left[j] = 0 /\ j \notin stopping
  /\ stopping' = stopping \cup {j}
  /\ job_count' = job_count - 1
  /\ UNCHANGED <<gvars, sched_data, script, left, exited, cut>>

\* gtret(-1).
Leave(j) ==
  /\ InUser(j) /\ j \in stopping
  /\ time' = time
  /\ GtYield(STOP)
  /\ UNCHANGED <<sched_data, job_count, script, left, stopping, exited, cut>>

------------------------------------------------------------------------------
(* The main programs of main.c: functions on the jobs they start.           *)

Go(j) == [op |-> "gtgo", job |-> j]
Start == [op |-> "gtstart"]
Sleep == [op |-> "gtsleep"]

rr_fcfs_sjf_test(jobs) == [i \in DOMAIN jobs |-> Go(jobs[i])] \o <<Start>>

\* gtstart, then the jobs, main asleep after those at the places in naps.
StartFirst(jobs, naps) ==
  <<Start>> \o FlattenSeq([i \in DOMAIN jobs |-> IF i \in naps THEN <<Go(jobs[i]), Sleep>>
                                                               ELSE <<Go(jobs[i])>>])
psrtf_test(jobs) == StartFirst(jobs, 1 .. Len(jobs) - 1)
ppri_pri_test(jobs) == StartFirst(jobs, {2, 3})

\* gtinit, and the values the globals start with.
GtInit(s) ==
  /\ lib = StartUp(s)
  /\ currjob = MAIN
  /\ suspended = NULL
  /\ counter = 1
  /\ job_count = 0
  /\ ctx = [t \in Thread |-> IF t = MAIN THEN "user" ELSE "none"]
  /\ timer = "off"

\* main: the scheme of the command line and the test that goes with it.
Init ==
  /\ \E s \in Schemes : GtInit(s)
  /\ script \in Scripts[lib.scheme]
  /\ sched_data \in Infos
  /\ time = 0
  /\ left = [j \in Job |-> Work]
  /\ stopping = {}
  /\ moved = FALSE
  /\ exited = FALSE
  /\ crashed = FALSE
  /\ cut = FALSE

Main == GtGo \/ NewJobMade \/ NewJobQueued \/ StackReady \/ GtStart \/ GtSleep \/ GtRet \/ Exit
JobStep(j) == Run(j) \/ GtStop(j) \/ Leave(j) \/ \E sig \in {YIELD, GTSLEEP_SIG} : JobYield(j, sig)
Threads == Main \/ FallThrough \/ \E j \in Job : JobStep(j)

Next == Threads \/ Alarm

Spec == Init /\ [][Next]_vars

\* The process keeps running; alarms need not come.
FairSpec == Spec /\ WF_vars(Threads)
=============================================================================
