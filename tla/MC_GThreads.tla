----------------------------- MODULE MC_GThreads ------------------------------
(***************************************************************************)
(* Instances of the green threads for TLC.                                 *)
(***************************************************************************)
EXTENDS GThreadsProperties

CONSTANTS j1, j2, j3

MCJobs == {j1, j2, j3}

\* The main programs, with three jobs instead of five; jobs that are started
\* between sleeps also where main.c has them all started before.
MCScripts ==
  [s \in Schemes |->
     LET jobs == <<j1, j2, j3>>
     IN CASE s \in {"PRI", "PPRI"} -> {ppri_pri_test(jobs)}
          [] s = "PSRTF" -> {psrtf_test(jobs)}
          [] s \in {"FCFS", "RR", "SJF"} -> {rr_fcfs_sjf_test(jobs), psrtf_test(jobs)}]
MCStartFirst == [s \in Schemes |-> {psrtf_test(<<j1, j2>>)}]
Info(p, r) == [priority |-> p, running_time |-> r]
\* The first job is the longest and least urgent one, or the other way round;
\* j2 and j3 tie in one of the two.
MCInfos == { [j \in MCJobs |-> IF j = j1 THEN Info(3, 5) ELSE IF j = j2 THEN Info(2, 2) ELSE Info(1, 2)],
             [j \in MCJobs |-> IF j = j1 THEN Info(1, 1) ELSE Info(2, IF j = j2 THEN 2 ELSE 3)] }
MCOneInfo == { [j \in MCJobs |-> Info(1, 2)] }
=============================================================================
