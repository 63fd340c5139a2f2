---------------------------- MODULE JobLifecycle ----------------------------
(***************************************************************************)
(* What the background queue of agent runs promises of a job, whatever the  *)
(* interleaving of clients, workers, cancellations and restarts: a job is   *)
(* worked on at most once.  A job that is over, or was withdrawn before it  *)
(* started, is never worked on again; work that is to be repeated is a new  *)
(* job (AgentJobQueue.resume_job).                                          *)
(***************************************************************************)
EXTENDS Naturals, FiniteSets

CONSTANTS Job,        \* the jobs
          Workers     \* how many jobs may be worked on at once

VARIABLE phase        \* absent, waiting, working or over, for each job

In(p) == {j \in Job : phase[j] = p}

Init == phase = [j \in Job |-> "absent"]

Submit(j) == phase[j] = "absent" /\ phase' = [phase EXCEPT ![j] = "waiting"]

Start(j) == /\ phase[j] = "waiting"
            /\ Cardinality(In("working")) < Workers
            /\ phase' = [phase EXCEPT ![j] = "working"]

Withdraw(j) == phase[j] = "waiting" /\ phase' = [phase EXCEPT ![j] = "over"]

(* A crash or a shutdown ends several at once.                              *)
End(S) == /\ S \subseteq In("working")
          /\ phase' = [j \in Job |-> IF j \in S THEN "over" ELSE phase[j]]

Next == \/ \E j \in Job : Submit(j) \/ Start(j) \/ Withdraw(j)
        \/ \E S \in SUBSET Job : End(S)

Spec == Init /\ [][Next]_phase
=============================================================================
