------------------------------ MODULE CronJobs ------------------------------
(***************************************************************************)
(* CronService: the store of cron jobs, the scheduler that fires them, and *)
(* the runs that a firing or a webhook starts.                             *)
(*                                                                         *)
(* A run reads its job without the service's lock, makes a browser session,*)
(* puts an agent job in the queue and only then updates the store.  The    *)
(* sessions and the queue are those of the rest of the controller: here    *)
(* they are how many there are.                                            *)
(***************************************************************************)
EXTENDS Naturals, FiniteSets, ServiceValues

CONSTANTS CronJob,     \* identifiers of cron jobs, each used once
          Trigger,     \* coroutines that run a job
          MaxJobs,     \* cron_max_jobs
          SessionRoom, \* max_sessions
          QueueRoom,   \* capacity of the agent job queue
          ReadFails,   \* may a read of the store fail? the cases that are looked at
          MaxRuns,     \* bound of the runs that are counted for one job
          MaxStarts    \* bound of the restarts of the controller

ASSUME CronAssumption ==
  /\ MaxJobs \in Nat /\ SessionRoom \in Nat /\ QueueRoom \in Nat /\ MaxRuns \in Nat /\ MaxStarts \in Nat
  /\ ReadFails \subseteq BOOLEAN /\ IsFiniteSet(Trigger)
  /\ None \notin CronJob
  /\ None \notin [enabled : BOOLEAN, schedule : {None, "good", "bad"}, key : BOOLEAN, runs : Nat]
  /\ None \notin {"good", "bad"}

VARIABLES flaky,     \* may a read of the store fail?
          store,     \* crons.json: id -> record, or None
          scheduled, \* the jobs of the scheduler
          run,       \* the coroutines: where they are, and the job as they read it
          sessions,  \* how many sessions live
          queued,    \* how many agent jobs wait
          starts,
          used,      \* history: identifiers that were given out
          deleted,   \* history: jobs that were deleted
          lost,      \* history: jobs that a save after a failed read dropped
          enqueued   \* history: per job, the runs that were put in the queue

cvars == <<flaky, store, scheduled, run, sessions, queued, starts, used, deleted, lost, enqueued>>

\* A schedule may be absent, or one that CronTrigger cannot parse.
Schedules == {None, "good", "bad"}
Stored == {j \in CronJob : store[j] # None}
AtRest == [pc |-> "idle", job |-> None]

CInit ==
  /\ flaky \in ReadFails
  /\ store = [j \in CronJob |-> None]
  /\ scheduled = {} /\ sessions = 0 /\ queued = 0 /\ starts = 0
  /\ run = [t \in Trigger |-> AtRest]
  /\ used = {} /\ deleted = {} /\ lost = {}
  /\ enqueued = [j \in CronJob |-> 0]

\* _load: a store that cannot be read counts as empty.
Loads == {store} \cup (IF flaky THEN {[j \in CronJob |-> None]} ELSE {})

\* _save after a load.
SaveJobs(loaded, changed) ==
  /\ store' = changed
  /\ lost' = IF loaded = store THEN lost ELSE lost \cup {j \in Stored : changed[j] = None}

\* _register_job: a schedule that does not parse leaves the job out.
Registered(j, job) == IF job.enabled /\ job.schedule = "good" THEN {j} ELSE {}

-----------------------------------------------------------------------------
(* create, update and delete, each in one step under the lock.             *)

CreateJob ==
  /\ \E j \in CronJob \ used, loaded \in Loads, schedule \in Schedules, key \in BOOLEAN :
       LET job == [enabled |-> TRUE, schedule |-> schedule, key |-> key, runs |-> 0] IN
       /\ Cardinality({k \in CronJob : loaded[k] # None}) < MaxJobs
       /\ SaveJobs(loaded, [loaded EXCEPT ![j] = job])
       /\ scheduled' = scheduled \cup Registered(j, job)
       /\ used' = used \cup {j}
  /\ UNCHANGED <<flaky, run, sessions, queued, starts, deleted, enqueued>>

UpdateJob ==
  /\ \E j \in Stored, enabled \in BOOLEAN, schedule \in Schedules :
       LET job == [store[j] EXCEPT !.enabled = enabled, !.schedule = schedule] IN
       /\ SaveJobs(store, [store EXCEPT ![j] = job])
       /\ scheduled' = (scheduled \ {j}) \cup Registered(j, job)
  /\ UNCHANGED <<flaky, run, sessions, queued, starts, used, deleted, enqueued>>

DeleteJob ==
  /\ \E j \in Stored :
       /\ SaveJobs(store, [store EXCEPT ![j] = None])
       /\ scheduled' = scheduled \ {j}
       /\ deleted' = deleted \cup {j}
  /\ UNCHANGED <<flaky, run, sessions, queued, starts, used, enqueued>>

-----------------------------------------------------------------------------
(* Runs.                                                                   *)

\* _scheduled_run of a job that is due, or a webhook with the right key.
Begin(t) ==
  /\ run[t].pc = "idle"
  /\ \E j \in Stored :
       /\ j \in scheduled \/ store[j].key
       /\ enqueued[j] < MaxRuns
       /\ run' = [run EXCEPT ![t] = [pc |-> "session", job |-> j]]
  /\ UNCHANGED <<flaky, store, scheduled, sessions, queued, starts, used, deleted, lost, enqueued>>

\* create_session, which raises at the limit.
MakeSession(t) ==
  /\ run[t].pc = "session"
  /\ IF sessions < SessionRoom
     THEN sessions' = sessions + 1 /\ run' = [run EXCEPT ![t].pc = "queue"]
     ELSE run' = [run EXCEPT ![t] = AtRest] /\ UNCHANGED sessions
  /\ UNCHANGED <<flaky, store, scheduled, queued, starts, used, deleted, lost, enqueued>>

\* enqueue_run, which raises when the queue is full: the session stays.
EnqueueRun(t) ==
  /\ run[t].pc = "queue"
  /\ IF queued < QueueRoom
     THEN /\ queued' = queued + 1
          /\ enqueued' = [enqueued EXCEPT ![run[t].job] = @ + 1]
          /\ run' = [run EXCEPT ![t].pc = "count"]
     ELSE run' = [run EXCEPT ![t] = AtRest] /\ UNCHANGED <<queued, enqueued>>
  /\ UNCHANGED <<flaky, store, scheduled, sessions, starts, used, deleted, lost>>

\* Mutant: a run of a job that was disabled meanwhile is not counted.
CountEnabled(t) ==
  LET j == run[t].job IN
  /\ run[t].pc = "count"
  /\ IF j \in Stored /\ store[j].enabled
     THEN SaveJobs(store, [store EXCEPT ![j].runs = @ + 1])
     ELSE UNCHANGED <<store, lost>>
  /\ run' = [run EXCEPT ![t] = AtRest]
  /\ UNCHANGED <<flaky, scheduled, sessions, queued, starts, used, deleted, enqueued>>

\* The run is counted, under the lock, if its job is still there and can be read.
CountRun(t) ==
  LET j == run[t].job IN
  /\ run[t].pc = "count"
  /\ \/ j \in Stored /\ SaveJobs(store, [store EXCEPT ![j].runs = @ + 1])
     \/ (j \notin Stored \/ flaky) /\ UNCHANGED <<store, lost>>
  /\ run' = [run EXCEPT ![t] = AtRest]
  /\ UNCHANGED <<flaky, scheduled, sessions, queued, starts, used, deleted, enqueued>>

-----------------------------------------------------------------------------
(* The rest of the controller.                                             *)

\* An agent job ends; its session stays open until somebody closes it.
TakeJob ==
  /\ queued > 0 /\ queued' = queued - 1
  /\ UNCHANGED <<flaky, store, scheduled, run, sessions, starts, used, deleted, lost, enqueued>>

CloseOne ==
  /\ sessions > 0 /\ sessions' = sessions - 1
  /\ UNCHANGED <<flaky, store, scheduled, run, queued, starts, used, deleted, lost, enqueued>>

\* The controller stops and starts; the scheduler is filled from the store.  Runs
\* that were not counted yet never are.
RestartCron ==
  /\ starts < MaxStarts /\ starts' = starts + 1
  /\ run' = [t \in Trigger |-> AtRest]
  /\ sessions' = 0 /\ queued' = 0
  /\ \E loaded \in Loads :
       scheduled' = UNION {Registered(j, loaded[j]) : j \in {k \in CronJob : loaded[k] # None}}
  /\ enqueued' = [j \in CronJob |-> IF store[j] = None THEN enqueued[j] ELSE store[j].runs]
  /\ UNCHANGED <<flaky, store, used, deleted, lost>>

CNext ==
  \/ CreateJob \/ UpdateJob \/ DeleteJob
  \/ \E t \in Trigger : Begin(t) \/ MakeSession(t) \/ EnqueueRun(t) \/ CountRun(t)
  \/ TakeJob \/ CloseOne \/ RestartCron

CSpec == CInit /\ [][CNext]_cvars

-----------------------------------------------------------------------------
(* Properties.                                                             *)

\* RunsCounted: every run that was put in the queue is counted once, in the job as it is then: a
\* run that ends late neither loses an update nor brings a deleted job back; only a
\* read that fails loses a count, or the jobs that the next save leaves out
\* (cron_service._run_job_now).
RunsCounted ==
  /\ \A j \in Stored :
       LET counted == store[j].runs + Cardinality({t \in Trigger : run[t] = [pc |-> "count", job |-> j]})
       IN enqueued[j] = counted \/ (flaky /\ enqueued[j] > counted)
  /\ \A j \in used : j \in Stored <=> j \notin deleted \cup lost

\* SchedulerAgrees: the scheduler never fires a disabled job, and it has every enabled one whose
\* schedule parses, unless a read of the store failed at startup.
SchedulerAgrees ==
  /\ \A j \in scheduled : j \in Stored => store[j].enabled /\ store[j].schedule = "good"
  /\ ~flaky \/ starts = 0 =>
       \A j \in Stored : store[j].enabled /\ store[j].schedule = "good" => j \in scheduled

\* PROPERTY JobsKept: the file of the jobs, their counts and the scheduler agree, although each
\* operation reads and writes the whole file and any read of it may fail.
JobsKept == RunsCounted /\ SchedulerAgrees
=============================================================================
