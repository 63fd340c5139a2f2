----------------------------- MODULE AgentJobs ------------------------------
(***************************************************************************)
(* The background queue of agent runs of the auto-browser controller        *)
(* (controller/app/agent_jobs.py): AgentJobStore, one JSON file per job,    *)
(* and AgentJobQueue, its bounded asyncio.Queue, workers, and the handlers  *)
(* that enqueue, resume, cancel and discard jobs.                           *)
(*                                                                          *)
(* An action is what runs between two awaits.  A store operation holds the  *)
(* store's lock, so it is one action; but cancelling a task that awaits one *)
(* releases the lock and leaves its thread running: such a thread is in     *)
(* `strays`, and reads and writes the file in two actions of its own.       *)
(* The orchestrator is seen through the steps it returns, and the audit log *)
(* only through the points at which its callers are suspended.              *)
(***************************************************************************)
EXTENDS Naturals, Sequences, FiniteSets

CONSTANTS
  MaxJobs,    \* bound: the jobs that may ever be created
  Client,     \* the requests that may be in progress at once
  Workers,    \* worker_count
  QueueMax,   \* maxsize of the queue
  Ask,        \* the kind and max_steps that clients ask for, a set of pairs
  MaxStops    \* bound: the crashes and shutdowns of the controller

ASSUME ConstantAssumption ==
  /\ MaxJobs \in Nat /\ Workers \in Nat \ {0} /\ QueueMax \in Nat \ {0} /\ MaxStops \in Nat
  /\ Ask \subseteq ({"agent_run"} \X (Nat \ {0})) \cup {<<"agent_step", 1>>}

VARIABLES
  up,         \* down, starting (in startup), up, or stopping (in shutdown)
  record,     \* the job files
  queue,      \* self.queue
  task,       \* self._running_tasks and self._cancellation_reasons
  strays,     \* threads whose task was cancelled
  request,    \* the handlers in progress
  performed,  \* steps a run has to its name, for each job
  stops

vars == <<up, record, queue, task, strays, request, performed, stops>>

(* A job is named by the order of its created_at.                           *)
Job == 1 .. MaxJobs

-----------------------------------------------------------------------------
(* Records, and what the _sync methods of the store do to them.             *)

Absent == [status |-> "absent", kind |-> "agent_run", max_steps |-> 0, checkpoints |-> 0,
           result |-> "none", parent |-> 0]

Queued(kind, max, parent) ==
  [status |-> "queued", kind |-> kind, max_steps |-> max, checkpoints |-> 0,
   result |-> "none", parent |-> parent]

(* The result is kept as far as _is_resumable looks at it.                  *)
With(r, status, result) ==
  [status |-> status, kind |-> r.kind, max_steps |-> r.max_steps, checkpoints |-> r.checkpoints,
   result |-> result, parent |-> r.parent]

Started(r)  == IF r.status = "queued" THEN [r EXCEPT !.status = "running"] ELSE r
Appended(r) == [r EXCEPT !.checkpoints = r.checkpoints + 1]

Finished(r, status, result) ==
  IF r.status = "cancelling" THEN With(r, "cancelled", "none")
  ELSE IF r.status \in {"cancelled", "discarded"} THEN r
  ELSE With(r, status, result)

FinishedCancelled(r, by_user) == With(r, IF by_user THEN "cancelled" ELSE "interrupted", "none")

Discarded(r) == [r EXCEPT !.status = "discarded"]

(* Mutant: the statuses that cannot be resumed are listed, one is missing.  *)
IsResumableEarly(r) ==
  r.kind = "agent_run" /\ r.status \notin {"absent", "queued", "cancelling", "cancelled", "discarded"}

IsResumable(r) ==
  /\ r.kind = "agent_run"
  /\ \/ r.status \in {"interrupted", "failed"}
     \/ r.status = "completed" /\ r.result = "resumable"

Remaining(r) == IF r.max_steps > r.checkpoints THEN r.max_steps - r.checkpoints ELSE 1

-----------------------------------------------------------------------------
(* Tasks.  pc is the await a task is suspended in:                          *)
(*   created     start_queued                                               *)
(*   started     the audit of agent_job_started, outside the try            *)
(*   step        orchestrator.step                                          *)
(*   checkpoint  append_checkpoint, after a step                            *)
(*   guard       request_human_takeover, when the run goes in circles       *)
(*   finish      finish("completed")                                        *)
(*   failing     finish("failed"), in the except clause                     *)
(*   cancelled   finish_cancelled, in the except clause                     *)
(*   done        the last audit, or the worker is about to forget the task  *)

Task(pc, steps, outcome, by_user) ==
  [pc |-> pc, steps |-> steps, outcome |-> outcome, by_user |-> by_user]

(* A task at pc that needs none of its locals any more.                     *)
Bare(pc) == Task(pc, 0, "none", FALSE)
NoTask   == Bare("none")

Live  == {j \in Job : task[j].pc # "none"}
Idle  == [op |-> "idle", job |-> 0, steps |-> 0]

(* What a thread of the task in its store operation does.                   *)
StoreOps == {"created", "checkpoint", "finish", "failing", "cancelled"}

Written(op, r, t) ==
  IF op = "created" THEN Started(r)
  ELSE IF op = "checkpoint" THEN Appended(r)
  ELSE IF op = "finish" THEN Finished(r, "completed", t.outcome)
  ELSE IF op = "failing" THEN Finished(r, "failed", "none")
  ELSE FinishedCancelled(r, t.by_user)

(* The thread task j leaves behind when it is cancelled now.                *)
Stray(j) == [job |-> j, op |-> task[j].pc, outcome |-> task[j].outcome,
             by_user |-> task[j].by_user, seen |-> Absent]

(* Where CancelledError takes a task: only the try block catches it.        *)
AfterCancel(pc, by_user) ==
  IF pc \in {"step", "checkpoint", "guard", "finish"} THEN Task("cancelled", 0, "none", by_user)
  ELSE Bare("done")

Runs(j, pc)  == up \in {"up", "stopping"} /\ task[j].pc = pc
Become(j, t) == task' = [task EXCEPT ![j] = t]
Reply(c, r)  == request' = [request EXCEPT ![c] = r]
Update(j, r) == record' = [record EXCEPT ![j] = r]

(* The store operation that the task of j awaits.                           *)
Store(j) == Update(j, Written(task[j].pc, record[j], task[j]))

-----------------------------------------------------------------------------
(* Handlers.                                                                *)

NextJob == Cardinality({j \in Job : record[j] # Absent}) + 1

(* Mutant: the queue is filled beyond its maxsize.                          *)
EnqueueUnbounded(c, r) ==
  /\ NextJob \in Job
  /\ Update(NextJob, r)
  /\ queue' = Append(queue, NextJob)
  /\ Reply(c, Idle)
  /\ UNCHANGED <<up, task, strays, performed, stops>>

(* _enqueue: create, then put_nowait, with no await between them.           *)
Enqueue(c, r) ==
  /\ NextJob \in Job
  /\ Update(NextJob, r)
  /\ IF Len(queue) < QueueMax
     THEN queue' = Append(queue, NextJob) /\ Reply(c, Idle)
     ELSE UNCHANGED queue /\ Reply(c, [op |-> "full", job |-> NextJob, steps |-> 0])
  /\ UNCHANGED <<up, task, strays, performed, stops>>

Free(c) == up = "up" /\ request[c] = Idle

EnqueueNew(c) == Free(c) /\ \E a \in Ask : Enqueue(c, Queued(a[1], a[2], 0))

(* QueueFull: the record that _enqueue holds replaces the one on disk.      *)
Refuse(c) ==
  /\ up = "up"
  /\ request[c].op = "full"
  /\ LET j == request[c].job IN
     Update(j, With(Queued(record[j].kind, record[j].max_steps, record[j].parent), "failed", "none"))
  /\ Reply(c, Idle)
  /\ UNCHANGED <<up, queue, task, strays, performed, stops>>

(* resume_job reads the source, and creates its child later.                *)
ResumeRead(c, j) ==
  /\ Free(c)
  /\ IsResumable(record[j])
  /\ Reply(c, [op |-> "resume", job |-> j, steps |-> Remaining(record[j])])
  /\ UNCHANGED <<up, record, queue, task, strays, performed, stops>>

ResumeEnqueue(c) ==
  /\ up = "up"
  /\ request[c].op = "resume"
  /\ Enqueue(c, Queued("agent_run", request[c].steps, request[c].job))

Discard(j) ==
  /\ up = "up"
  /\ record[j].status \notin {"absent", "running", "cancelling", "discarded"}
  /\ Update(j, Discarded(record[j]))
  /\ UNCHANGED <<up, queue, task, strays, request, performed, stops>>

(* task.cancel().  The thread of a store operation runs on, or never began. *)
Cut(S, by_user) ==
  /\ task' = [j \in Job |->
                IF j \in S THEN AfterCancel(task[j].pc, by_user) ELSE task[j]]
  /\ \E T \in SUBSET {j \in S : task[j].pc \in StoreOps} : strays' = strays \cup {Stray(j) : j \in T}

(* cancel_job looks the task up after its own audit; without one, it is     *)
(* going to mark the job interrupted.                                       *)
Signal(c, j) ==
  IF j \in Live
  THEN Cut({j}, TRUE) /\ Reply(c, Idle)
  ELSE UNCHANGED <<task, strays>> /\ Reply(c, [op |-> "overwrite", job |-> j, steps |-> 0])

CancelQueued(j) ==
  /\ up = "up"
  /\ record[j].status = "queued"
  /\ Update(j, With(record[j], "cancelled", record[j].result))
  /\ UNCHANGED <<up, queue, task, strays, request, performed, stops>>

CancelRunning(c, j) ==
  /\ Free(c)
  /\ record[j].status = "running"
  /\ Update(j, With(record[j], "cancelling", record[j].result))
  /\ Reply(c, [op |-> "cancel", job |-> j, steps |-> 0])
  /\ UNCHANGED <<up, queue, task, strays, performed, stops>>

CancelSignal(c) ==
  /\ up = "up"
  /\ request[c].op = "cancel"
  /\ Signal(c, request[c].job)
  /\ UNCHANGED <<up, record, queue, performed, stops>>

(* The job is being cancelled already: no write and no audit.               *)
CancelAgain(c, j) ==
  /\ Free(c)
  /\ record[j].status = "cancelling"
  /\ Signal(c, j)
  /\ UNCHANGED <<up, record, queue, performed, stops>>

CancelOverwrite(c) ==
  /\ up = "up"
  /\ request[c].op = "overwrite"
  /\ Update(request[c].job, FinishedCancelled(record[request[c].job], FALSE))
  /\ Reply(c, Idle)
  /\ UNCHANGED <<up, queue, task, strays, performed, stops>>

-----------------------------------------------------------------------------
(* Workers and tasks.                                                       *)

WorkerTake ==
  /\ up = "up"
  /\ queue # <<>>
  /\ Cardinality(Live) < Workers
  /\ Become(Head(queue), Bare("created"))
  /\ queue' = Tail(queue)
  /\ UNCHANGED <<up, record, strays, request, performed, stops>>

(* Mutant: a job starts whatever start_queued finds.                        *)
TaskStartAlways(j) ==
  /\ Runs(j, "created")
  /\ Update(j, [record[j] EXCEPT !.status = "running"])
  /\ Become(j, Bare("started"))
  /\ UNCHANGED <<up, queue, strays, request, performed, stops>>

TaskStart(j) ==
  /\ Runs(j, "created")
  /\ Store(j)
  /\ Become(j, Bare(IF record[j].status = "queued" THEN "started" ELSE "done"))
  /\ UNCHANGED <<up, queue, strays, request, performed, stops>>

TaskBegin(j) ==
  /\ Runs(j, "started")
  /\ Become(j, Bare("step"))
  /\ UNCHANGED <<up, record, queue, strays, request, performed, stops>>

(* The orchestrator returns a step: the run goes on, or is over with a      *)
(* result that can be resumed (out of steps, approval_required, error) or   *)
(* not (done, takeover), or the loop guard finds that the last three steps, *)
(* this one included, did the same in vain.                                 *)
StepReturns(j) ==
  /\ Runs(j, "step")
  /\ performed' = [performed EXCEPT ![j] = @ + 1]
  /\ LET steps == task[j].steps + 1 IN
     \E outcome \in {"final", "resumable"}
                      \cup (IF steps < record[j].max_steps THEN {"go_on"} ELSE {})
                      \cup (IF steps >= 3 THEN {"looping"} ELSE {}) :
       Become(j, Task("checkpoint", steps, outcome, FALSE))
  /\ UNCHANGED <<up, record, queue, strays, request, stops>>

(* How run goes on when the step has its checkpoint.                        *)
AfterStep(t) ==
  IF t.outcome = "go_on" THEN Task("step", t.steps, "none", FALSE)
  ELSE IF t.outcome = "looping" THEN Bare("guard")
  ELSE Task("finish", 0, t.outcome, FALSE)

(* Mutant: the last step of a run gets no checkpoint.                       *)
TaskCheckpointNotLast(j) ==
  /\ Runs(j, "checkpoint")
  /\ IF task[j].outcome = "go_on" THEN Store(j) ELSE UNCHANGED record
  /\ Become(j, AfterStep(task[j]))
  /\ UNCHANGED <<up, queue, strays, request, performed, stops>>

TaskCheckpoint(j) ==
  /\ Runs(j, "checkpoint")
  /\ Store(j)
  /\ Become(j, AfterStep(task[j]))
  /\ UNCHANGED <<up, queue, strays, request, performed, stops>>

(* The session is handed over to a human; the run adds that to its steps as  *)
(* one more, without telling on_step, and is over.                          *)
GuardTakesOver(j) ==
  /\ Runs(j, "guard")
  /\ performed' = [performed EXCEPT ![j] = @ + 1]
  /\ Become(j, Task("finish", 0, "guarded", FALSE))
  /\ UNCHANGED <<up, record, queue, strays, request, stops>>

(* A step raises, or the guard, or what follows the last step in run.       *)
StepRaises(j) ==
  /\ Runs(j, "step") \/ Runs(j, "guard") \/ Runs(j, "finish")
  /\ Become(j, Bare("failing"))
  /\ UNCHANGED <<up, record, queue, strays, request, performed, stops>>

TaskFinish(j) ==
  /\ Runs(j, "finish") \/ Runs(j, "failing") \/ Runs(j, "cancelled")
  /\ Store(j)
  /\ Become(j, Bare("done"))
  /\ UNCHANGED <<up, queue, strays, request, performed, stops>>

WorkerForget(j) ==
  /\ Runs(j, "done")
  /\ Become(j, NoTask)
  /\ UNCHANGED <<up, record, queue, strays, request, performed, stops>>

(* A thread nobody waits for.                                               *)
StrayReads(s) ==
  /\ s.seen = Absent
  /\ strays' = (strays \ {s}) \cup {[s EXCEPT !.seen = record[s.job]]}
  /\ UNCHANGED <<up, record, queue, task, request, performed, stops>>

StrayWrites(s) ==
  /\ s.seen # Absent
  /\ Update(s.job, IF s.op = "created" /\ s.seen.status # "queued" THEN record[s.job]
                   ELSE Written(s.op, s.seen, s))
  /\ strays' = strays \ {s}
  /\ UNCHANGED <<up, queue, task, request, performed, stops>>

-----------------------------------------------------------------------------
(* The controller process.                                                  *)

QueuedJobs == {j \in Job : record[j].status = "queued"}

(* The queued jobs in the order of their creation, as many as there are     *)
(* places for.                                                              *)
FirstQueued ==
  LET places == IF Cardinality(QueuedJobs) < QueueMax THEN Cardinality(QueuedJobs) ELSE QueueMax
  IN {q \in [1 .. places -> QueuedJobs] :
        \A i \in 1 .. places : {k \in QueuedJobs : k < q[i]} = {q[h] : h \in 1 .. i - 1}}

(* Mutants: the queued jobs are not put back; running jobs are not marked.  *)
StartupForgets ==
  /\ up = "down"
  /\ record' = [j \in Job |-> IF record[j].status = "running"
                               THEN With(record[j], "interrupted", record[j].result) ELSE record[j]]
  /\ up' = "up"
  /\ UNCHANGED <<queue, task, strays, request, performed, stops>>

StartupMarksNothing ==
  /\ up = "down"
  /\ queue' \in FirstQueued
  /\ up' = "up"
  /\ UNCHANGED <<record, task, strays, request, performed, stops>>

(* mark_running_interrupted, then the queued jobs.  The workers do not exist *)
(* yet: put waits for ever when there are more queued jobs than places.     *)
Startup ==
  /\ up = "down"
  /\ record' = [j \in Job |-> IF record[j].status = "running"
                               THEN With(record[j], "interrupted", record[j].result) ELSE record[j]]
  /\ queue' \in FirstQueued
  /\ up' = IF \A j \in QueuedJobs : \E i \in 1 .. Len(queue') : queue'[i] = j THEN "up" ELSE "starting"
  /\ UNCHANGED <<task, strays, request, performed, stops>>

(* The server has answered its requests when it shuts the queue down.       *)
Shutdown ==
  /\ up = "up"
  /\ \A c \in Client : request[c] = Idle
  /\ stops < MaxStops
  /\ stops' = stops + 1
  /\ up' = "stopping"
  /\ Cut(Live, FALSE)
  /\ UNCHANGED <<record, queue, request, performed>>

Forgotten ==
  /\ up' = "down"
  /\ queue' = <<>>
  /\ task' = [j \in Job |-> NoTask]
  /\ strays' = {}
  /\ request' = [c \in Client |-> Idle]
  /\ UNCHANGED <<record, performed>>

(* asyncio.run waits for the threads.                                       *)
Stopped == up = "stopping" /\ Live = {} /\ strays = {} /\ Forgotten /\ UNCHANGED stops

Crash == up # "down" /\ stops < MaxStops /\ stops' = stops + 1 /\ Forgotten

-----------------------------------------------------------------------------
Init ==
  /\ up = "down"
  /\ record = [j \in Job |-> Absent]
  /\ queue = <<>>
  /\ task = [j \in Job |-> NoTask]
  /\ strays = {}
  /\ request = [c \in Client |-> Idle]
  /\ performed = [j \in Job |-> 0]
  /\ stops = 0

Handlers(c) == Refuse(c) \/ ResumeEnqueue(c) \/ CancelSignal(c) \/ CancelOverwrite(c)

Clients(c) == \/ EnqueueNew(c)
              \/ \E j \in Job : ResumeRead(c, j) \/ CancelRunning(c, j) \/ CancelAgain(c, j)

Tasks(j) == \/ TaskStart(j) \/ TaskBegin(j) \/ StepReturns(j) \/ StepRaises(j)
            \/ TaskCheckpoint(j) \/ GuardTakesOver(j) \/ TaskFinish(j) \/ WorkerForget(j)

Threads == \E s \in strays : StrayReads(s) \/ StrayWrites(s)

Next == \/ \E c \in Client : Clients(c) \/ Handlers(c)
        \/ \E j \in Job : Discard(j) \/ CancelQueued(j) \/ Tasks(j)
        \/ WorkerTake \/ Threads
        \/ Startup \/ Shutdown \/ Stopped \/ Crash

(* The event loop runs every task that can run, a step of the orchestrator  *)
(* has timeouts, and the controller is restarted when it is down.  Nobody   *)
(* has to ask for anything, and nothing has to crash.                       *)
Fairness ==
  /\ \A c \in Client : WF_vars(Handlers(c))
  /\ \A j \in Job : WF_vars(Tasks(j))
  /\ WF_vars(WorkerTake) /\ WF_vars(Threads) /\ WF_vars(Startup) /\ WF_vars(Stopped)

Spec == Init /\ [][Next]_vars /\ Fairness

-----------------------------------------------------------------------------
Status  == {"queued", "running", "cancelling", "completed", "failed", "cancelled",
            "interrupted", "discarded"}
Records == [status : Status, kind : {"agent_run", "agent_step"}, max_steps : Nat \ {0},
            checkpoints : Nat, result : {"none", "final", "resumable", "guarded"}, parent : 0 .. MaxJobs]
Outcome == {"none", "go_on", "looping", "final", "resumable", "guarded"}
Tasks_  == [pc : StoreOps \cup {"none", "started", "step", "guard", "done"}, steps : Nat,
            outcome : Outcome, by_user : BOOLEAN]

(* PROPERTY TypeOK: the job files and the state of AgentJobQueue keep their *)
(* types: in particular a finished job has a result that can be told        *)
(* resumable or not.                                                        *)
TypeOK ==
  /\ up \in {"down", "starting", "up", "stopping"}
  /\ record \in [Job -> Records \cup {Absent}]
  /\ queue \in Seq(Job) /\ Len(queue) <= QueueMax
  /\ task \in [Job -> Tasks_]
  /\ strays \subseteq [job : Job, op : StoreOps, outcome : Outcome, by_user : BOOLEAN,
                     seen : Records \cup {Absent}]
  /\ request \in [Client -> [op : {"idle", "full", "resume", "cancel", "overwrite"},
                             job : 0 .. MaxJobs, steps : Nat]]
  /\ performed \in [Job -> Nat]
  /\ stops \in 0 .. MaxStops

(* PROPERTY NoLostJob: while the controller is up, a job that is queued on  *)
(* disk will be taken up: it waits in the queue, exactly once, or a worker  *)
(* has just taken it, or its client is about to be told that the queue is   *)
(* full (AgentJobQueue._enqueue, startup and _process_job).                 *)
NoLostJob ==
  up = "up" =>
    \A j \in QueuedJobs :
      \/ Cardinality({i \in 1 .. Len(queue) : queue[i] = j}) = 1 /\ task[j] = NoTask
      \/ task[j].pc = "created" /\ \A i \in 1 .. Len(queue) : queue[i] # j
      \/ \E c \in Client : request[c].op = "full" /\ request[c].job = j

Executing == {"started", "step", "checkpoint", "guard", "finish", "failing"}

(* PROPERTY RunningIsExecuted: while the controller is up, a job whose      *)
(* record says running has a task that will end it: discard_job and         *)
(* resume_job refuse a running job, so it could not be got rid of           *)
(* otherwise.                                                               *)
RunningIsExecuted ==
  up = "up" => \A j \in Job : record[j].status = "running" => task[j].pc \in Executing

(* The steps of a result that on_step was not told of: the loop guard's.    *)
Untold(result) == IF result = "guarded" THEN 1 ELSE 0

(* PROPERTY StepsRecorded: a record has a checkpoint for every step its job *)
(* completed, but for the last one, which a cancellation or a crash may     *)
(* have cut off; a completed job has them all, but for the takeover of the  *)
(* loop guard, the last step of its result, which never gets one ("persist  *)
(* a compact checkpoint after every completed step", docs/                  *)
(* llm-adapters.md:100, so reads: every step of the agent).                 *)
StepsRecorded ==
  \A j \in Job :
    /\ performed[j] - record[j].checkpoints \in {0, 1}
    /\ record[j].status = "completed" =>
         performed[j] = record[j].checkpoints + Untold(record[j].result)

Active(j) == task[j].pc \in {"started", "step", "checkpoint", "guard"}

(* PROPERTY ResumedAlone: a job and the job that resumes it never drive the *)
(* browser session at the same time, although nothing in resume_job looks   *)
(* at the tasks.                                                            *)
ResumedAlone ==
  \A j \in Job : Active(j) /\ record[j].parent # 0 => ~ Active(record[j].parent)

(* The phase of JobLifecycle a job is in.                                   *)
PhaseOf(j) == IF record[j] = Absent THEN "absent"
              ELSE IF record[j].status = "queued" THEN "waiting"
              ELSE IF Active(j) THEN "working" ELSE "over"

Phases == [j \in Job |-> PhaseOf(j)]

Lifecycle == INSTANCE JobLifecycle WITH phase <- Phases

(* PROPERTY Implements: the queue implements JobLifecycle: every job is     *)
(* worked on at most once, across cancellations, crashes and restarts, and  *)
(* never after it was cancelled or discarded while it waited.               *)
Implements == Lifecycle!Spec

(* PROPERTY QueuedJobsAreDecided: a job that is queued is eventually        *)
(* executed, refused or withdrawn ("durable background job execution",      *)
(* docs/architecture.md:172).                                               *)
QueuedJobsAreDecided == \A j \in Job : record[j].status = "queued" ~> record[j].status # "queued"

(* PROPERTY RunningJobsEnd: no job stays running, whoever cancels it and    *)
(* whenever the controller stops.                                           *)
RunningJobsEnd == \A j \in Job : record[j].status = "running" ~> record[j].status # "running"

(* PROPERTY RestartInterrupts: once the controller is up again after a      *)
(* restart, no record says that its job is being executed (docs/            *)
(* llm-adapters.md:102).                                                    *)
RestartInterrupts ==
  [][up = "down" /\ up' = "up" =>
       \A j \in Job : record'[j].status \notin {"running", "cancelling"}]_vars

(* PROPERTY CancelledStays: a job that was cancelled by its user stays      *)
(* cancelled until it is discarded (tests/test_agent_jobs.py:203).          *)
CancelledStays ==
  [][\A j \in Job : record[j].status = "cancelled" =>
                      record'[j].status \in {"cancelled", "discarded"}]_vars
=============================================================================
