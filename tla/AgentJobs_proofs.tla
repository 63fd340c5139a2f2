-------------------------- MODULE AgentJobs_proofs --------------------------
(***************************************************************************)
(* The job queue keeps its promises for any number of jobs, clients,        *)
(* workers, places and crashes.                                             *)
(*                                                                          *)
(* None of the invariants is inductive by itself.  What they lack is a      *)
(* history of each job: a job that waits has been touched by nobody (Line,  *)
(* Refusals), one that is executed has no other threads (Execution), one    *)
(* that was cancelled may have two that race, which bring no status back to *)
(* running while the controller is up (Threads_) and at most the last       *)
(* checkpoint (Counts), and a parent is over for good (Parents).            *)
(***************************************************************************)
EXTENDS AgentJobs, FiniteSetTheorems, SequenceTheorems, TLAPS

InQueue(j)   == \E i \in 1 .. Len(queue) : queue[i] = j
InLine(j)    == InQueue(j) \/ task[j].pc = "created"
Unasked(j)   == \A c \in Client : request[c].job # j
Unthreaded(j) == \A s \in strays : s.job # j
(* No step of j was ever made.                                              *)
Unstarted(j) == /\ record[j].status \in {"queued", "cancelled", "discarded"}
                /\ record[j].checkpoints = 0 /\ performed[j] = 0 /\ Unthreaded(j)
Winding      == {"cancelled", "done", "none"}
Unsettled    == {"absent", "queued"}
Lag(j, n)    == performed[j] - n \in {0, 1}
Stepping     == {"started", "step", "guard"}
Results      == {"none", "final", "resumable", "guarded"}

Values ==
  /\ \A j \in Job : task[j].pc = "finish" => task[j].outcome \notin {"go_on", "looping"}
  /\ \A j \in Job : task[j].pc = "checkpoint" => task[j].outcome # "guarded"
  /\ \A s \in strays : s.op = "finish" => s.outcome \notin {"go_on", "looping"}
  /\ \A c \in Client :
       /\ request[c].op = "idle" => request[c] = Idle
       /\ request[c].op = "resume" => request[c].steps # 0
       /\ request[c].op # "idle" => request[c].job \in Job /\ record[request[c].job] # Absent

(* Jobs are created in order, and nothing knows of one that is not yet.     *)
Births ==
  /\ \A j, k \in Job : k < j /\ record[j] # Absent => record[k] # Absent
  /\ \A j \in Job : record[j] = Absent =>
       ~ InQueue(j) /\ task[j] = NoTask /\ Unthreaded(j) /\ Unasked(j) /\ performed[j] = 0

Line ==
  /\ \A j \in Job : InLine(j) => Unstarted(j) /\ Unasked(j)
  /\ \A j \in Job : InQueue(j) => task[j] = NoTask
  /\ \A i, h \in 1 .. Len(queue) : queue[i] = queue[h] => i = h

Refusals ==
  \A c \in Client : request[c].op = "full" =>
    LET j == request[c].job IN
    /\ Unstarted(j) /\ task[j] = NoTask /\ ~ InQueue(j)
    /\ \A d \in Client : request[d].job = j => d = c

Held ==
  \A j \in Job : record[j].status = "queued" =>
    /\ record[j].checkpoints = 0 /\ performed[j] = 0
    /\ up = "up" => InLine(j) \/ \E c \in Client : request[c].op = "full" /\ request[c].job = j

Process ==
  /\ up \in {"down", "starting"} => strays = {} /\ \A j \in Job : task[j] = NoTask
  /\ up # "up" => \A c \in Client : request[c] = Idle
  /\ up = "stopping" => \A j \in Job : task[j].pc \in Winding
  /\ up = "down" => queue = <<>>

Execution ==
  \A j \in Job :
    /\ task[j].pc \in Executing => record[j].status \in {"running", "cancelling"} /\ Unthreaded(j)
    /\ task[j].pc = "cancelled" => record[j].status \notin Unsettled
    /\ up = "up" /\ record[j].status = "running" => task[j].pc \in Executing

Cancels ==
  \A c \in Client : request[c].op \in {"cancel", "overwrite"} =>
    /\ record[request[c].job].status \notin {"queued", "running"}
    /\ request[c].op = "overwrite" => task[request[c].job].pc = "none"

Threads_ ==
  \A s \in strays :
    /\ task[s.job].pc \in Winding
    /\ s.op # "created" => record[s.job].status \notin Unsettled /\ s.seen.status # "queued"
    /\ up = "up" => /\ s.op # "created"
                    /\ record[s.job].status # "running" /\ s.seen.status # "running"

Counts ==
  /\ \A j \in Job :
       /\ Lag(j, record[j].checkpoints)
       /\ record[j].status = "completed" => performed[j] = record[j].checkpoints + Untold(record[j].result)
       /\ task[j].pc \in Stepping => performed[j] = record[j].checkpoints
       /\ task[j].pc = "checkpoint" => performed[j] = record[j].checkpoints + 1
       /\ task[j].pc = "finish" => performed[j] = record[j].checkpoints + Untold(task[j].outcome)
  /\ \A s \in strays :
       /\ s.seen # Absent => Lag(s.job, s.seen.checkpoints)
       /\ s.op = "checkpoint" =>
            /\ performed[s.job] = record[s.job].checkpoints + 1 /\ record[s.job].status # "completed"
            /\ \A t \in strays : t.job = s.job =>
                 /\ t.op = "checkpoint" => t = s
                 /\ t.op # "finish"
                 /\ t.seen # Absent => performed[s.job] = t.seen.checkpoints + 1 /\ t.seen.status # "completed"
       /\ s.op = "finish" =>
            /\ performed[s.job] = record[s.job].checkpoints + Untold(s.outcome)
            /\ \A t \in strays : t.job = s.job /\ t.seen # Absent =>
                 performed[s.job] = t.seen.checkpoints + Untold(s.outcome)

(* A job that can be resumed is over, and stays so.                         *)
Over(p) == record[p].status \notin Unsettled /\ ~ InLine(p) /\ ~ Active(p)
Parents ==
  /\ \A j \in Job : record[j].parent # 0 => Over(record[j].parent)
  /\ \A c \in Client : request[c].op = "resume" => Over(request[c].job)

(* What a thread has read of its job's parent is still so.                  *)
Heirs == \A s \in strays : s.seen # Absent => s.seen.parent = record[s.job].parent

Inv == /\ TypeOK /\ Values /\ Births /\ Line /\ Refusals /\ Held /\ Process /\ Execution
       /\ Cancels /\ Threads_ /\ Counts /\ Parents /\ Heirs

-----------------------------------------------------------------------------
(* Records and tasks.                                                       *)

LEMMA WithType ==
  ASSUME NEW r \in Records, NEW status \in Status, NEW result \in Results
  PROVE  /\ With(r, status, result) \in Records
         /\ With(r, status, result).status = status
         /\ With(r, status, result).checkpoints = r.checkpoints
         /\ With(r, status, result).parent = r.parent
  BY DEF With, Records, Results

LEMMA NotAbsent == ASSUME NEW r \in Records \cup {Absent}
                   PROVE  /\ r \in Records <=> r # Absent
                          /\ r \in Records <=> r.status # "absent"
                          /\ r.checkpoints \in Nat /\ r.parent \in 0 .. MaxJobs
  BY ConstantAssumption DEF Records, Absent, Status

LEMMA QueuedType ==
  ASSUME NEW kind \in {"agent_run", "agent_step"}, NEW max \in Nat \ {0}, NEW parent \in 0 .. MaxJobs
  PROVE  /\ Queued(kind, max, parent) \in Records
         /\ Queued(kind, max, parent).status = "queued"
         /\ Queued(kind, max, parent).checkpoints = 0
         /\ Queued(kind, max, parent).parent = parent
  BY DEF Queued, Records, Status

LEMMA DiscardedType ==
  ASSUME NEW r \in Records
  PROVE  /\ Discarded(r) \in Records /\ Discarded(r).status = "discarded"
         /\ Discarded(r).checkpoints = r.checkpoints /\ Discarded(r).parent = r.parent
  BY DEF Discarded, Records, Status

(* What a store operation may do to a record.                               *)
LEMMA WrittenType ==
  ASSUME NEW r \in Records, NEW op \in StoreOps, NEW t,
         t.outcome \in Outcome, op = "finish" => t.outcome \notin {"go_on", "looping"}
  PROVE  LET w == Written(op, r, t) IN
         /\ w \in Records /\ w.parent = r.parent
         /\ w.checkpoints = IF op = "checkpoint" THEN r.checkpoints + 1 ELSE r.checkpoints
         /\ w.status = "queued" => op = "checkpoint" /\ r.status = "queued"
         /\ w.status = "running" => \/ op \in {"created", "checkpoint"} /\ r.status = "running"
                                    \/ op = "created" /\ r.status = "queued"
         /\ w.status = "completed" =>
              \/ op = "finish" /\ w.result = t.outcome
              \/ op \in {"created", "checkpoint"} /\ r.status = "completed" /\ w.result = r.result
         /\ op = "checkpoint" => w.status = r.status
         /\ op = "created" => w = r \/ (w.status = "running" /\ r.status = "queued")
<1>1. CASE op = "created"
  BY <1>1 DEF Written, Started, Records, Status
<1>2. CASE op = "checkpoint"
  BY <1>2 DEF Written, Appended, Records, Status
<1>3. CASE op = "finish"
  BY <1>3 DEF Written, Finished, With, Records, Status, Outcome
<1>4. CASE op = "failing"
  BY <1>4 DEF Written, Finished, With, Records, Status
<1>5. CASE op = "cancelled"
  BY <1>5 DEF Written, FinishedCancelled, With, Records, Status
<1> QED
  BY <1>1, <1>2, <1>3, <1>4, <1>5 DEF StoreOps

LEMMA TaskType ==
  ASSUME NEW pc, NEW steps, NEW outcome, NEW by_user
  PROVE  LET t == Task(pc, steps, outcome, by_user) IN
         /\ t.pc = pc /\ t.steps = steps /\ t.outcome = outcome /\ t.by_user = by_user
         /\ Bare(pc).pc = pc /\ NoTask.pc = "none" /\ Bare(pc).outcome = "none"
         /\ NoTask.outcome = "none"
         /\ pc \in StoreOps \cup {"none", "started", "step", "guard", "done"} => Bare(pc) \in Tasks_
         /\ /\ pc \in StoreOps \cup {"none", "started", "step", "guard", "done"} /\ steps \in Nat
            /\ outcome \in Outcome /\ by_user \in BOOLEAN
            => t \in Tasks_
         /\ NoTask \in Tasks_
  BY DEF Task, Bare, NoTask, Tasks_, Outcome

LEMMA TaskFields ==
  ASSUME NEW t \in Tasks_
  PROVE  /\ t.pc \in StoreOps \cup {"none", "started", "step", "guard", "done"} /\ t.steps \in Nat
         /\ t.outcome \in Outcome /\ t.by_user \in BOOLEAN
  BY DEF Tasks_

-----------------------------------------------------------------------------
(* The handlers that rewrite the record of a job.                           *)

LEMMA NothingKeeps == ASSUME Inv, UNCHANGED vars PROVE Inv'
  BY DEF vars, Inv, TypeOK, Values, Births, Line, Refusals, Held, Process, Execution, Cancels,
     Threads_, Counts, Parents, Heirs, InQueue, InLine, Unasked, Unthreaded, Unstarted, Over, Active, Lag

LEMMA RecordFacts ==
  ASSUME Inv, NEW j \in Job
  PROVE  /\ record[j] \in Records \cup {Absent}
         /\ record[j] \in Records <=> record[j] # Absent
         /\ record[j] \in Records <=> record[j].status # "absent"
         /\ record[j] \in Records => record[j].result \in Results
         /\ record[j].checkpoints \in Nat /\ record[j].parent \in Job \cup {0}
  BY NotAbsent DEF Inv, TypeOK, Records, Results, Job

LEMMA StrayFacts ==
  ASSUME Inv, NEW s \in strays
  PROVE  /\ s.job \in Job /\ s.op \in StoreOps /\ s.outcome \in Outcome /\ s.by_user \in BOOLEAN
         /\ s.seen \in Records \cup {Absent} /\ record[s.job] \in Records
         /\ s.seen \in Records <=> s.seen # Absent
         /\ ~ Unthreaded(s.job)
         /\ up \in {"up", "stopping"}
<1>1. s \in [job : Job, op : StoreOps, outcome : Outcome, by_user : BOOLEAN, seen : Records \cup {Absent}]
  BY DEF Inv, TypeOK
<1>2. ~ Unthreaded(s.job)
  BY DEF Unthreaded
<1>3. s.job \in Job /\ record[s.job] # Absent
  BY <1>1, <1>2 DEF Inv, Births
<1>4. up \in {"up", "stopping"}
  BY DEF Inv, TypeOK, Process
<1> QED
  BY <1>1, <1>2, <1>3, <1>4, RecordFacts, NotAbsent

LEMMA HeirsFrame ==
  ASSUME Inv, \A s \in strays' : s \in strays \/ s.seen = Absent,
         \A k \in Job : record[k] # Absent => record'[k].parent = record[k].parent
  PROVE  Heirs'
<1>1. \A s \in strays : s.job \in Job /\ record[s.job] # Absent
  BY StrayFacts, RecordFacts
<1> QED
  BY <1>1 DEF Inv, Heirs

LEMMA CountsFrame ==
  ASSUME Counts, performed' = performed, strays' = strays, \A s \in strays : s.job \in Job,
         \A k \in Job :
           /\ record'[k].checkpoints = record[k].checkpoints
           /\ record'[k].status = "completed" => record[k].status = "completed" /\ record'[k].result = record[k].result
           /\ task'[k].pc \in Stepping \cup {"checkpoint", "finish"} => task'[k] = task[k]
  PROVE  Counts'
<1>1. ASSUME NEW k \in Job
      PROVE  /\ Lag(k, record[k].checkpoints)'
             /\ record'[k].status = "completed" => performed'[k] = record'[k].checkpoints + Untold(record'[k].result)
             /\ task'[k].pc \in Stepping => performed'[k] = record'[k].checkpoints
             /\ task'[k].pc = "checkpoint" => performed'[k] = record'[k].checkpoints + 1
             /\ task'[k].pc = "finish" => performed'[k] = record'[k].checkpoints + Untold(task'[k].outcome)
  BY DEF Counts, Lag
<1>2. ASSUME NEW s \in strays
      PROVE  /\ record'[s.job].checkpoints = record[s.job].checkpoints
             /\ record[s.job].status # "completed" => record'[s.job].status # "completed"
  OBVIOUS
<1> QED
  BY <1>1, <1>2 DEF Counts, Lag

LEMMA RewriteKeeps ==
  ASSUME Inv, NEW j \in Job, NEW w \in Records, up = "up", record[j] # Absent, Update(j, w),
         w.checkpoints = record[j].checkpoints, w.parent = record[j].parent,
         w.status \notin {"queued", "running", "completed"},
         w.status \notin {"cancelled", "discarded"} =>
           ~ InLine(j) /\ \A c \in Client : request'[c].op = "full" => request'[c].job # j,
         task[j].pc \in Executing => w.status = "cancelling",
         request' = [c \in Client |-> request'[c]],
         \A c \in Client :
           /\ \/ request'[c] = request[c] \/ request'[c] = Idle
              \/ request'[c] = [op |-> "cancel", job |-> j, steps |-> 0] /\ w.status = "cancelling"
           /\ request[c].op = "full" => request'[c] = request[c] \/ request[c].job = j,
         UNCHANGED <<up, queue, task, strays, performed, stops>>
  PROVE  Inv'
<1>1. /\ record \in [Job -> Records \cup {Absent}]
      /\ record' = [record EXCEPT ![j] = w] /\ record'[j] = w
      /\ \A k \in Job : k # j => record'[k] = record[k]
  BY DEF Inv, TypeOK, Update
<1>2. record[j] \in Records /\ w # Absent /\ w.status # "absent" /\ w.checkpoints \in Nat
  BY <1>1, NotAbsent
<1>3. /\ Idle.op = "idle" /\ Idle.job = 0 /\ Idle.steps = 0
      /\ 0 \notin Job /\ Job \subseteq 0 .. MaxJobs /\ j \in 0 .. MaxJobs
  BY ConstantAssumption DEF Idle, Job
<1>4. TypeOK'
  <2>1. record' \in [Job -> Records \cup {Absent}]
    BY <1>1
  <2> DEFINE Req == [op : {"idle", "full", "resume", "cancel", "overwrite"},
                     job : 0 .. MaxJobs, steps : Nat]
  <2>2. request' \in [Client -> Req]
    <3>1. Idle \in Req /\ [op |-> "cancel", job |-> j, steps |-> 0] \in Req
      <4>1. 0 \in 0 .. MaxJobs
        BY ConstantAssumption
      <4> QED
        BY <1>3, <4>1 DEF Idle
    <3>2. request \in [Client -> Req]
      BY DEF Inv, TypeOK
    <3> QED
      BY <3>1, <3>2
  <2> QED
    BY <2>1, <2>2 DEF Inv, TypeOK
<1>5. Values'
  BY <1>1, <1>2, <1>3 DEF Inv, Values
<1>6. Births'
  BY <1>1, <1>2, <1>3 DEF Inv, Births, InQueue, Unthreaded, Unasked
<1>7. Line'
  BY <1>1, <1>2, <1>3 DEF Inv, Line, InLine, InQueue, Unstarted, Unthreaded, Unasked
<1>8. Refusals'
  <2>1. ASSUME NEW c \in Client, request'[c].op = "full"
        PROVE  request'[c] = request[c] /\ (request[c].job = j => w.status \in {"cancelled", "discarded"})
    BY <1>3, <2>1
  <2>2. \A k \in Job : Unstarted(k) /\ (k = j => w.status \in {"cancelled", "discarded"}) => Unstarted(k)'
    BY <1>1 DEF Unstarted, Unthreaded
  <2>3. \A c \in Client : request[c].op = "full" => request[c].job \in Job
    BY DEF Inv, Values
  <2>4. ASSUME NEW c \in Client, NEW d \in Client, request'[c].op = "full", request'[d].job = request'[c].job
        PROVE  d = c
    <3>1. request'[c] = request[c] /\ request[c].job \in Job
      BY <2>1, <2>3, <2>4
    <3>2. CASE request'[d] = request[d]
      BY <2>4, <3>1, <3>2 DEF Inv, Refusals
    <3>3. CASE request'[d] # request[d]
      BY <1>3, <2>1, <2>4, <3>1, <3>3
    <3> QED
      BY <3>2, <3>3
  <2> QED
    BY <2>1, <2>2, <2>3, <2>4 DEF Inv, Refusals, InQueue
<1>9. Held'
  BY <1>1, <1>2, <1>3 DEF Inv, Held, InLine, InQueue
<1>10. Process'
  BY <1>3 DEF Inv, Process
<1>11. Execution'
  BY <1>1, <1>2 DEF Inv, Execution, Unthreaded, Executing, Unsettled
<1>12. Cancels'
  BY <1>1, <1>2, <1>3 DEF Inv, Cancels, Values
<1>13. Threads_'
  BY <1>1, <1>2 DEF Inv, TypeOK, Threads_, Unsettled, Winding
<1>14. Counts'
  <2>1. \A k \in Job : /\ record'[k].checkpoints = record[k].checkpoints
                       /\ record'[k].status = "completed" => record[k].status = "completed" /\ record'[k].result = record[k].result
    BY <1>1, <1>2
  <2>2. \A s \in strays : s.job \in Job
    BY DEF Inv, TypeOK
  <2>3. Counts /\ performed' = performed /\ strays' = strays /\ task' = task
    BY DEF Inv
  <2> QED
    BY <2>1, <2>2, <2>3, CountsFrame
<1>15. Parents'
  <2>1. \A p \in Job : Over(p) => Over(p)'
    BY <1>1, <1>2 DEF Over, Unsettled, InLine, InQueue, Active
  <2>2. \A k \in Job : record'[k].parent = record[k].parent /\ record[k].parent \in Job \cup {0}
    BY <1>1, <1>2, NotAbsent DEF Job
  <2>3. \A c \in Client : request'[c].op = "resume" => request'[c] = request[c] /\ request[c].job \in Job
    BY <1>3 DEF Inv, Values
  <2> QED
    BY <2>1, <2>2, <2>3 DEF Inv, Parents
<1>16. Heirs'
  BY <1>1, HeirsFrame
<1> QED
  BY <1>4, <1>5, <1>6, <1>7, <1>8, <1>9, <1>10, <1>11, <1>12, <1>13, <1>14, <1>15, <1>16 DEF Inv

LEMMA RequestFacts ==
  ASSUME Inv
  PROVE  /\ request \in [Client -> [op : {"idle", "full", "resume", "cancel", "overwrite"},
                                    job : 0 .. MaxJobs, steps : Nat]]
         /\ request = [c \in Client |-> request[c]]
         /\ \A c \in Client : request[c].op # "idle" => request[c].job \in Job /\ record[request[c].job] # Absent
         /\ \A c \in Client : request[c].op = "idle" <=> request[c] = Idle
         /\ Idle.op = "idle" /\ Idle.job = 0 /\ Idle.steps = 0 /\ 0 \notin Job
  BY DEF Inv, TypeOK, Values, Idle, Job

LEMMA Replied ==
  ASSUME Inv, NEW c \in Client, NEW r, Reply(c, r)
  PROVE  /\ request' = [d \in Client |-> request'[d]]
         /\ request'[c] = r /\ \A d \in Client : d # c => request'[d] = request[d]
  BY RequestFacts DEF Reply

LEMMA DiscardKeeps == ASSUME Inv, NEW j \in Job, Discard(j) PROVE Inv'
<1> DEFINE w == Discarded(record[j])
<1>1. record[j] \in Records
  BY RecordFacts DEF Discard
<1>2. w \in Records /\ w.status = "discarded" /\ w.checkpoints = record[j].checkpoints /\ w.parent = record[j].parent
  BY <1>1, DiscardedType
<1>3. task[j].pc \notin Executing
  BY DEF Discard, Inv, Execution
<1>4. /\ up = "up" /\ Update(j, w) /\ request' = request
      /\ UNCHANGED <<up, queue, task, strays, performed, stops>>
  BY DEF Discard
<1> HIDE DEF w
<1> QED
  BY <1>1, <1>2, <1>3, <1>4, RecordFacts, RequestFacts, RewriteKeeps

LEMMA CancelQueuedKeeps == ASSUME Inv, NEW j \in Job, CancelQueued(j) PROVE Inv'
<1> DEFINE w == With(record[j], "cancelled", record[j].result)
<1>1. record[j] \in Records
  BY RecordFacts DEF CancelQueued
<1>2. w \in Records /\ w.status = "cancelled" /\ w.checkpoints = record[j].checkpoints /\ w.parent = record[j].parent
  BY <1>1, RecordFacts, WithType DEF Status, Results
<1>3. task[j].pc \notin Executing
  BY DEF CancelQueued, Inv, Execution
<1>4. /\ up = "up" /\ Update(j, w) /\ request' = request
      /\ UNCHANGED <<up, queue, task, strays, performed, stops>>
  BY DEF CancelQueued
<1> HIDE DEF w
<1> QED
  BY <1>1, <1>2, <1>3, <1>4, RecordFacts, RequestFacts, RewriteKeeps

LEMMA CancelRunningKeeps == ASSUME Inv, NEW c \in Client, NEW j \in Job, CancelRunning(c, j) PROVE Inv'
<1> DEFINE w == With(record[j], "cancelling", record[j].result)
<1>1. record[j] \in Records
  BY RecordFacts DEF CancelRunning
<1>2. w \in Records /\ w.status = "cancelling" /\ w.checkpoints = record[j].checkpoints /\ w.parent = record[j].parent
  BY <1>1, RecordFacts, WithType DEF Status, Results
<1>3. ~ InLine(j) /\ \A d \in Client : request[d].op = "full" => request[d].job # j
  BY DEF CancelRunning, Inv, Line, Refusals, Unstarted
<1>4. /\ up = "up" /\ Update(j, w) /\ request[c] = Idle
      /\ Reply(c, [op |-> "cancel", job |-> j, steps |-> 0])
      /\ UNCHANGED <<up, queue, task, strays, performed, stops>>
  BY DEF CancelRunning, Free
<1>5. \A d \in Client : request'[d] = request[d] \/ (request'[d] = [op |-> "cancel", job |-> j, steps |-> 0] /\ d = c)
  BY <1>4, Replied
<1> HIDE DEF w
<1> QED
  BY <1>1, <1>2, <1>3, <1>4, <1>5, RecordFacts, RequestFacts, Replied, RewriteKeeps

LEMMA CancelOverwriteKeeps == ASSUME Inv, NEW c \in Client, CancelOverwrite(c) PROVE Inv'
<1>1. request[c].op = "overwrite"
  BY DEF CancelOverwrite
<1>2. PICK j \in Job : j = request[c].job /\ record[j] \in Records
  BY <1>1, RequestFacts, RecordFacts
<1> DEFINE w == FinishedCancelled(record[j], FALSE)
<1>3. /\ up = "up" /\ Update(j, w) /\ Reply(c, Idle)
      /\ UNCHANGED <<up, queue, task, strays, performed, stops>>
  BY <1>2 DEF CancelOverwrite
<1>4. w \in Records /\ w.status = "interrupted" /\ w.checkpoints = record[j].checkpoints /\ w.parent = record[j].parent
  BY <1>2, WithType DEF FinishedCancelled, Status, Results
<1>5. ~ InLine(j) /\ \A d \in Client : request[d].op = "full" => request[d].job # j
  BY <1>1, <1>2 DEF Inv, Line, Unasked, Refusals
<1>6. task[j].pc \notin Executing
  BY <1>1, <1>2 DEF Inv, Cancels, Executing
<1>7. /\ \A d \in Client : request'[d] = request[d] \/ (request'[d] = Idle /\ d = c)
      /\ request' = [d \in Client |-> request'[d]]
  BY <1>3, Replied
<1>8. \A d \in Client : request[d].op = "full" => request'[d] = request[d]
  BY <1>1, <1>7
<1>9. \A d \in Client : request'[d].op = "full" => request'[d].job # j
  BY <1>5, <1>7, RequestFacts
<1> HIDE DEF w
<1> QED
  BY <1>2, <1>3, <1>4, <1>5, <1>6, <1>7, <1>8, <1>9, RecordFacts, RewriteKeeps

LEMMA RefuseKeeps == ASSUME Inv, NEW c \in Client, Refuse(c) PROVE Inv'
<1>1. request[c].op = "full"
  BY DEF Refuse
<1>2. PICK j \in Job : j = request[c].job /\ record[j] \in Records
  BY <1>1, RequestFacts, RecordFacts
<1> DEFINE q == Queued(record[j].kind, record[j].max_steps, record[j].parent)
           w == With(q, "failed", "none")
<1>3. /\ up = "up" /\ Update(j, w) /\ Reply(c, Idle)
      /\ UNCHANGED <<up, queue, task, strays, performed, stops>>
  BY <1>2 DEF Refuse
<1>4. q \in Records /\ q.checkpoints = 0 /\ q.parent = record[j].parent
  BY <1>2, QueuedType DEF Records
<1>5. /\ record[j].checkpoints = 0 /\ task[j] = NoTask /\ ~ InQueue(j)
      /\ \A d \in Client : request[d].job = j => d = c
  BY <1>1, <1>2 DEF Inv, Refusals, Unstarted
<1>6. ~ InLine(j) /\ task[j].pc \notin Executing
  BY <1>5 DEF InLine, NoTask, Bare, Task, Executing
<1> HIDE DEF q
<1>7. w \in Records /\ w.status = "failed" /\ w.checkpoints = record[j].checkpoints /\ w.parent = record[j].parent
  BY <1>4, <1>5, WithType DEF Status, Results
<1>8. /\ \A d \in Client : request'[d] = request[d] \/ (request'[d] = Idle /\ d = c)
      /\ request' = [d \in Client |-> request'[d]] /\ request'[c] = Idle
  BY <1>3, Replied
<1>9. \A d \in Client : request[d].op = "full" => request'[d] = request[d] \/ request[d].job = j
  BY <1>2, <1>8
<1>10. \A d \in Client : request'[d].op = "full" => request'[d].job # j
  BY <1>5, <1>8, RequestFacts
<1> HIDE DEF w
<1> QED
  BY <1>2, <1>3, <1>6, <1>7, <1>8, <1>9, <1>10, RecordFacts, RewriteKeeps

-----------------------------------------------------------------------------
(* The steps of a task.                                                     *)

LEMMA MoveKeeps ==
  ASSUME Inv, NEW j \in Job, NEW u \in Tasks_, NEW w \in Records, NEW n \in Nat,
         task[j].pc # "none", u.pc # "created", record[j] # Absent,
         Become(j, u), Update(j, w), performed' = [performed EXCEPT ![j] = n],
         UNCHANGED <<up, queue, strays, request, stops>>,
         w.parent = record[j].parent, w.status # "absent",
         w.status = "queued" => up # "up" /\ w = record[j] /\ n = performed[j] /\ u.pc = "none",
         w.status = "running" => record[j].status = "running" \/ Unasked(j),
         u.pc = "finish" => u.outcome \notin {"go_on", "looping"},
         u.pc = "checkpoint" => u.outcome # "guarded",
         u.pc = "cancelled" => w.status # "queued",
         u.pc \in Executing => w.status \in {"running", "cancelling"} /\ Unthreaded(j),
         up = "up" /\ w.status = "running" => u.pc \in Executing,
         up = "stopping" => u.pc \in Winding,
         up \in {"up", "stopping"},
         n - w.checkpoints \in {0, 1},
         w.status = "completed" => n = w.checkpoints + Untold(w.result),
         u.pc \in Stepping => n = w.checkpoints,
         u.pc = "checkpoint" => n = w.checkpoints + 1,
         u.pc = "finish" => n = w.checkpoints + Untold(u.outcome),
         \/ Unthreaded(j)
         \/ /\ n = performed[j] /\ w.checkpoints = record[j].checkpoints
            /\ w.status = "completed" => record[j].status = "completed",
         u.pc \in Stepping \cup {"checkpoint"} => InLine(j) \/ Active(j)
  PROVE  Inv'
<1>1. /\ record \in [Job -> Records \cup {Absent}]
      /\ record' \in [Job -> Records \cup {Absent}]
      /\ record'[j] = w /\ \A k \in Job : k # j => record'[k] = record[k]
  BY DEF Inv, TypeOK, Update
<1>2. /\ task' \in [Job -> Tasks_]
      /\ task'[j] = u /\ \A k \in Job : k # j => task'[k] = task[k]
  BY DEF Inv, TypeOK, Become
<1>3. /\ performed' \in [Job -> Nat]
      /\ performed'[j] = n /\ \A k \in Job : k # j => performed'[k] = performed[k]
  BY DEF Inv, TypeOK
<1>4. record[j] \in Records /\ w # Absent /\ w.status # "absent" /\ w.checkpoints \in Nat
  BY <1>1, NotAbsent
<1>5. NoTask.pc = "none"
  BY TaskType
<1>6. task[j] # NoTask
  BY TaskType
<1>7. ~ InQueue(j) /\ \A c \in Client : request[c].op \in {"full", "overwrite"} => request[c].job # j
  BY <1>6 DEF Inv, Line, Refusals, Cancels
<1>8. u.pc \in Executing \/ u.pc \in Winding
  BY TaskFields DEF Executing, Winding, StoreOps
<1>9. TypeOK'
  BY <1>1, <1>2, <1>3 DEF Inv, TypeOK
<1>10. Values'
  BY <1>1, <1>2, <1>4 DEF Inv, Values
<1>11. Births'
  BY <1>1, <1>2, <1>3, <1>4 DEF Inv, Births, InQueue, Unthreaded, Unasked
<1>12. Line'
  <2>1. \A k \in Job : InLine(k)' => InLine(k) /\ k # j
    BY <1>2, <1>7 DEF InLine, InQueue
  <2>2. \A k \in Job : k # j /\ Unstarted(k) /\ Unasked(k) => Unstarted(k)' /\ Unasked(k)'
    BY <1>1, <1>3 DEF Unstarted, Unthreaded, Unasked
  <2>3. \A k \in Job : InQueue(k)' => InQueue(k) /\ k # j
    BY <1>7 DEF InQueue
  <2> QED
    BY <1>2, <2>1, <2>2, <2>3 DEF Inv, Line
<1>13. Refusals'
  <2>1. \A k \in Job : k # j /\ Unstarted(k) => Unstarted(k)'
    BY <1>1, <1>3 DEF Unstarted, Unthreaded
  <2>2. \A c \in Client : request[c].op = "full" => request[c].job \in Job \ {j}
    BY <1>7 DEF Inv, Values
  <2> QED
    BY <1>2, <2>1, <2>2 DEF Inv, Refusals, InQueue
<1>14. Held'
  BY <1>1, <1>2, <1>3, <1>7 DEF Inv, Held, InLine, InQueue
<1>15. Process'
  BY <1>2 DEF Inv, Process
<1>16. Execution'
  <2>1. u.pc = "cancelled" => w.status \notin Unsettled
    BY DEF Unsettled
  <2>2. Unthreaded(j)' <=> Unthreaded(j)
    BY DEF Unthreaded
  <2> QED
    BY <1>1, <1>2, <2>1, <2>2 DEF Inv, Execution, Unthreaded
<1>17. Cancels'
  <2>1. \A c \in Client : request[c].op \in {"cancel", "overwrite"} => request[c].job \in Job
    BY DEF Inv, Values
  <2> QED
    BY <1>1, <1>2, <1>7, <2>1 DEF Inv, Cancels, Unasked, Unsettled
<1>18. Threads_'
  <2>1. \A s \in strays : s.job \in Job
    BY DEF Inv, TypeOK
  <2>2. \A s \in strays : s.job = j => u.pc \in Winding /\ (up = "up" => w.status # "running")
    BY <1>8 DEF Unthreaded
  <2> QED
    BY <1>1, <1>2, <2>1, <2>2 DEF Inv, Threads_, Unsettled
<1>19. Counts'
  <2>1. \A s \in strays : s.job \in Job
    BY DEF Inv, TypeOK
  <2>2. \A s \in strays : /\ performed'[s.job] = performed[s.job]
                          /\ record'[s.job].checkpoints = record[s.job].checkpoints
                          /\ record'[s.job].status = "completed" => record[s.job].status = "completed"
    BY <1>1, <1>3, <2>1 DEF Unthreaded
  <2>3. ASSUME NEW k \in Job
        PROVE  /\ Lag(k, record[k].checkpoints)'
               /\ record'[k].status = "completed" => performed'[k] = record'[k].checkpoints + Untold(record'[k].result)
               /\ task'[k].pc \in Stepping => performed'[k] = record'[k].checkpoints
               /\ task'[k].pc = "checkpoint" => performed'[k] = record'[k].checkpoints + 1
               /\ task'[k].pc = "finish" => performed'[k] = record'[k].checkpoints + Untold(task'[k].outcome)
    <3>1. CASE k = j
      BY <1>1, <1>2, <1>3, <3>1 DEF Lag
    <3>2. CASE k # j
      BY <1>1, <1>2, <1>3, <3>2 DEF Inv, Counts, Lag
    <3> QED
      BY <3>1, <3>2
  <2>4. Counts /\ strays' = strays
    BY DEF Inv
  <2> QED
    BY <2>2, <2>3, <2>4 DEF Counts, Lag
<1>20. Parents'
  <2>1. \A p \in Job : Over(p) => Over(p)'
    BY <1>1, <1>2, <1>7 DEF Over, InLine, InQueue, Active, Unsettled, Stepping
  <2>2. \A k \in Job : record'[k].parent = record[k].parent /\ record[k].parent \in Job \cup {0}
    BY <1>1, RecordFacts
  <2>3. \A c \in Client : request[c].op = "resume" => request[c].job \in Job
    BY DEF Inv, Values
  <2> QED
    BY <2>1, <2>2, <2>3 DEF Inv, Parents
<1>21. Heirs'
  BY <1>1, HeirsFrame
<1> QED
  BY <1>9, <1>10, <1>11, <1>12, <1>13, <1>14, <1>15, <1>16, <1>17, <1>18, <1>19, <1>20, <1>21 DEF Inv

(* What is known of the job of a task that runs.                            *)
LEMMA RunningFacts ==
  ASSUME Inv, NEW j \in Job, task[j].pc # "none"
  PROVE  /\ record[j] \in Records /\ task[j] \in Tasks_ /\ performed[j] \in Nat
         /\ performed' = performed => performed' = [performed EXCEPT ![j] = performed[j]]
         /\ record' = record => Update(j, record[j])
         /\ performed[j] - record[j].checkpoints \in {0, 1}
         /\ record[j].status = "completed" => performed[j] = record[j].checkpoints + Untold(record[j].result)
         /\ up = "up" => record[j].status # "running" \/ task[j].pc \in Executing
         /\ task[j].pc \in Executing => record[j].status \in {"running", "cancelling"} /\ Unthreaded(j)
         /\ up = "stopping" => task[j].pc \in Winding
<1>1. task[j] # NoTask
  BY TaskType
<1>2. record[j] \in Records
  BY <1>1, RecordFacts DEF Inv, Births
<1>3. task[j] \in Tasks_ /\ performed[j] \in Nat
  BY DEF Inv, TypeOK
<1>4. performed' = performed => performed' = [performed EXCEPT ![j] = performed[j]]
  BY DEF Inv, TypeOK
<1>5. record' = record => Update(j, record[j])
  BY DEF Inv, TypeOK, Update
<1>6. /\ performed[j] - record[j].checkpoints \in {0, 1}
      /\ record[j].status = "completed" => performed[j] = record[j].checkpoints + Untold(record[j].result)
  BY DEF Inv, Counts, Lag
<1> QED
  BY <1>2, <1>3, <1>4, <1>5, <1>6 DEF Inv, Execution, Process

LEMMA TaskBeginKeeps == ASSUME Inv, NEW j \in Job, TaskBegin(j) PROVE Inv'
<1>1. /\ up \in {"up", "stopping"} /\ task[j].pc = "started" /\ Become(j, Bare("step"))
      /\ UNCHANGED <<up, record, queue, strays, request, performed, stops>>
  BY DEF TaskBegin, Runs
<1>2. Bare("step") \in Tasks_ /\ Bare("step").pc = "step"
  BY TaskType
<1>3. performed[j] = record[j].checkpoints
  BY <1>1 DEF Inv, Counts, Stepping
<1>4. record[j].status \in {"running", "cancelling"} /\ Unthreaded(j) /\ up # "stopping" /\ Active(j)
  BY <1>1 DEF Inv, Execution, Executing, Process, Winding, Active
<1> QED
  BY <1>1, <1>2, <1>3, <1>4, RunningFacts, RecordFacts, MoveKeeps DEF Executing, Unsettled, Stepping

LEMMA StepRaisesKeeps == ASSUME Inv, NEW j \in Job, StepRaises(j) PROVE Inv'
<1>1. /\ up \in {"up", "stopping"} /\ task[j].pc \in {"step", "guard", "finish"} /\ Become(j, Bare("failing"))
      /\ UNCHANGED <<up, record, queue, strays, request, performed, stops>>
  BY DEF StepRaises, Runs
<1>2. Bare("failing") \in Tasks_ /\ Bare("failing").pc = "failing"
  BY TaskType DEF StoreOps
<1>3. record[j].status \in {"running", "cancelling"} /\ Unthreaded(j) /\ up # "stopping"
  BY <1>1 DEF Inv, Execution, Executing, Process, Winding
<1> QED
  BY <1>1, <1>2, <1>3, RunningFacts, RecordFacts, MoveKeeps DEF Executing, Unsettled, Stepping

LEMMA StepReturnsKeeps == ASSUME Inv, NEW j \in Job, StepReturns(j) PROVE Inv'
<1>1. PICK outcome \in Outcome \ {"none", "guarded"} :
        Become(j, Task("checkpoint", task[j].steps + 1, outcome, FALSE))
  BY DEF StepReturns, Outcome
<1>2. /\ up \in {"up", "stopping"} /\ task[j].pc = "step"
      /\ performed' = [performed EXCEPT ![j] = performed[j] + 1]
      /\ UNCHANGED <<up, record, queue, strays, request, stops>>
  BY DEF StepReturns, Runs
<1> DEFINE u == Task("checkpoint", task[j].steps + 1, outcome, FALSE)
<1>3. task[j].steps + 1 \in Nat
  <2>1. task[j] \in Tasks_
    BY DEF Inv, TypeOK
  <2> QED
    BY <2>1, TaskFields
<1>4. u \in Tasks_ /\ u.pc = "checkpoint" /\ u.outcome # "guarded" /\ Become(j, u)
  BY <1>1, <1>3 DEF Task, Tasks_, StoreOps
<1>5. performed[j] = record[j].checkpoints
  BY <1>2 DEF Inv, Counts, Stepping
<1>6. record[j].status \in {"running", "cancelling"} /\ Unthreaded(j) /\ up # "stopping" /\ Active(j)
  BY <1>2 DEF Inv, Execution, Executing, Process, Winding, Active
<1>7. /\ record[j] \in Records /\ record[j] # Absent /\ Update(j, record[j])
      /\ performed[j] \in Nat /\ record[j].checkpoints \in Nat
  BY <1>2, RunningFacts, RecordFacts
<1> DEFINE n == performed[j] + 1
<1>8. n \in Nat /\ n = record[j].checkpoints + 1
  BY <1>5, <1>7
<1>9. n - record[j].checkpoints \in {0, 1}
  BY <1>7, <1>8
<1> HIDE DEF u, n
<1>10. performed' = [performed EXCEPT ![j] = n]
  BY <1>2 DEF n
<1>11. record[j].status \notin {"absent", "queued", "completed"} /\ task[j].pc # "none"
  BY <1>2, <1>6
<1> QED
  BY <1>2, <1>4, <1>6, <1>7, <1>8, <1>9, <1>10, <1>11, MoveKeeps DEF Executing, Stepping

LEMMA GuardTakesOverKeeps == ASSUME Inv, NEW j \in Job, GuardTakesOver(j) PROVE Inv'
<1> DEFINE u == Task("finish", 0, "guarded", FALSE)
           n == performed[j] + 1
<1>1. /\ up \in {"up", "stopping"} /\ task[j].pc = "guard" /\ Become(j, u)
      /\ performed' = [performed EXCEPT ![j] = n]
      /\ UNCHANGED <<up, record, queue, strays, request, stops>>
  BY DEF GuardTakesOver, Runs
<1>2. u \in Tasks_ /\ u.pc = "finish" /\ u.outcome = "guarded"
  BY DEF Task, Tasks_, StoreOps, Outcome
<1>3. record[j].status \in {"running", "cancelling"} /\ Unthreaded(j) /\ up # "stopping"
  BY <1>1 DEF Inv, Execution, Executing, Process, Winding
<1>4. /\ record[j] \in Records /\ record[j] # Absent /\ Update(j, record[j])
      /\ performed[j] \in Nat /\ record[j].checkpoints \in Nat
  BY <1>1, RunningFacts, RecordFacts
<1>5. n \in Nat /\ n = record[j].checkpoints + 1
  BY <1>1, <1>4 DEF Inv, Counts, Stepping
<1>6. n - record[j].checkpoints \in {0, 1} /\ n = record[j].checkpoints + Untold(u.outcome)
  BY <1>2, <1>4, <1>5 DEF Untold
<1> HIDE DEF u, n
<1>7. record[j].status \notin {"absent", "queued", "completed"} /\ task[j].pc # "none"
  BY <1>1, <1>3
<1> QED
  BY <1>1, <1>2, <1>3, <1>4, <1>5, <1>6, <1>7, MoveKeeps DEF Executing, Stepping

LEMMA WorkerForgetKeeps == ASSUME Inv, NEW j \in Job, WorkerForget(j) PROVE Inv'
<1>1. /\ up \in {"up", "stopping"} /\ task[j].pc = "done" /\ Become(j, NoTask)
      /\ UNCHANGED <<up, record, queue, strays, request, performed, stops>>
  BY DEF WorkerForget, Runs
<1>2. NoTask \in Tasks_ /\ NoTask.pc = "none"
  BY TaskType
<1>3. up = "up" => record[j].status # "queued"
  BY <1>1 DEF Inv, Held, Line, InLine, Refusals, NoTask, Bare, Task
<1>4. record[j].status # "absent"
  BY <1>1, RunningFacts, RecordFacts
<1> QED
  BY <1>1, <1>2, <1>3, <1>4, RunningFacts, RecordFacts, MoveKeeps DEF Executing, Winding, Stepping

LEMMA TaskStartKeeps == ASSUME Inv, NEW j \in Job, TaskStart(j) PROVE Inv'
<1> DEFINE w == Written("created", record[j], task[j])
           u == Bare(IF record[j].status = "queued" THEN "started" ELSE "done")
<1>1. /\ up \in {"up", "stopping"} /\ task[j].pc = "created" /\ Become(j, u) /\ Update(j, w)
      /\ UNCHANGED <<up, queue, strays, request, performed, stops>>
  BY DEF TaskStart, Runs, Store
<1>2. /\ record[j].status \in {"queued", "cancelled", "discarded"} /\ InLine(j)
      /\ record[j].checkpoints = 0 /\ performed[j] = 0 /\ Unthreaded(j) /\ Unasked(j)
  BY <1>1 DEF Inv, Line, InLine, Unstarted
<1>3. record[j] \in Records /\ task[j] \in Tasks_ /\ up = "up"
  BY <1>1, RunningFacts DEF Winding
<1>4. /\ w \in Records /\ w.parent = record[j].parent /\ w.checkpoints = 0
      /\ w.status = IF record[j].status = "queued" THEN "running" ELSE record[j].status
  BY <1>2, <1>3 DEF Written, Started, Records, Status
<1>5. u \in Tasks_ /\ u.pc = IF record[j].status = "queued" THEN "started" ELSE "done"
  BY TaskType
<1> HIDE DEF w, u
<1>6. performed' = [performed EXCEPT ![j] = performed[j]]
  BY <1>1, RunningFacts
<1>7. record[j] # Absent /\ performed[j] - w.checkpoints \in {0, 1}
  BY <1>2, <1>3, <1>4, RecordFacts
<1> QED
  BY <1>1, <1>2, <1>3, <1>4, <1>5, <1>6, <1>7, MoveKeeps, ZenonT(40) DEF Executing, Stepping

LEMMA TaskCheckpointKeeps == ASSUME Inv, NEW j \in Job, TaskCheckpoint(j) PROVE Inv'
<1> DEFINE w == Written("checkpoint", record[j], task[j])
           u == AfterStep(task[j])
<1>1. /\ up \in {"up", "stopping"} /\ task[j].pc = "checkpoint" /\ Become(j, u) /\ Update(j, w)
      /\ UNCHANGED <<up, queue, strays, request, performed, stops>>
  BY DEF TaskCheckpoint, Runs, Store
<1>2. /\ record[j] \in Records /\ task[j] \in Tasks_ /\ up = "up" /\ record[j].checkpoints \in Nat
      /\ record[j].status \in {"running", "cancelling"} /\ Unthreaded(j)
  BY <1>1, RunningFacts, RecordFacts DEF Winding, Executing
<1>3. performed[j] = record[j].checkpoints + 1 /\ Active(j)
  BY <1>1 DEF Inv, Counts, Active
<1>4. /\ w \in Records /\ w.parent = record[j].parent /\ w.checkpoints = record[j].checkpoints + 1
      /\ w.status = record[j].status
  BY <1>2 DEF Written, Appended, Records
<1>5. /\ u \in Tasks_ /\ u.pc \in {"step", "guard", "finish"} /\ u.outcome \notin {"go_on", "looping"}
      /\ u.pc = "finish" => Untold(u.outcome) = 0
  <2>1. task[j].outcome # "guarded"
    BY <1>1 DEF Inv, Values
  <2> QED
    BY <1>2, <2>1 DEF AfterStep, Bare, Task, Tasks_, StoreOps, Outcome, Untold
<1> HIDE DEF w, u
<1>6. performed' = [performed EXCEPT ![j] = performed[j]] /\ performed[j] \in Nat
  BY <1>1, RunningFacts
<1>7. performed[j] = w.checkpoints /\ performed[j] - w.checkpoints \in {0, 1}
  BY <1>2, <1>3, <1>4
<1>8. record[j] # Absent
  BY <1>2, RecordFacts
<1>9. u.pc = "finish" => performed[j] = w.checkpoints + Untold(u.outcome)
  BY <1>2, <1>4, <1>5, <1>7
<1> QED
  BY <1>1, <1>2, <1>3, <1>4, <1>5, <1>6, <1>7, <1>8, <1>9, MoveKeeps DEF Executing, Stepping

LEMMA TaskFinishKeeps == ASSUME Inv, NEW j \in Job, TaskFinish(j) PROVE Inv'
<1> DEFINE w == Written(task[j].pc, record[j], task[j])
           u == Bare("done")
<1>1. /\ up \in {"up", "stopping"} /\ task[j].pc \in {"finish", "failing", "cancelled"}
      /\ Become(j, u) /\ Update(j, w)
      /\ UNCHANGED <<up, queue, strays, request, performed, stops>>
  BY DEF TaskFinish, Runs, Store
<1>2. /\ record[j] \in Records /\ task[j] \in Tasks_ /\ performed[j] \in Nat /\ record[j] # Absent
      /\ performed[j] - record[j].checkpoints \in {0, 1}
      /\ performed' = [performed EXCEPT ![j] = performed[j]]
  BY <1>1, RunningFacts, RecordFacts
<1>3. /\ task[j].pc = "finish" => performed[j] = record[j].checkpoints + Untold(task[j].outcome) /\ task[j].outcome \notin {"go_on", "looping"}
      /\ task[j].pc \in StoreOps /\ task[j].outcome \in Outcome
  BY <1>1, <1>2 DEF Inv, Counts, Values, StoreOps, Tasks_
<1>4. /\ w \in Records /\ w.parent = record[j].parent /\ w.checkpoints = record[j].checkpoints
      /\ w.status \notin {"queued", "running"}
      /\ w.status = "completed" => task[j].pc = "finish" /\ w.result = task[j].outcome
  BY <1>1, <1>2, <1>3, WrittenType
<1>5. u \in Tasks_ /\ u.pc = "done"
  BY TaskType
<1> HIDE DEF w, u
<1>6. w.status # "absent" /\ task[j].pc # "none"
  BY <1>1, <1>4 DEF Records, Status
<1>7. performed[j] - w.checkpoints \in {0, 1} /\ (w.status = "completed" => performed[j] = w.checkpoints + Untold(w.result))
  BY <1>2, <1>3, <1>4
<1>8. w.status = "completed" => Unthreaded(j)
  BY <1>4 DEF Inv, Execution, Executing
<1> QED
  BY <1>1, <1>2, <1>4, <1>5, <1>6, <1>7, <1>8, MoveKeeps DEF Executing, Winding, Stepping

LEMMA WorkerTakeKeeps == ASSUME Inv, WorkerTake PROVE Inv'
<1>1. /\ queue \in Seq(Job) /\ queue # <<>> /\ Len(queue) <= QueueMax
  BY DEF WorkerTake, Inv, TypeOK
<1>2. /\ Len(queue) \in Nat \ {0} /\ Tail(queue) \in Seq(Job) /\ Len(Tail(queue)) = Len(queue) - 1
      /\ \A i \in 1 .. Len(queue) - 1 : Tail(queue)[i] = queue[i + 1]
      /\ Head(queue) = queue[1] /\ Head(queue) \in Job
  BY <1>1, HeadTailProperties, EmptySeq, LenProperties
<1>3. PICK j \in Job : j = queue[1] /\ j = Head(queue)
  BY <1>2
<1> DEFINE u == Bare("created")
<1>4. /\ up = "up" /\ task' = [task EXCEPT ![j] = u] /\ queue' = Tail(queue)
      /\ UNCHANGED <<up, record, strays, request, performed, stops>>
  BY <1>3 DEF WorkerTake, Become
<1>5. u \in Tasks_ /\ u.pc = "created" /\ NoTask.pc = "none"
  BY TaskType DEF StoreOps
<1> HIDE DEF u
<1>6. /\ task' \in [Job -> Tasks_] /\ task'[j] = u
      /\ \A k \in Job : k # j => task'[k] = task[k]
  BY <1>4, <1>5 DEF Inv, TypeOK
<1>7. InQueue(j)
  BY <1>2, <1>3 DEF InQueue
<1>8. /\ task[j] = NoTask /\ Unstarted(j) /\ Unasked(j)
  BY <1>7 DEF Inv, Line, InLine
<1>9. \A i \in 1 .. Len(queue') : i + 1 \in 1 .. Len(queue) /\ i + 1 # 1 /\ queue'[i] = queue[i + 1]
  BY <1>2, <1>4
<1>10. \A k \in Job : InQueue(k)' <=> InQueue(k) /\ k # j
  <2>1. ASSUME NEW k \in Job, InQueue(k)' PROVE InQueue(k) /\ k # j
    <3>1. PICK i \in 1 .. Len(queue') : queue'[i] = k
      BY <2>1 DEF InQueue
    <3>2. i + 1 \in 1 .. Len(queue) /\ queue[i + 1] = k /\ i + 1 # 1 /\ 1 \in 1 .. Len(queue)
      BY <1>2, <1>9, <3>1
    <3> QED
      BY <1>3, <3>2 DEF Inv, Line, InQueue
  <2>2. ASSUME NEW k \in Job, InQueue(k), k # j PROVE InQueue(k)'
    <3>1. PICK i \in 1 .. Len(queue) : queue[i] = k
      BY <2>2 DEF InQueue
    <3>2. i # 1
      BY <1>3, <2>2, <3>1
    <3>3. i - 1 \in 1 .. Len(queue') /\ queue'[i - 1] = k
      BY <1>2, <1>4, <3>1, <3>2
    <3> QED
      BY <3>3 DEF InQueue
  <2> QED
    BY <2>1, <2>2
<1>11. \A k \in Job : InLine(k)' <=> InLine(k)
  BY <1>5, <1>6, <1>7, <1>10 DEF InLine
<1>12. TypeOK'
  <2>1. queue' \in Seq(Job) /\ Len(queue') <= QueueMax
    BY <1>1, <1>2, <1>4, ConstantAssumption
  <2> QED
    BY <1>4, <1>6, <2>1 DEF Inv, TypeOK
<1>13. Values'
  BY <1>4, <1>5, <1>6 DEF Inv, Values
<1>14. Births'
  BY <1>4, <1>5, <1>6, <1>7, <1>10 DEF Inv, Births, Unthreaded, Unasked
<1>15. Line'
  <2>1. \A k \in Job : Unstarted(k)' <=> Unstarted(k)
    BY <1>4 DEF Unstarted, Unthreaded
  <2>2. \A i, h \in 1 .. Len(queue') : queue'[i] = queue'[h] => i = h
    BY <1>9 DEF Inv, Line
  <2> QED
    BY <1>4, <1>6, <1>10, <1>11, <2>1, <2>2 DEF Inv, Line, Unasked
<1>16. Refusals'
  BY <1>4, <1>6, <1>7, <1>10 DEF Inv, Refusals, Values, Unstarted, Unthreaded
<1>17. Held'
  BY <1>4, <1>11 DEF Inv, Held
<1>18. Process'
  BY <1>4 DEF Inv, Process
<1>19. Execution'
  BY <1>4, <1>5, <1>6, <1>8 DEF Inv, Execution, Executing, Unthreaded, Unstarted
<1>20. Cancels'
  BY <1>4, <1>6, <1>8 DEF Inv, Cancels, Unasked
<1>21. Threads_'
  BY <1>4, <1>6, <1>8 DEF Inv, Threads_, Unstarted, Unthreaded
<1>22. Counts'
  BY <1>4, <1>5, <1>6, CountsFrame DEF Inv, TypeOK, Stepping, Bare, Task
<1>23. Parents'
  <2>1. \A p \in Job : Over(p) => Over(p)'
    BY <1>4, <1>5, <1>6, <1>11 DEF Over, Active
  <2>2. \A k \in Job : record[k].parent \in Job \cup {0}
    BY RecordFacts
  <2> QED
    BY <1>4, <2>1, <2>2 DEF Inv, Parents, Values
<1>24. Heirs'
  BY <1>4, HeirsFrame
<1> QED
  BY <1>12, <1>13, <1>14, <1>15, <1>16, <1>17, <1>18, <1>19, <1>20, <1>21, <1>22, <1>23, <1>24 DEF Inv

-----------------------------------------------------------------------------
(* New jobs, and requests that change no job.                               *)

LEMMA NextIsNew ==
  ASSUME Inv, NextJob \in Job
  PROVE  /\ record[NextJob] = Absent
         /\ \A k \in Job : k < NextJob => record[k] # Absent
<1> DEFINE S == {j \in Job : record[j] # Absent}
           n == Cardinality(S)
<1>1. S \in SUBSET (1 .. MaxJobs) /\ MaxJobs \in Nat
  BY ConstantAssumption DEF Job
<1>2. IsFiniteSet(1 .. MaxJobs)
  BY <1>1, FS_Interval
<1>3. IsFiniteSet(S)
  BY <1>1, <1>2, FS_Subset
<1>4. n \in Nat
  BY <1>3, FS_CardinalityType
<1>5. NextJob = n + 1
  BY DEF NextJob
<1>6. \A i, k \in Job : k < i /\ i \in S => k \in S
  BY DEF Inv, Births
<1> HIDE DEF n
<1>7. n + 1 \in 1 .. MaxJobs
  BY <1>5 DEF Job
<1>8. n + 1 \notin S
  <2> SUFFICES ASSUME n + 1 \in S PROVE FALSE
    OBVIOUS
  <2>1. 1 .. n + 1 \in SUBSET S
    BY <1>1, <1>4, <1>6, <1>7 DEF Job
  <2>2. Cardinality(1 .. n + 1) = n + 1
    BY <1>4, FS_Interval
  <2>3. Cardinality(1 .. n + 1) <= n
    BY <1>3, <2>1, FS_Subset DEF n
  <2> QED
    BY <1>4, <2>2, <2>3
<1>9. ASSUME NEW k \in Job, k < n + 1, k \notin S PROVE FALSE
  <2>1. S \in SUBSET (1 .. k - 1)
    <3>1. ASSUME NEW i \in S PROVE i \in 1 .. k - 1
      BY <1>1, <1>6, <1>9, <3>1 DEF Job
    <3> QED
      BY <3>1
  <2>2. k \in Nat \ {0} /\ k <= n
    BY <1>1, <1>4, <1>9 DEF Job
  <2>3. IsFiniteSet(1 .. k - 1) /\ Cardinality(1 .. k - 1) = k - 1
    BY <2>2, FS_Interval
  <2>4. n <= k - 1
    BY <2>1, <2>3, FS_Subset DEF n
  <2> QED
    BY <1>4, <2>2, <2>4
<1> QED
  BY <1>5, <1>7, <1>8, <1>9 DEF Job

(* request c asks for something else, of a job that is over or that nobody  *)
(* is going to start.                                                       *)
LEMMA AskKeeps ==
  ASSUME Inv, NEW c \in Client, NEW q, Reply(c, q), up = "up", request[c].op # "full",
         q \in [op : {"idle", "resume", "overwrite"}, job : 0 .. MaxJobs, steps : Nat],
         q.op = "idle" => q = Idle,
         q.op # "idle" => q.job \in Job /\ record[q.job] # Absent /\ ~ InLine(q.job),
         q.op = "resume" => q.steps # 0 /\ Over(q.job),
         q.op = "overwrite" => /\ record[q.job].status \notin {"queued", "running"}
                               /\ task[q.job].pc = "none",
         \A d \in Client : request[d].op = "full" => request[d].job # q.job,
         UNCHANGED <<up, record, queue, task, strays, performed, stops>>
  PROVE  Inv'
<1>1. /\ request'[c] = q /\ \A d \in Client : d # c => request'[d] = request[d]
      /\ Idle.op = "idle" /\ Idle.job = 0 /\ 0 \notin Job
  BY Replied, RequestFacts
<1>2. TypeOK'
  <2> DEFINE Req == [op : {"idle", "full", "resume", "cancel", "overwrite"}, job : 0 .. MaxJobs, steps : Nat]
  <2>1. q \in Req
    OBVIOUS
  <2>2. request' \in [Client -> Req]
    BY <2>1 DEF Inv, TypeOK, Reply
  <2> QED
    BY <2>2 DEF Inv, TypeOK
<1>3. Values'
  BY <1>1 DEF Inv, Values
<1>4. Births'
  <2>1. \A k \in Job : record[k] = Absent => q.job # k
    BY <1>1
  <2>2. \A k \in Job : record[k] = Absent => Unasked(k)'
    BY <1>1, <2>1 DEF Inv, Births, Unasked
  <2> QED
    BY <2>2 DEF Inv, Births, InQueue, Unthreaded
<1>5. Line'
  <2>1. \A k \in Job : InLine(k) => q.job # k
    BY <1>1
  <2>2. \A k \in Job : InLine(k) => Unasked(k)'
    BY <1>1, <2>1 DEF Inv, Line, Unasked
  <2> QED
    BY <2>2 DEF Inv, Line, InLine, InQueue, Unstarted, Unthreaded
<1>6. Refusals'
  <2>1. ASSUME NEW d \in Client, request'[d].op = "full"
        PROVE  d # c /\ request'[d] = request[d] /\ request[d].op = "full" /\ request[d].job # q.job
    BY <1>1, <2>1
  <2> QED
    BY <1>1, <2>1 DEF Inv, Refusals, InQueue, Unstarted, Unthreaded
<1>7. Held'
  <2>1. \A d \in Client : request[d].op = "full" => request'[d] = request[d]
    BY <1>1
  <2> QED
    BY <2>1 DEF Inv, Held, InLine, InQueue
<1>8. Process' /\ Execution' /\ Threads_'
  BY DEF Inv, Process, Execution, Threads_, Unthreaded
<1>9. Cancels'
  BY <1>1 DEF Inv, Cancels
<1>10. Counts'
  BY DEF Inv, Counts, Lag
<1>11. Parents'
  BY <1>1 DEF Inv, Parents, Over, InLine, InQueue, Active
<1>12. Heirs'
  BY HeirsFrame
<1> QED
  BY <1>2, <1>3, <1>4, <1>5, <1>6, <1>7, <1>8, <1>9, <1>10, <1>11, <1>12 DEF Inv

LEMMA EnqueueKeeps ==
  ASSUME Inv, NEW c \in Client, NEW kind \in {"agent_run", "agent_step"}, NEW max \in Nat \ {0},
         NEW parent \in Job \cup {0}, up = "up", request[c].op # "full",
         parent # 0 => Over(parent), Enqueue(c, Queued(kind, max, parent))
  PROVE  Inv'
<1>1. PICK j \in Job : j = NextJob
  BY DEF Enqueue
<1> DEFINE w == Queued(kind, max, parent)
           full == [op |-> "full", job |-> j, steps |-> 0]
<1>2. /\ up = "up" /\ Update(j, w)
      /\ \/ /\ Len(queue) < QueueMax /\ queue' = Append(queue, j) /\ Reply(c, Idle)
         \/ queue' = queue /\ Reply(c, full)
      /\ UNCHANGED <<up, task, strays, performed, stops>>
  BY <1>1 DEF Enqueue
<1>3. record[j] = Absent /\ \A k \in Job : k < j => record[k] # Absent
  BY <1>1, NextIsNew
<1>4. /\ ~ InQueue(j) /\ task[j] = NoTask /\ Unthreaded(j) /\ Unasked(j) /\ performed[j] = 0
      /\ NoTask.pc = "none"
  BY <1>3, TaskType DEF Inv, Births
<1>5. /\ w \in Records /\ w.status = "queued" /\ w.checkpoints = 0 /\ w.parent = parent
      /\ w # Absent
  <2>1. parent \in 0 .. MaxJobs
    BY ConstantAssumption DEF Job
  <2> QED
    BY <2>1, QueuedType, NotAbsent
<1> HIDE DEF w
<1>6. /\ record' \in [Job -> Records \cup {Absent}] /\ record'[j] = w
      /\ \A k \in Job : k # j => record'[k] = record[k]
  BY <1>2, <1>5 DEF Inv, TypeOK, Update
<1>7. /\ full.op = "full" /\ full.job = j /\ full.steps = 0 /\ j \in 0 .. MaxJobs
      /\ Idle.op = "idle" /\ Idle.job = 0 /\ Idle.steps = 0 /\ 0 \notin Job
      /\ \A d \in Client : d # c => request'[d] = request[d]
      /\ request'[c] = Idle \/ request'[c] = full
  BY <1>2, Replied, RequestFacts, ConstantAssumption DEF Job
<1>8. /\ queue' \in Seq(Job) /\ Len(queue') <= QueueMax
      /\ \A k \in Job : InQueue(k)' => InQueue(k) \/ (k = j /\ request'[c] = Idle)
      /\ \A k \in Job : InQueue(k) => InQueue(k)'
      /\ request'[c] = full \/ InQueue(j)'
      /\ \A i, h \in 1 .. Len(queue') : queue'[i] = queue'[h] => i = h
  <2>1. CASE Len(queue) < QueueMax /\ queue' = Append(queue, j) /\ Reply(c, Idle)
    <3>1. /\ queue \in Seq(Job) /\ Len(queue) \in Nat /\ queue' \in Seq(Job) /\ Len(queue') = Len(queue) + 1
          /\ \A i \in 1 .. Len(queue) : queue'[i] = queue[i]
          /\ queue'[Len(queue) + 1] = j
      BY <2>1, AppendProperties, LenProperties DEF Inv, TypeOK
    <3>2. request'[c] = Idle
      BY <2>1, Replied
    <3>3. \A i, h \in 1 .. Len(queue') : queue'[i] = queue'[h] => i = h
      BY <1>4, <3>1 DEF Inv, Line, InQueue
    <3>4. Len(queue') <= QueueMax
      BY <2>1, <3>1, ConstantAssumption
    <3> QED
      BY <3>1, <3>2, <3>3, <3>4 DEF InQueue
  <2>2. CASE queue' = queue /\ Reply(c, full)
    <3>1. request'[c] = full
      BY <2>2, Replied
    <3> QED
      BY <2>2, <3>1 DEF Inv, TypeOK, Line, InQueue
  <2> QED
    BY <1>2, <2>1, <2>2
<1>21. up' = up /\ task' = task /\ strays' = strays /\ performed' = performed /\ stops' = stops
  BY <1>2
<1> HIDE DEF full
<1>9. TypeOK'
  <2> DEFINE Req == [op : {"idle", "full", "resume", "cancel", "overwrite"}, job : 0 .. MaxJobs, steps : Nat]
  <2>1. Idle \in Req /\ full \in Req
    BY <1>7, ConstantAssumption DEF Idle, full
  <2>2. request \in [Client -> Req]
    BY DEF Inv, TypeOK
  <2>3. request' \in [Client -> Req]
    BY <1>2, <2>1, <2>2 DEF Reply
  <2> QED
    BY <1>21, <1>6, <1>8, <2>3 DEF Inv, TypeOK
<1>10. Values'
  <2>1. ASSUME NEW d \in Client
        PROVE  /\ request'[d].op = "idle" => request'[d] = Idle
               /\ request'[d].op = "resume" => request'[d].steps # 0
               /\ request'[d].op # "idle" => request'[d].job \in Job /\ record'[request'[d].job] # Absent
    <3>1. CASE d = c
      BY <1>5, <1>6, <1>7, <3>1
    <3>2. CASE d # c
      <4>1. request'[d] = request[d]
        BY <1>7, <3>2
      <4>2. request[d].op # "idle" => request[d].job \in Job \ {j} /\ record[request[d].job] # Absent
        BY <1>3 DEF Inv, Values
      <4>3. request[d].op # "idle" => record'[request[d].job] = record[request[d].job]
        BY <1>6, <4>2
      <4> QED
        BY <4>1, <4>2, <4>3 DEF Inv, Values
    <3> QED
      BY <3>1, <3>2
  <2> QED
    BY <1>21, <2>1 DEF Inv, Values
<1>11. Births'
  <2>1. \A i, k \in Job : k < i /\ record'[i] # Absent => record'[k] # Absent
    BY <1>3, <1>5, <1>6 DEF Inv, Births
  <2>2. ASSUME NEW k \in Job, record'[k] = Absent
        PROVE  ~ InQueue(k)' /\ task'[k] = NoTask /\ Unthreaded(k)' /\ Unasked(k)' /\ performed'[k] = 0
    <3>1. k # j /\ record[k] = Absent
      BY <1>5, <1>6, <2>2
    <3>2. ~ InQueue(k) /\ task[k] = NoTask /\ Unthreaded(k) /\ Unasked(k) /\ performed[k] = 0
      BY <3>1 DEF Inv, Births
    <3>3. Unasked(k)'
      <4>1. request'[c].job # k
        BY <1>7, <3>1
      <4> QED
        BY <1>7, <3>2, <4>1 DEF Unasked
    <3> QED
      BY <1>21, <1>8, <3>1, <3>2, <3>3 DEF Unthreaded
  <2> QED
    BY <2>1, <2>2 DEF Births
<1>12. Line'
  <2>1. ASSUME NEW k \in Job, InLine(k)' PROVE Unstarted(k)' /\ Unasked(k)' /\ (InQueue(k)' => task'[k] = NoTask)
    <3>1. CASE k = j
      <4>1. request'[c] = Idle
        BY <1>21, <1>4, <1>8, <2>1, <3>1 DEF InLine
      <4> QED
        BY <1>21, <1>4, <1>5, <1>6, <1>7, <3>1, <4>1 DEF Unstarted, Unasked, Unthreaded
    <3>2. CASE k # j
      BY <1>21, <1>6, <1>7, <1>8, <2>1, <3>2 DEF Inv, Line, InLine, Unstarted, Unasked, Unthreaded
    <3> QED
      BY <3>1, <3>2
  <2> QED
    BY <1>8, <2>1 DEF Line, InLine
<1>13. Refusals'
  <2>1. ASSUME NEW d \in Client, NEW k \in Job, request'[d].op = "full", request'[d].job = k, d # c
        PROVE  /\ Unstarted(k)' /\ task'[k] = NoTask /\ ~ InQueue(k)'
               /\ \A e \in Client : request'[e].job = k => e = d
    <3>1. request[d].op = "full" /\ request[d].job = k /\ k # j /\ request'[c].job # k
      BY <1>4, <1>7, <2>1 DEF Unasked
    <3>2. Unstarted(k) /\ task[k] = NoTask /\ ~ InQueue(k) /\ \A e \in Client : request[e].job = k => e = d
      BY <3>1 DEF Inv, Refusals
    <3> QED
      BY <1>21, <1>6, <1>7, <1>8, <3>1, <3>2 DEF Unstarted, Unthreaded
  <2>2. ASSUME request'[c].op = "full"
        PROVE  /\ request'[c].job = j /\ Unstarted(j)' /\ task'[j] = NoTask /\ ~ InQueue(j)'
               /\ \A e \in Client : request'[e].job = j => e = c
    <3>1. request'[c] = full
      BY <1>7, <2>2
    <3>2. Unstarted(j)'
      BY <1>21, <1>4, <1>5, <1>6 DEF Unstarted, Unthreaded
    <3> QED
      BY <1>21, <1>4, <1>7, <1>8, <3>1, <3>2 DEF Unasked
  <2>3. \A d \in Client : request'[d].op = "full" => request'[d].job \in Job
    BY <1>7 DEF Inv, Values
  <2> QED
    BY <2>1, <2>2, <2>3 DEF Refusals
<1>14. Held'
  <2>1. \A d \in Client : request[d].op = "full" => request'[d] = request[d]
    BY <1>7
  <2>2. InLine(j)' \/ (request'[c].op = "full" /\ request'[c].job = j)
    BY <1>7, <1>8 DEF InLine
  <2>3. \A k \in Job : InLine(k) => InLine(k)'
    BY <1>21, <1>8 DEF InLine
  <2> QED
    BY <1>21, <1>4, <1>5, <1>6, <2>1, <2>2, <2>3 DEF Inv, Held
<1>15. Process'
  BY <1>21 DEF Inv, Process
<1>16. Execution'
  BY <1>21, <1>4, <1>5, <1>6 DEF Inv, Execution, Unthreaded, Executing
<1>17. Cancels'
  <2>1. ASSUME NEW d \in Client, request'[d].op \in {"cancel", "overwrite"}
        PROVE  d # c /\ request'[d] = request[d] /\ request[d].job \in Job \ {j}
    BY <1>4, <1>7, <2>1 DEF Inv, Values, Unasked
  <2> QED
    BY <1>21, <1>6, <2>1 DEF Inv, Cancels
<1>18. Threads_'
  <2>1. \A s \in strays : s.job \in Job \ {j}
    BY <1>4 DEF Unthreaded, Inv, TypeOK
  <2> QED
    BY <1>21, <1>6, <2>1 DEF Inv, Threads_
<1>19. Counts'
  <2>1. \A s \in strays : s.job \in Job
    BY DEF Inv, TypeOK
  <2>2. \A k \in Job : /\ record'[k].checkpoints = record[k].checkpoints
                       /\ record'[k].status = "completed" => record[k].status = "completed" /\ record'[k].result = record[k].result
    BY <1>3, <1>5, <1>6 DEF Absent
  <2>3. Counts /\ performed' = performed /\ strays' = strays /\ task' = task
    BY <1>21 DEF Inv
  <2> QED
    BY <2>1, <2>2, <2>3, CountsFrame
<1>20. Parents'
  <2>1. \A p \in Job : Over(p) => p # j
    BY <1>3 DEF Over, Unsettled, Absent
  <2>2. \A p \in Job : Over(p) => Over(p)'
    BY <1>21, <1>6, <1>8, <2>1 DEF Over, InLine, Active
  <2>3. \A k \in Job : record'[k].parent # 0 => Over(record'[k].parent) /\ record'[k].parent \in Job
    BY <1>5, <1>6, RecordFacts DEF Inv, Parents
  <2>4. \A d \in Client : request'[d].op = "resume" => Over(request'[d].job) /\ request'[d].job \in Job
    BY <1>7 DEF Inv, Parents, Values
  <2> QED
    BY <2>2, <2>3, <2>4 DEF Parents
<1>22. Heirs'
  BY <1>3, <1>6, <1>21, HeirsFrame
<1> QED
  BY <1>9, <1>10, <1>11, <1>12, <1>13, <1>14, <1>15, <1>16, <1>17, <1>18, <1>19, <1>20, <1>22 DEF Inv

LEMMA EnqueueNewKeeps == ASSUME Inv, NEW c \in Client, EnqueueNew(c) PROVE Inv'
<1>1. PICK a \in Ask : Enqueue(c, Queued(a[1], a[2], 0))
  BY DEF EnqueueNew
<1>2. a[1] \in {"agent_run", "agent_step"} /\ a[2] \in Nat \ {0}
  BY ConstantAssumption
<1>3. up = "up" /\ request[c].op # "full"
  BY RequestFacts DEF EnqueueNew, Free
<1> QED
  BY <1>1, <1>2, <1>3, EnqueueKeeps

LEMMA ResumeEnqueueKeeps == ASSUME Inv, NEW c \in Client, ResumeEnqueue(c) PROVE Inv'
<1>1. /\ up = "up" /\ request[c].op = "resume"
      /\ Enqueue(c, Queued("agent_run", request[c].steps, request[c].job))
  BY DEF ResumeEnqueue
<1>2. request[c].job \in Job /\ request[c].steps \in Nat \ {0} /\ Over(request[c].job)
  BY <1>1, RequestFacts DEF Inv, Values, Parents
<1>3. PICK max \in Nat \ {0}, parent \in Job : max = request[c].steps /\ parent = request[c].job
  BY <1>2
<1> QED
  BY <1>1, <1>2, <1>3, EnqueueKeeps

LEMMA ResumeReadKeeps == ASSUME Inv, NEW c \in Client, NEW j \in Job, ResumeRead(c, j) PROVE Inv'
<1> DEFINE q == [op |-> "resume", job |-> j, steps |-> Remaining(record[j])]
<1>1. /\ up = "up" /\ request[c] = Idle /\ IsResumable(record[j]) /\ Reply(c, q)
      /\ UNCHANGED <<up, record, queue, task, strays, performed, stops>>
  BY DEF ResumeRead, Free
<1>2. record[j].status \in {"interrupted", "failed", "completed"}
  BY <1>1 DEF IsResumable
<1>3. record[j] \in Records /\ j \in 0 .. MaxJobs
  BY <1>2, RecordFacts, ConstantAssumption DEF Job
<1>4. Remaining(record[j]) \in Nat \ {0}
  BY <1>3 DEF Remaining, Records
<1>5. ~ InLine(j) /\ \A d \in Client : request[d].op = "full" => request[d].job # j
  BY <1>2 DEF Inv, Line, Refusals, Unstarted
<1>6. Over(j)
  BY <1>2, <1>5 DEF Over, Unsettled, Active, Inv, Execution, Executing
<1>7. q \in [op : {"idle", "resume", "overwrite"}, job : 0 .. MaxJobs, steps : Nat]
  BY <1>3, <1>4
<1>8. q.op = "resume" /\ q.job = j /\ q.steps # 0
  BY <1>4
<1>9. request[c].op # "full" /\ record[j] # Absent
  BY <1>1, <1>3, RequestFacts, RecordFacts
<1> HIDE DEF q
<1> QED
  BY <1>1, <1>5, <1>6, <1>7, <1>8, <1>9, AskKeeps

-----------------------------------------------------------------------------
(* Cancellations, and the threads they leave behind.                        *)

LEMMA AfterCancelType ==
  ASSUME NEW pc, NEW by_user \in BOOLEAN
  PROVE  /\ AfterCancel(pc, by_user) \in Tasks_
         /\ AfterCancel(pc, by_user).pc =
              IF pc \in {"step", "checkpoint", "guard", "finish"} THEN "cancelled" ELSE "done"
  BY DEF AfterCancel, Task, Bare, Tasks_, StoreOps, Outcome

LEMMA CutKeeps ==
  ASSUME Inv, NEW S \in SUBSET Live, NEW by_user \in BOOLEAN, Cut(S, by_user), up = "up",
         up' \in {"up", "stopping"}, stops' \in 0 .. MaxStops,
         up' = "up" => \A j \in S : record[j].status \notin {"queued", "running"} /\ task[j].pc # "created",
         up' = "stopping" => S = Live /\ \A c \in Client : request'[c] = Idle,
         request' = [c \in Client |-> request'[c]],
         \A c \in Client : request'[c] = request[c] \/ (request'[c] = Idle /\ request[c].op # "full"),
         UNCHANGED <<record, queue, performed>>
  PROVE  Inv'
<1>1. /\ record' = record /\ queue' = queue /\ performed' = performed
      /\ task \in [Job -> Tasks_] /\ S \subseteq Job
  BY DEF Inv, TypeOK, Live
<1>2. /\ task' \in [Job -> Tasks_]
      /\ \A j \in S : task'[j].pc = IF task[j].pc \in {"step", "checkpoint", "guard", "finish"} THEN "cancelled" ELSE "done"
      /\ \A j \in Job \ S : task'[j] = task[j]
  BY <1>1, AfterCancelType DEF Cut
<1>3. PICK T \in SUBSET {j \in S : task[j].pc \in StoreOps} : strays' = strays \cup {Stray(j) : j \in T}
  BY DEF Cut
<1>4. \A j \in T : /\ Stray(j).job = j /\ Stray(j).op = task[j].pc /\ Stray(j).seen = Absent
                   /\ Stray(j).outcome = task[j].outcome
                   /\ j \in S /\ j \in Job /\ task[j].pc \in StoreOps
  BY <1>1, <1>3 DEF Stray
<1>5. \A j \in S : j \in Job /\ task[j].pc # "none" /\ task[j] # NoTask /\ task'[j].pc \in {"cancelled", "done"}
  <2>1. \A j \in S : j \in Job /\ task[j].pc # "none"
    BY DEF Live
  <2>2. NoTask.pc = "none"
    BY TaskType
  <2> QED
    BY <1>2, <2>1, <2>2
<1>6. \A s \in strays' : s \in strays \/ \E j \in T : s = Stray(j)
  BY <1>3
<1>7. \A j \in Job : Unthreaded(j) /\ j \notin S => Unthreaded(j)'
  BY <1>4, <1>6 DEF Unthreaded
<1>8. \A j \in Job : InLine(j)' => InLine(j) /\ j \notin S
  BY <1>1, <1>2, <1>5 DEF InLine, InQueue, Inv, Line
<1>9. \A c \in Client : request'[c].op # "idle" => request'[c] = request[c]
  BY RequestFacts
<1>10. \A j \in Job : Unasked(j) => Unasked(j)'
  BY RequestFacts DEF Unasked
<1>11. TypeOK'
  <2>1. ASSUME NEW j \in T
        PROVE  Stray(j) \in [job : Job, op : StoreOps, outcome : Outcome, by_user : BOOLEAN,
                             seen : Records \cup {Absent}]
    <3>1. task[j] \in Tasks_ /\ task[j].pc \in StoreOps /\ j \in Job
      BY <1>1, <1>4
    <3>2. task[j].outcome \in Outcome /\ task[j].by_user \in BOOLEAN
      BY <3>1, TaskFields
    <3> QED
      BY <3>1, <3>2 DEF Stray
  <2> DEFINE Req == [op : {"idle", "full", "resume", "cancel", "overwrite"}, job : 0 .. MaxJobs, steps : Nat]
  <2>2. request \in [Client -> Req] /\ Idle \in Req
    BY ConstantAssumption DEF Inv, TypeOK, Idle
  <2>3. request' \in [Client -> Req]
    BY <2>2
  <2> QED
    BY <1>1, <1>2, <1>6, <2>1, <2>3 DEF Inv, TypeOK
<1>12. Values'
  <2>1. \A j \in Job : /\ task'[j].pc = "finish" => task'[j].outcome \notin {"go_on", "looping"}
                       /\ task'[j].pc = "checkpoint" => task'[j].outcome # "guarded"
    BY <1>2, <1>5 DEF Inv, Values
  <2>2. \A s \in strays' : s.op = "finish" => s.outcome \notin {"go_on", "looping"}
    BY <1>4, <1>6 DEF Inv, Values
  <2>3. \A c \in Client : request'[c].op = "idle" => request'[c] = Idle
    BY RequestFacts
  <2> QED
    BY <1>1, <1>9, <2>1, <2>2, <2>3 DEF Inv, Values
<1>13. Births'
  BY <1>1, <1>2, <1>5, <1>7, <1>10 DEF Inv, Births, InQueue
<1>14. Line'
  <2>1. \A j \in Job : InLine(j)' => Unstarted(j)' /\ Unasked(j)'
    BY <1>1, <1>7, <1>8, <1>10 DEF Inv, Line, Unstarted
  <2>2. \A j \in Job : InQueue(j)' => task'[j] = NoTask
    BY <1>1, <1>2, <1>8 DEF Inv, Line, InQueue, InLine
  <2> QED
    BY <1>1, <2>1, <2>2 DEF Inv, Line
<1>15. Refusals'
  <2>1. ASSUME NEW c \in Client, NEW j \in Job, request'[c].op = "full", request'[c].job = j
        PROVE  /\ Unstarted(j)' /\ task'[j] = NoTask /\ ~ InQueue(j)'
               /\ \A d \in Client : request'[d].job = j => d = c
    <3>1. request[c].op = "full" /\ request[c].job = j
      BY <1>9, <2>1
    <3>2. /\ Unstarted(j) /\ task[j] = NoTask /\ ~ InQueue(j)
          /\ \A d \in Client : request[d].job = j => d = c
      BY <3>1 DEF Inv, Refusals
    <3>3. j \notin S
      BY <1>5, <3>2
    <3>4. Unstarted(j)'
      BY <1>1, <1>7, <3>2, <3>3 DEF Unstarted
    <3> QED
      BY <1>1, <1>2, <3>2, <3>3, <3>4, RequestFacts, ZenonT(40) DEF InQueue
  <2>2. \A c \in Client : request'[c].op = "full" => request'[c].job \in Job
    BY <1>9 DEF Inv, Values
  <2> QED
    BY <2>1, <2>2 DEF Refusals
<1>16. Held'
  <2>1. \A j \in Job : up' = "up" /\ InLine(j) => InLine(j)'
    BY <1>1, <1>2, <1>5 DEF InLine, InQueue
  <2> QED
    BY <1>1, <2>1 DEF Inv, Held
<1>17. Process'
  BY <1>1, <1>2, <1>5 DEF Inv, Process, Live, Winding
<1>18. Execution'
  <2>1. ASSUME NEW j \in S
        PROVE  /\ task'[j].pc \notin Executing
               /\ task'[j].pc = "cancelled" => record'[j].status \notin Unsettled
    BY <1>1, <1>2, <1>5 DEF Inv, Execution, Executing, Unsettled
  <2>2. ASSUME NEW j \in Job \ S
        PROVE  /\ task'[j].pc \in Executing => record'[j].status \in {"running", "cancelling"} /\ Unthreaded(j)'
               /\ task'[j].pc = "cancelled" => record'[j].status \notin Unsettled
               /\ up' = "up" /\ record'[j].status = "running" => task'[j].pc \in Executing
    BY <1>1, <1>2, <1>7 DEF Inv, Execution
  <2> QED
    BY <1>1, <2>1, <2>2 DEF Execution
<1>19. Cancels'
  <2>1. \A c \in Client : request'[c].op = "overwrite" => request[c].job \in Job \ S
    BY <1>5, <1>9 DEF Inv, Cancels, Values
  <2> QED
    BY <1>1, <1>2, <1>9, <2>1 DEF Inv, Cancels
<1>20. Threads_'
  <2>1. ASSUME NEW s \in strays
        PROVE  task'[s.job].pc \in Winding
    <3>1. s.job \in Job /\ task[s.job].pc \in Winding
      BY DEF Inv, TypeOK, Threads_
    <3> QED
      BY <1>2, <1>5, <3>1 DEF Winding
  <2>2. ASSUME NEW j \in T
        PROVE  /\ task'[j].pc \in Winding
               /\ task[j].pc # "created" => record[j].status \notin Unsettled
               /\ up' = "up" => task[j].pc # "created" /\ record[j].status # "running"
    BY <1>4, <1>5 DEF Inv, Execution, StoreOps, Executing, Unsettled, Winding
  <2> QED
    BY <1>1, <1>4, <1>6, <2>1, <2>2 DEF Inv, Threads_, Absent
<1>21. Counts'
  <2>1. \A j \in T : task[j].pc \in {"checkpoint", "finish"} => Unthreaded(j) /\ record[j].status # "completed"
    BY <1>4 DEF Inv, Execution, Executing
  <2>2. \A j \in Job : task'[j].pc \in Stepping \cup {"checkpoint", "finish"} => task'[j] = task[j]
    BY <1>2, <1>5 DEF Stepping
  <2>3. ASSUME NEW s \in strays', s.seen # Absent
        PROVE  s \in strays
    BY <1>4, <1>6, <2>3
  <2> DEFINE Behind(s) == /\ performed[s.job] = record[s.job].checkpoints + 1 /\ record[s.job].status # "completed"
                          /\ \A t \in strays' : t.job = s.job =>
                               /\ t.op = "checkpoint" => t = s
                               /\ t.op # "finish"
                               /\ t.seen # Absent => performed[s.job] = t.seen.checkpoints + 1 /\ t.seen.status # "completed"
             Even(s) == /\ performed[s.job] = record[s.job].checkpoints + Untold(s.outcome)
                        /\ \A t \in strays' : t.job = s.job /\ t.seen # Absent =>
                             performed[s.job] = t.seen.checkpoints + Untold(s.outcome)
  <2>4. ASSUME NEW s \in strays, s.op = "checkpoint" PROVE Behind(s)
    <3>1. s.job \in Job /\ ~ Unthreaded(s.job)
      BY DEF Inv, TypeOK, Unthreaded
    <3>2. \A t \in strays' : t.job = s.job /\ t.op \in {"checkpoint", "finish"} => t \in strays
      BY <1>4, <1>6, <2>1, <3>1
    <3> QED
      BY <2>3, <2>4, <3>2 DEF Inv, Counts
  <2>5. ASSUME NEW s \in strays, s.op = "finish" PROVE Even(s)
    BY <2>3, <2>5 DEF Inv, Counts
  <2>8. ASSUME NEW j \in T
        PROVE  /\ Stray(j).op = "checkpoint" => Behind(Stray(j))
               /\ Stray(j).op = "finish" => Even(Stray(j))
    <3>1. /\ Stray(j).job = j /\ j \in Job /\ Stray(j).op = task[j].pc /\ Stray(j).seen = Absent
          /\ Stray(j).outcome = task[j].outcome
          /\ Stray(j).op \in {"checkpoint", "finish"} => Unthreaded(j) /\ record[j].status # "completed"
      BY <1>4, <2>1
    <3>2. Unthreaded(j) => \A t \in strays' : t.job = j => t = Stray(j)
      BY <1>4, <1>6 DEF Unthreaded
    <3>3. /\ task[j].pc = "checkpoint" => performed[j] = record[j].checkpoints + 1
          /\ task[j].pc = "finish" => performed[j] = record[j].checkpoints + Untold(task[j].outcome)
      BY <3>1 DEF Inv, Counts
    <3> QED
      BY <3>1, <3>2, <3>3
  <2>9. \A s \in strays' : (s.op = "checkpoint" => Behind(s)) /\ (s.op = "finish" => Even(s))
    <3> HIDE DEF Behind, Even
    <3> QED
      BY <1>6, <2>4, <2>5, <2>8
  <2>6. \A s \in strays' : s.seen # Absent => Lag(s.job, s.seen.checkpoints)
    BY <2>3 DEF Inv, Counts
  <2>7. ASSUME NEW k \in Job
        PROVE  /\ Lag(k, record[k].checkpoints)
               /\ record[k].status = "completed" => performed[k] = record[k].checkpoints + Untold(record[k].result)
               /\ task'[k].pc \in Stepping => performed[k] = record[k].checkpoints
               /\ task'[k].pc = "checkpoint" => performed[k] = record[k].checkpoints + 1
               /\ task'[k].pc = "finish" => performed[k] = record[k].checkpoints + Untold(task'[k].outcome)
    BY <2>2 DEF Inv, Counts
  <2> QED
    BY <1>1, <2>6, <2>7, <2>9 DEF Counts, Lag
<1>22. Parents'
  <2>1. \A p \in Job : Over(p) => Over(p)'
    BY <1>1, <1>2, <1>5, <1>8 DEF Over, Active
  <2>2. \A k \in Job : record[k].parent \in Job \cup {0}
    BY RecordFacts
  <2>3. \A c \in Client : request'[c].op = "resume" => Over(request[c].job) /\ request[c].job \in Job
    BY <1>9 DEF Inv, Parents, Values
  <2> QED
    BY <1>1, <1>9, <2>1, <2>2, <2>3 DEF Inv, Parents
<1>23. Heirs'
  BY <1>1, <1>4, <1>6, HeirsFrame
<1> QED
  BY <1>11, <1>12, <1>13, <1>14, <1>15, <1>16, <1>17, <1>18, <1>19, <1>20, <1>21, <1>22, <1>23 DEF Inv

LEMMA SignalKeeps ==
  ASSUME Inv, NEW c \in Client, NEW j \in Job, Signal(c, j), up = "up", request[c].op # "full",
         record[j].status \notin {"absent", "queued", "running"},
         ~ InLine(j), \A d \in Client : request[d].op = "full" => request[d].job # j,
         UNCHANGED <<up, record, queue, performed, stops>>
  PROVE  Inv'
<1>1. CASE j \in Live
  <2>1. Cut({j}, TRUE) /\ Reply(c, Idle)
    BY <1>1 DEF Signal
  <2>2. /\ \A d \in Client : request'[d] = request[d] \/ (request'[d] = Idle /\ request[d].op # "full")
        /\ request' = [d \in Client |-> request'[d]]
    BY <2>1, Replied
  <2>3. {j} \in SUBSET Live /\ task[j].pc # "created"
    BY <1>1 DEF InLine
  <2>4. stops' \in 0 .. MaxStops /\ TRUE \in BOOLEAN
    BY DEF Inv, TypeOK
  <2>5. \A k \in {j} : record[k].status \notin {"queued", "running"} /\ task[k].pc # "created"
    BY <2>3
  <2> QED
    BY <2>1, <2>2, <2>3, <2>4, <2>5, CutKeeps
<1>2. CASE j \notin Live
  <2> DEFINE q == [op |-> "overwrite", job |-> j, steps |-> 0]
  <2>1. Reply(c, q) /\ UNCHANGED <<up, record, queue, task, strays, performed, stops>>
    BY <1>2 DEF Signal
  <2>2. task[j].pc = "none" /\ record[j] # Absent
    BY <1>2, RecordFacts DEF Live
  <2>3. /\ q \in [op : {"idle", "resume", "overwrite"}, job : 0 .. MaxJobs, steps : Nat]
        /\ q.op = "overwrite" /\ q.job = j
    BY ConstantAssumption DEF Job
  <2> HIDE DEF q
  <2> QED
    BY <2>1, <2>2, <2>3, AskKeeps
<1> QED
  BY <1>1, <1>2

LEMMA CancelSignalKeeps == ASSUME Inv, NEW c \in Client, CancelSignal(c) PROVE Inv'
<1>1. /\ up = "up" /\ request[c].op = "cancel"
      /\ UNCHANGED <<up, record, queue, performed, stops>>
  BY DEF CancelSignal
<1>2. PICK j \in Job : j = request[c].job /\ record[j] # Absent
  BY <1>1, RequestFacts
<1>3. Signal(c, j)
  BY <1>2 DEF CancelSignal
<1>4. record[j].status \notin {"absent", "queued", "running"}
  BY <1>1, <1>2, RecordFacts DEF Inv, Cancels
<1>5. ~ InLine(j) /\ \A d \in Client : request[d].op = "full" => request[d].job # j
  BY <1>1, <1>2 DEF Inv, Line, Unasked, Refusals
<1> QED
  BY <1>1, <1>3, <1>4, <1>5, SignalKeeps

LEMMA CancelAgainKeeps == ASSUME Inv, NEW c \in Client, NEW j \in Job, CancelAgain(c, j) PROVE Inv'
<1>1. /\ up = "up" /\ request[c] = Idle /\ record[j].status = "cancelling" /\ Signal(c, j)
      /\ UNCHANGED <<up, record, queue, performed, stops>>
  BY DEF CancelAgain, Free
<1>2. ~ InLine(j) /\ \A d \in Client : request[d].op = "full" => request[d].job # j
  BY <1>1 DEF Inv, Line, Refusals, Unstarted
<1>3. request[c].op # "full"
  BY <1>1, RequestFacts
<1> QED
  BY <1>1, <1>2, <1>3, SignalKeeps

LEMMA ShutdownKeeps == ASSUME Inv, Shutdown PROVE Inv'
<1>1. /\ up = "up" /\ \A c \in Client : request[c] = Idle
      /\ stops < MaxStops /\ stops' = stops + 1 /\ up' = "stopping" /\ Cut(Live, FALSE)
      /\ UNCHANGED <<record, queue, request, performed>>
  BY DEF Shutdown
<1>2. stops' \in 0 .. MaxStops
  BY <1>1, ConstantAssumption DEF Inv, TypeOK
<1>3. Live \in SUBSET Live /\ FALSE \in BOOLEAN
  OBVIOUS
<1>4. request' = [c \in Client |-> request'[c]]
  BY <1>1, RequestFacts
<1> QED
  BY <1>1, <1>2, <1>3, <1>4, CutKeeps

(* A thread reads or is gone; the others stay, and its record may change.   *)
LEMMA ThreadKeeps ==
  ASSUME Inv, NEW s \in strays, NEW w \in Records, Update(s.job, w),
         NEW rest, strays' = (strays \ {s}) \cup rest,
         rest \subseteq [job : {s.job}, op : {s.op}, outcome : {s.outcome}, by_user : BOOLEAN, seen : Records],
         \A t, u \in rest : t = u,
         UNCHANGED <<up, queue, task, request, performed, stops>>,
         w.parent = record[s.job].parent,
         w.status = "queued" => record[s.job].status = "queued" /\ w.checkpoints = record[s.job].checkpoints,
         w.status = "running" => up # "up",
         w.status = "completed" => performed[s.job] = w.checkpoints + Untold(w.result),
         performed[s.job] - w.checkpoints \in {0, 1},
         \A t \in rest : t.seen.parent = w.parent,
         \A t \in rest : /\ s.op # "created" => t.seen.status # "queued"
                         /\ up = "up" => t.seen.status # "running"
                         /\ performed[s.job] - t.seen.checkpoints \in {0, 1}
                         /\ s.op = "finish" => performed[s.job] = t.seen.checkpoints + Untold(s.outcome)
                         /\ s.op = "checkpoint" =>
                              performed[s.job] = t.seen.checkpoints + 1 /\ t.seen.status # "completed",
         \A t \in strays' : t.job = s.job /\ t.op # "created" => w.status # "queued",
         \A t \in strays' : t.job = s.job /\ t.op = "finish" =>
           /\ performed[s.job] = w.checkpoints + Untold(t.outcome)
           /\ \A r \in rest : performed[s.job] = r.seen.checkpoints + Untold(t.outcome),
         \A t \in strays' : t.job = s.job /\ t.op = "checkpoint" =>
           /\ performed[s.job] = w.checkpoints + 1 /\ w.status # "completed"
           /\ \A r \in rest : performed[s.job] = r.seen.checkpoints + 1 /\ r.seen.status # "completed"
  PROVE  Inv'
<1> DEFINE j == s.job
<1>1. /\ j \in Job /\ s.op \in StoreOps /\ s.outcome \in Outcome /\ record[j] \in Records /\ ~ Unthreaded(j)
      /\ up \in {"up", "stopping"} /\ record[j] # Absent /\ record[j].status # "absent"
      /\ w # Absent /\ w.status # "absent"
  BY StrayFacts, RecordFacts, NotAbsent
<1>2. /\ record' \in [Job -> Records \cup {Absent}] /\ record'[j] = w
      /\ \A k \in Job : k # j => record'[k] = record[k]
  BY <1>1 DEF Inv, TypeOK, Update
<1>3. /\ up' = up /\ queue' = queue /\ task' = task /\ request' = request /\ performed' = performed
  OBVIOUS
<1>4. \A t \in rest : /\ t.job = j /\ t.op = s.op /\ t.outcome = s.outcome /\ t.seen \in Records
                      /\ t.seen # Absent
  BY NotAbsent
<1>5. \A t \in strays' : t \in strays \/ t \in rest
  OBVIOUS
<1>6. \A t \in strays' : t.job # j => t \in strays
  BY <1>4
<1>7. \A k \in Job : Unthreaded(k) => Unthreaded(k)' /\ k # j
  BY <1>1, <1>6 DEF Unthreaded
<1>8. \A k \in Job : Unstarted(k) => Unstarted(k)' /\ k # j
  BY <1>2, <1>3, <1>7 DEF Unstarted
<1>9. task[j].pc \in Winding /\ ~ InLine(j)
  BY <1>1 DEF Inv, Threads_, Line, Unstarted
<1>10. TypeOK'
  <2>1. rest \subseteq [job : Job, op : StoreOps, outcome : Outcome, by_user : BOOLEAN, seen : Records \cup {Absent}]
    BY <1>1
  <2> QED
    BY <1>2, <1>3, <2>1 DEF Inv, TypeOK
<1>11. Values'
  BY <1>1, <1>2, <1>3, <1>4, <1>5 DEF Inv, Values
<1>12. Births'
  <2>1. \A k \in Job : record'[k] = Absent <=> record[k] = Absent
    BY <1>1, <1>2
  <2> QED
    BY <1>3, <1>7, <2>1 DEF Inv, Births, InQueue, Unasked
<1>13. Line'
  BY <1>3, <1>8 DEF Inv, Line, InLine, InQueue, Unasked
<1>14. Refusals'
  BY <1>3, <1>8 DEF Inv, Refusals, Values, InQueue
<1>15. Held'
  <2>1. ASSUME NEW k \in Job, record'[k].status = "queued"
        PROVE  record[k].status = "queued" /\ record'[k].checkpoints = record[k].checkpoints
    BY <1>2, <2>1
  <2> QED
    BY <1>3, <2>1 DEF Inv, Held, InLine, InQueue
<1>16. Process'
  BY <1>1, <1>3 DEF Inv, Process
<1>17. Execution'
  <2>1. ASSUME NEW k \in Job
        PROVE  /\ task[k].pc \in Executing => record'[k].status \in {"running", "cancelling"} /\ Unthreaded(k)'
               /\ task[k].pc = "cancelled" => record'[k].status \notin Unsettled
               /\ up = "up" /\ record'[k].status = "running" => task[k].pc \in Executing
    <3>1. CASE k = j
      <4>1. task[j].pc \notin Executing
        BY <1>9 DEF Winding, Executing
      <4>2. task[j].pc = "cancelled" => w.status \notin Unsettled
        BY <1>1 DEF Inv, Execution, Unsettled
      <4> QED
        BY <1>2, <3>1, <4>1, <4>2
    <3>2. CASE k # j
      BY <1>2, <1>7, <3>2 DEF Inv, Execution
    <3> QED
      BY <3>1, <3>2
  <2> QED
    BY <1>3, <2>1 DEF Execution
<1>18. Cancels'
  <2>1. ASSUME NEW c \in Client, request[c].op \in {"cancel", "overwrite"}
        PROVE  record'[request[c].job].status \notin {"queued", "running"} /\ up = "up"
    BY <1>1, <1>2, <2>1, RequestFacts DEF Inv, Cancels, Process
  <2> QED
    BY <1>3, <2>1 DEF Inv, Cancels
<1>19. Threads_'
  <2>1. ASSUME NEW t \in strays'
        PROVE  /\ task[t.job].pc \in Winding
               /\ t.op # "created" => record'[t.job].status \notin Unsettled /\ t.seen.status # "queued"
               /\ up = "up" => /\ t.op # "created"
                               /\ record'[t.job].status # "running" /\ t.seen.status # "running"
    <3>1. CASE t.job = j
      <4>1. t.op # "created" => w.status \notin Unsettled
        BY <1>1, <3>1 DEF Unsettled
      <4>2. /\ t.op # "created" => t.seen.status # "queued"
            /\ up = "up" => t.op # "created" /\ t.seen.status # "running"
        BY <1>4, <1>5 DEF Inv, Threads_
      <4> QED
        BY <1>2, <1>9, <3>1, <4>1, <4>2
    <3>2. CASE t.job # j
      <4>1. t \in strays /\ t.job \in Job
        BY <1>6, <3>2, StrayFacts
      <4> QED
        BY <1>2, <3>2, <4>1 DEF Inv, Threads_
    <3> QED
      BY <3>1, <3>2
  <2> QED
    BY <1>3, <2>1 DEF Threads_
<1>20. Counts'
  <2>1. ASSUME NEW k \in Job
        PROVE  /\ Lag(k, record[k].checkpoints)'
               /\ record'[k].status = "completed" => performed[k] = record'[k].checkpoints + Untold(record'[k].result)
               /\ task[k].pc \in Stepping => performed[k] = record'[k].checkpoints
               /\ task[k].pc = "checkpoint" => performed[k] = record'[k].checkpoints + 1
               /\ task[k].pc = "finish" => performed[k] = record'[k].checkpoints + Untold(task[k].outcome)
    <3>1. CASE k = j
      BY <1>2, <1>3, <1>9, <3>1 DEF Lag, Winding, Stepping
    <3>2. CASE k # j
      BY <1>2, <1>3, <3>2 DEF Inv, Counts, Lag
    <3> QED
      BY <3>1, <3>2
  <2>2. ASSUME NEW t \in strays'
        PROVE  /\ t.seen # Absent => Lag(t.job, t.seen.checkpoints)
               /\ t.op = "checkpoint" =>
                    /\ performed[t.job] = record'[t.job].checkpoints + 1 /\ record'[t.job].status # "completed"
                    /\ \A u \in strays' : u.job = t.job =>
                         /\ u.op = "checkpoint" => u = t
                         /\ u.op # "finish"
                         /\ u.seen # Absent => performed[t.job] = u.seen.checkpoints + 1 /\ u.seen.status # "completed"
               /\ t.op = "finish" =>
                    /\ performed[t.job] = record'[t.job].checkpoints + Untold(t.outcome)
                    /\ \A u \in strays' : u.job = t.job /\ u.seen # Absent =>
                         performed[t.job] = u.seen.checkpoints + Untold(t.outcome)
    <3>1. t.seen # Absent => Lag(t.job, t.seen.checkpoints)
      BY <1>4, <1>5 DEF Inv, Counts, Lag
    <3>2. CASE t.job # j
      <4>1. t \in strays /\ t.job \in Job /\ record'[t.job] = record[t.job]
        BY <1>2, <1>6, <3>2, StrayFacts
      <4>2. \A u \in strays' : u.job = t.job => u \in strays
        BY <1>6, <3>2
      <4> QED
        BY <3>1, <4>1, <4>2 DEF Inv, Counts
    <3>3. CASE t.job = j
      <4>1. ASSUME t.op = "checkpoint", NEW u \in strays', u.job = t.job
            PROVE  /\ u.op = "checkpoint" => u = t
                   /\ u.op # "finish"
                   /\ u.seen # Absent => performed[t.job] = u.seen.checkpoints + 1 /\ u.seen.status # "completed"
        <5>1. t \in rest => s.job = j /\ s.op = "checkpoint"
          BY <1>4, <4>1
        <5>2. CASE u \in rest
          <6>1. u.op = "checkpoint" => t = u
            <7>1. CASE t \in rest
              BY <5>2, <7>1
            <7>2. CASE t \in strays /\ u.op = "checkpoint"
              <8>1. s.op = "checkpoint"
                BY <1>4, <5>2, <7>2
              <8>2. t = s
                BY <3>3, <4>1, <7>2, <8>1 DEF Inv, Counts
              <8> QED
                BY <5>2, <8>2
            <7> QED
              BY <1>5, <7>1, <7>2
          <6>2. performed[j] = u.seen.checkpoints + 1 /\ u.seen.status # "completed"
            BY <3>3, <4>1, <5>2
          <6>3. u.op # "finish"
            BY <1>4, <1>5, <3>3, <4>1, <5>1, <5>2 DEF Inv, Counts
          <6> QED
            BY <3>3, <6>1, <6>2, <6>3
        <5>3. CASE u \in strays
          BY <1>4, <1>5, <3>3, <4>1, <5>1, <5>3 DEF Inv, Counts
        <5> QED
          BY <1>5, <5>2, <5>3
      <4>2. ASSUME t.op = "finish", NEW u \in strays', u.job = t.job, u.seen # Absent
            PROVE  performed[t.job] = u.seen.checkpoints + Untold(t.outcome)
        <5>1. PICK t1 \in strays : t1.job = j /\ t1.op = "finish" /\ t1.outcome = t.outcome
          BY <1>4, <1>5, <3>3, <4>2
        <5>2. CASE u \in rest
          BY <3>3, <4>2, <5>2
        <5>3. CASE u \in strays
          BY <3>3, <4>2, <5>1, <5>3 DEF Inv, Counts
        <5> QED
          BY <1>5, <5>2, <5>3
      <4> QED
        BY <1>2, <3>1, <3>3, <4>1, <4>2
    <3> QED
      BY <3>2, <3>3
  <2> QED
    BY <1>3, <2>1, <2>2 DEF Counts, Lag
<1>21. Parents'
  <2>1. \A p \in Job : Over(p) => Over(p)'
    BY <1>1, <1>2, <1>3 DEF Over, Unsettled, InLine, InQueue, Active
  <2>2. \A k \in Job : record'[k].parent = record[k].parent /\ record[k].parent \in Job \cup {0}
    BY <1>1, <1>2, RecordFacts
  <2>3. \A c \in Client : request[c].op = "resume" => request[c].job \in Job
    BY DEF Inv, Values
  <2> QED
    BY <1>3, <2>1, <2>2, <2>3 DEF Inv, Parents
<1>22. Heirs'
  <2>1. ASSUME NEW t \in strays', t.seen # Absent PROVE t.seen.parent = record'[t.job].parent
    <3>1. CASE t \in rest
      BY <1>2, <1>4, <3>1
    <3>2. CASE t \in strays
      <4>1. t.seen.parent = record[t.job].parent /\ t.job \in Job
        BY <2>1, <3>2, StrayFacts DEF Inv, Heirs
      <4> QED
        BY <1>2, <4>1
    <3> QED
      BY <1>5, <3>1, <3>2
  <2> QED
    BY <2>1 DEF Heirs
<1> QED
  BY <1>10, <1>11, <1>12, <1>13, <1>14, <1>15, <1>16, <1>17, <1>18, <1>19, <1>20, <1>21, <1>22 DEF Inv

LEMMA StrayReadsKeeps == ASSUME Inv, NEW s \in strays, StrayReads(s) PROVE Inv'
<1> DEFINE j == s.job
           w == record[j]
           u == [s EXCEPT !.seen = w]
<1>1. /\ j \in Job /\ s.op \in StoreOps /\ s.outcome \in Outcome /\ s.by_user \in BOOLEAN /\ w \in Records
      /\ s \in [job : Job, op : StoreOps, outcome : Outcome, by_user : BOOLEAN, seen : Records \cup {Absent}]
  BY StrayFacts DEF Inv, TypeOK
<1>2. /\ u.job = j /\ u.op = s.op /\ u.outcome = s.outcome /\ u.by_user = s.by_user /\ u.seen = w
      /\ u \in [job : {j}, op : {s.op}, outcome : {s.outcome}, by_user : BOOLEAN, seen : Records]
  BY <1>1
<1>3. /\ Update(j, w) /\ strays' = (strays \ {s}) \cup {u}
      /\ UNCHANGED <<up, queue, task, request, performed, stops>>
  <2>1. record' = [record EXCEPT ![j] = record[j]]
    BY <1>1 DEF StrayReads, Inv, TypeOK
  <2> QED
    BY <2>1 DEF StrayReads, Update
<1>4. \A t \in strays' : t \in strays \/ t = u
  BY <1>3
<1>5. /\ s.op # "created" => w.status # "queued"
      /\ w.status = "running" => up # "up"
  BY DEF Inv, Threads_, Unsettled
<1>6. /\ w.status = "completed" => performed[j] = w.checkpoints + Untold(w.result)
      /\ performed[j] - w.checkpoints \in {0, 1}
      /\ s.op = "finish" => performed[j] = w.checkpoints + Untold(s.outcome)
      /\ s.op = "checkpoint" => performed[j] = w.checkpoints + 1 /\ w.status # "completed"
  BY <1>1 DEF Inv, Counts, Lag
<1> HIDE DEF u
<1>7. \A t \in strays' : t.job = j /\ t.op # "created" => w.status # "queued"
  BY <1>2, <1>4, <1>5 DEF Inv, Threads_, Unsettled
<1>8. /\ \A t \in strays' : t.job = j /\ t.op = "finish" => performed[j] = w.checkpoints + Untold(t.outcome)
      /\ \A t \in strays' : t.job = j /\ t.op = "checkpoint" =>
           performed[j] = w.checkpoints + 1 /\ w.status # "completed"
  BY <1>2, <1>4, <1>6 DEF Inv, Counts
<1>9. PICK rest : rest = {u}
  OBVIOUS
<1>10. /\ \A t \in rest : t.seen.parent = w.parent
       /\ \A t \in rest : /\ s.op # "created" => t.seen.status # "queued"
                          /\ up = "up" => t.seen.status # "running"
                          /\ performed[s.job] - t.seen.checkpoints \in {0, 1}
                          /\ s.op = "finish" => performed[s.job] = t.seen.checkpoints + Untold(s.outcome)
                          /\ s.op = "checkpoint" =>
                               performed[s.job] = t.seen.checkpoints + 1 /\ t.seen.status # "completed"
  BY <1>2, <1>5, <1>6, <1>9
<1>11. /\ rest \subseteq [job : {s.job}, op : {s.op}, outcome : {s.outcome}, by_user : BOOLEAN, seen : Records]
       /\ \A t, r \in rest : t = r
       /\ strays' = (strays \ {s}) \cup rest
  BY <1>2, <1>3, <1>9
<1>12. /\ \A t \in strays' : t.job = s.job /\ t.op = "finish" =>
            /\ performed[s.job] = w.checkpoints + Untold(t.outcome)
            /\ \A r \in rest : performed[s.job] = r.seen.checkpoints + Untold(t.outcome)
       /\ \A t \in strays' : t.job = s.job /\ t.op = "checkpoint" =>
            /\ performed[s.job] = w.checkpoints + 1 /\ w.status # "completed"
            /\ \A r \in rest : performed[s.job] = r.seen.checkpoints + 1 /\ r.seen.status # "completed"
  BY <1>2, <1>8, <1>9
<1>13. PICK written : written = w
  OBVIOUS
<1>14. /\ written \in Records /\ Update(s.job, written) /\ written.parent = record[s.job].parent
       /\ written.status = "queued" =>
            record[s.job].status = "queued" /\ written.checkpoints = record[s.job].checkpoints
  BY <1>1, <1>3, <1>13
<1> HIDE DEF w
<1>15. UNCHANGED <<up, queue, task, request, performed, stops>>
  BY <1>3
<1>16. /\ written.status = "running" => up # "up"
       /\ written.status = "completed" => performed[s.job] = written.checkpoints + Untold(written.result)
       /\ performed[s.job] - written.checkpoints \in {0, 1}
       /\ \A t \in rest : t.seen.parent = written.parent
       /\ \A t \in strays' : t.job = s.job /\ t.op # "created" => written.status # "queued"
       /\ \A t \in strays' : t.job = s.job /\ t.op = "finish" =>
            /\ performed[s.job] = written.checkpoints + Untold(t.outcome)
            /\ \A r \in rest : performed[s.job] = r.seen.checkpoints + Untold(t.outcome)
       /\ \A t \in strays' : t.job = s.job /\ t.op = "checkpoint" =>
            /\ performed[s.job] = written.checkpoints + 1 /\ written.status # "completed"
            /\ \A r \in rest : performed[s.job] = r.seen.checkpoints + 1 /\ r.seen.status # "completed"
  BY <1>5, <1>6, <1>7, <1>10, <1>12, <1>13
<1> QED
  BY <1>10, <1>11, <1>14, <1>15, <1>16, ThreadKeeps

LEMMA StrayWritesKeeps == ASSUME Inv, NEW s \in strays, StrayWrites(s) PROVE Inv'
<1> DEFINE j == s.job
           held == s.op = "created" /\ s.seen.status # "queued"
           w == IF held THEN record[j] ELSE Written(s.op, s.seen, s)
<1>1. /\ j \in Job /\ s.op \in StoreOps /\ s.outcome \in Outcome /\ s.by_user \in BOOLEAN
      /\ record[j] \in Records /\ s.seen \in Records
      /\ s.op = "finish" => s.outcome \notin {"go_on", "looping"}
  BY StrayFacts DEF StrayWrites, Inv, Values
<1>2. /\ Update(j, w) /\ strays' = (strays \ {s}) \cup {} /\ s.seen # Absent
      /\ UNCHANGED <<up, queue, task, request, performed, stops>>
  BY DEF StrayWrites
<1>3. /\ s.op # "created" => s.seen.status # "queued"
      /\ up = "up" => s.op # "created" /\ s.seen.status # "running" /\ record[j].status # "running"
      /\ s.seen.parent = record[j].parent
  BY <1>2 DEF Inv, Threads_, Heirs
<1>4. /\ performed[j] \in Nat /\ s.seen.checkpoints \in Nat /\ record[j].checkpoints \in Nat
      /\ performed[j] - s.seen.checkpoints \in {0, 1}
      /\ s.op = "finish" => performed[j] = s.seen.checkpoints + Untold(s.outcome)
      /\ s.op = "checkpoint" => performed[j] = s.seen.checkpoints + 1 /\ s.seen.status # "completed"
      /\ performed[j] - record[j].checkpoints \in {0, 1}
      /\ record[j].status = "completed" => performed[j] = record[j].checkpoints + Untold(record[j].result)
  <2>1. performed[j] \in Nat /\ s.seen.checkpoints \in Nat /\ record[j].checkpoints \in Nat
    BY <1>1, <1>2, NotAbsent DEF Inv, TypeOK
  <2>2. /\ s.seen # Absent => Lag(j, s.seen.checkpoints)
        /\ s.op = "finish" /\ s.seen # Absent => performed[j] = s.seen.checkpoints + Untold(s.outcome)
        /\ s.op = "checkpoint" /\ s.seen # Absent =>
             performed[j] = s.seen.checkpoints + 1 /\ s.seen.status # "completed"
    BY DEF Inv, Counts
  <2>3. Lag(j, record[j].checkpoints) /\ (record[j].status = "completed" => performed[j] = record[j].checkpoints + Untold(record[j].result))
    BY <1>1 DEF Inv, Counts
  <2> QED
    BY <1>2, <2>1, <2>2, <2>3 DEF Lag
<1>5. \A t \in strays' : t \in strays /\ t # s
  BY <1>2
<1>6. ASSUME NEW t \in strays', t.job = j
      PROVE  /\ t.op # "created" => record[j].status # "queued"
             /\ t.op = "finish" => /\ performed[j] = record[j].checkpoints + Untold(t.outcome)
                                   /\ performed[j] = s.seen.checkpoints + Untold(t.outcome) /\ s.op # "checkpoint"
             /\ t.op = "checkpoint" => /\ performed[j] = record[j].checkpoints + 1 /\ record[j].status # "completed"
                                       /\ performed[j] = s.seen.checkpoints + 1 /\ s.seen.status # "completed"
                                       /\ s.op \notin {"checkpoint", "finish"}
  <2>1. t \in strays /\ t # s
    BY <1>5
  <2>2. t.op # "created" => record[j].status # "queued"
    BY <1>6, <2>1 DEF Inv, Threads_, Unsettled
  <2>3. t.op = "checkpoint" => /\ performed[j] = record[j].checkpoints + 1 /\ record[j].status # "completed"
                               /\ performed[j] = s.seen.checkpoints + 1 /\ s.seen.status # "completed"
                               /\ s.op \notin {"checkpoint", "finish"}
    BY <1>2, <1>6, <2>1 DEF Inv, Counts
  <2>4. t.op = "finish" => /\ performed[j] = record[j].checkpoints + Untold(t.outcome)
                           /\ performed[j] = s.seen.checkpoints + Untold(t.outcome)
    BY <1>2, <1>6, <2>1 DEF Inv, Counts
  <2>5. s.op = "checkpoint" => t.op # "finish"
    BY <1>6, <2>1 DEF Inv, Counts
  <2> QED
    BY <1>4, <2>2, <2>3, <2>4, <2>5
<1>7. /\ w \in Records /\ w.parent = record[j].parent
      /\ w.status = "queued" => record[j].status = "queued" /\ w.checkpoints = record[j].checkpoints
      /\ w.status = "running" => up # "up"
      /\ w.status = "completed" => performed[j] = w.checkpoints + Untold(w.result)
      /\ performed[j] - w.checkpoints \in {0, 1}
      /\ \A t \in strays' : t.job = j =>
           /\ t.op # "created" => w.status # "queued"
           /\ t.op = "finish" => performed[j] = w.checkpoints + Untold(t.outcome)
           /\ t.op = "checkpoint" => performed[j] = w.checkpoints + 1 /\ w.status # "completed"
  <2>1. CASE held
    <3>1. w = record[j]
      BY <2>1
    <3> HIDE DEF w
    <3> QED
      BY <1>1, <1>3, <1>4, <1>6, <2>1, <3>1
  <2>2. CASE ~ held
    <3>1. w = Written(s.op, s.seen, s)
      BY <2>2
    <3> HIDE DEF w
    <3>2. /\ w \in Records /\ w.parent = s.seen.parent
          /\ w.checkpoints = IF s.op = "checkpoint" THEN s.seen.checkpoints + 1 ELSE s.seen.checkpoints
          /\ w.status = "queued" => s.op = "checkpoint" /\ s.seen.status = "queued"
          /\ w.status = "running" => \/ s.op \in {"created", "checkpoint"} /\ s.seen.status = "running"
                                     \/ s.op = "created" /\ s.seen.status = "queued"
          /\ w.status = "completed" => \/ s.op = "finish" /\ w.result = s.outcome
                                       \/ s.op \in {"created", "checkpoint"} /\ s.seen.status = "completed"
      BY <1>1, <3>1, WrittenType
    <3>3. w.status # "queued"
      BY <1>3, <3>2
    <3>4. w.status = "running" => up # "up"
      BY <1>3, <3>2
    <3>5. w.status = "completed" => s.op = "finish" /\ w.result = s.outcome
      BY <1>4, <2>2, <3>2
    <3>6. /\ performed[j] - w.checkpoints \in {0, 1}
          /\ s.op = "finish" => performed[j] = w.checkpoints + Untold(s.outcome)
      BY <1>4, <3>2
    <3>7. \A t \in strays' : t.job = j =>
            /\ t.op = "finish" => performed[j] = w.checkpoints + Untold(t.outcome)
            /\ t.op = "checkpoint" => performed[j] = w.checkpoints + 1 /\ w.status # "completed"
      BY <1>6, <3>2, <3>5
    <3> QED
      BY <1>3, <3>2, <3>3, <3>4, <3>5, <3>6, <3>7
  <2> QED
    BY <2>1, <2>2
<1>8. PICK written : written = w
  OBVIOUS
<1>9. PICK rest : rest = {}
  OBVIOUS
<1>10. /\ Update(s.job, written) /\ written \in Records /\ strays' = (strays \ {s}) \cup rest
       /\ rest \subseteq [job : {s.job}, op : {s.op}, outcome : {s.outcome}, by_user : BOOLEAN, seen : Records]
       /\ \A t, r \in rest : t = r
       /\ \A t \in rest : FALSE
  BY <1>2, <1>7, <1>8, <1>9
<1> HIDE DEF w
<1>11. /\ written.parent = record[s.job].parent
       /\ written.status = "queued" => record[s.job].status = "queued" /\ written.checkpoints = record[s.job].checkpoints
       /\ written.status = "running" => up # "up"
       /\ written.status = "completed" => performed[s.job] = written.checkpoints + Untold(written.result)
       /\ performed[s.job] - written.checkpoints \in {0, 1}
       /\ \A t \in strays' : t.job = s.job /\ t.op # "created" => written.status # "queued"
       /\ \A t \in strays' : t.job = s.job /\ t.op = "finish" =>
            /\ performed[s.job] = written.checkpoints + Untold(t.outcome)
            /\ \A r \in rest : performed[s.job] = r.seen.checkpoints + Untold(t.outcome)
       /\ \A t \in strays' : t.job = s.job /\ t.op = "checkpoint" =>
            /\ performed[s.job] = written.checkpoints + 1 /\ written.status # "completed"
            /\ \A r \in rest : performed[s.job] = r.seen.checkpoints + 1 /\ r.seen.status # "completed"
  BY <1>7, <1>8, <1>10
<1>12. UNCHANGED <<up, queue, task, request, performed, stops>>
  BY <1>2
<1> QED
  BY <1>10, <1>11, <1>12, ThreadKeeps

-----------------------------------------------------------------------------
(* The controller process.                                                  *)

LEMMA FirstQueuedFacts ==
  ASSUME Inv, NEW q \in FirstQueued
  PROVE  /\ q \in Seq(Job) /\ Len(q) <= QueueMax
         /\ \A i \in 1 .. Len(q) : q[i] \in QueuedJobs
         /\ \A i, h \in 1 .. Len(q) : q[i] = q[h] => i = h
<1> DEFINE places == IF Cardinality(QueuedJobs) < QueueMax THEN Cardinality(QueuedJobs) ELSE QueueMax
<1>1. QueuedJobs \in SUBSET (1 .. MaxJobs) /\ IsFiniteSet(1 .. MaxJobs)
  BY ConstantAssumption, FS_Interval DEF QueuedJobs, Job
<1>2. IsFiniteSet(QueuedJobs)
  BY <1>1, FS_Subset
<1>3. Cardinality(QueuedJobs) \in Nat
  BY <1>2, FS_CardinalityType
<1>4. places \in Nat /\ places <= QueueMax
  BY <1>3, ConstantAssumption
<1>5. /\ q \in [1 .. places -> QueuedJobs]
      /\ \A i \in 1 .. places : {k \in QueuedJobs : k < q[i]} = {q[h] : h \in 1 .. i - 1}
  BY DEF FirstQueued
<1> HIDE DEF places
<1>6. q \in [1 .. places -> Job]
  BY <1>1, <1>5 DEF Job
<1>7. q \in Seq(Job) /\ Len(q) = places
  BY <1>4, <1>6, SeqDef, LenProperties
<1>8. ASSUME NEW i \in 1 .. places, NEW h \in 1 .. places, h < i PROVE q[h] < q[i]
  <2>1. h \in 1 .. i - 1
    BY <1>4, <1>8
  <2>2. q[h] \in {k \in QueuedJobs : k < q[i]}
    BY <1>5, <2>1
  <2> QED
    BY <2>2
<1>9. ASSUME NEW i \in 1 .. places, NEW h \in 1 .. places, q[i] = q[h] PROVE i = h
  <2>1. q[i] \in Nat /\ q[h] \in Nat
    <3>1. q[i] \in 1 .. MaxJobs /\ q[h] \in 1 .. MaxJobs
      BY <1>6 DEF Job
    <3> QED
      BY <3>1
  <2>2. ~ (h < i) /\ ~ (i < h)
    BY <1>8, <1>9, <2>1
  <2> QED
    BY <1>4, <2>2
<1> QED
  BY <1>4, <1>5, <1>7, <1>9

LEMMA StartupKeeps == ASSUME Inv, Startup PROVE Inv'
<1>1. /\ up = "down" /\ queue' \in FirstQueued /\ up' \in {"up", "starting"}
      /\ record' = [k \in Job |-> IF record[k].status = "running"
                                  THEN With(record[k], "interrupted", record[k].result) ELSE record[k]]
      /\ up' = "up" => \A k \in QueuedJobs : \E i \in 1 .. Len(queue') : queue'[i] = k
      /\ UNCHANGED <<task, strays, request, performed, stops>>
  BY DEF Startup
<1>2. /\ strays = {} /\ \A k \in Job : task[k] = NoTask
      /\ \A c \in Client : request[c] = Idle
  BY <1>1 DEF Inv, Process
<1>3. /\ NoTask.pc = "none" /\ Idle.op = "idle" /\ Idle.job = 0 /\ 0 \notin Job
  BY TaskType, RequestFacts
<1>4. /\ task' = task /\ strays' = {} /\ request' = request /\ performed' = performed /\ stops' = stops
  BY <1>1, <1>2
<1>5. /\ queue' \in Seq(Job) /\ Len(queue') <= QueueMax
      /\ \A i \in 1 .. Len(queue') : queue'[i] \in QueuedJobs
      /\ \A i, h \in 1 .. Len(queue') : queue'[i] = queue'[h] => i = h
  BY <1>1, FirstQueuedFacts
<1>6. ASSUME NEW k \in Job
      PROVE  /\ record'[k] \in Records \cup {Absent} /\ (record'[k] = Absent <=> record[k] = Absent)
             /\ record'[k].status = record[k].status \/ (record'[k].status = "interrupted" /\ record[k].status = "running")
             /\ record'[k].status # "running"
             /\ record'[k].checkpoints = record[k].checkpoints /\ record'[k].parent = record[k].parent
             /\ record'[k].status = "completed" => record'[k] = record[k]
  <2>1. CASE record[k].status = "running"
    <3>1. record[k] \in Records /\ record[k].result \in Results
      BY <2>1, RecordFacts
    <3>2. record'[k] = With(record[k], "interrupted", record[k].result)
      BY <1>1, <2>1
    <3>3. /\ record'[k] \in Records /\ record'[k].status = "interrupted"
          /\ record'[k].checkpoints = record[k].checkpoints /\ record'[k].parent = record[k].parent
      BY <3>1, <3>2, WithType DEF Status, Results
    <3> QED
      BY <2>1, <3>1, <3>3, NotAbsent
  <2>2. CASE record[k].status # "running"
    <3>1. record'[k] = record[k]
      BY <1>1, <2>2
    <3>2. record[k] \in Records \cup {Absent}
      BY RecordFacts
    <3> QED
      BY <2>2, <3>1, <3>2
  <2> QED
    BY <2>1, <2>2
<1>7. \A k \in Job : InQueue(k)' => record[k].status = "queued" /\ record[k] # Absent
  <2>1. \A k \in QueuedJobs : record[k].status = "queued" /\ record[k] # Absent
    BY RecordFacts DEF QueuedJobs, Absent
  <2> QED
    BY <1>5, <2>1 DEF InQueue
<1>8. \A k \in Job : InLine(k)' <=> InQueue(k)'
  BY <1>2, <1>3, <1>4 DEF InLine
<1>9. TypeOK'
  <2>1. record' \in [Job -> Records \cup {Absent}]
    BY <1>1, <1>6
  <2> QED
    BY <1>1, <1>4, <1>5, <2>1 DEF Inv, TypeOK
<1>10. Values'
  BY <1>2, <1>3, <1>4 DEF Values
<1>11. Births'
  <2>1. \A i, k \in Job : k < i /\ record'[i] # Absent => record'[k] # Absent
    BY <1>6 DEF Inv, Births
  <2>2. \A k \in Job : record'[k] = Absent => ~ InQueue(k)' /\ performed[k] = 0
    BY <1>6, <1>7 DEF Inv, Births
  <2> QED
    BY <1>2, <1>3, <1>4, <2>1, <2>2 DEF Births, Unthreaded, Unasked
<1>12. Line'
  <2>1. ASSUME NEW k \in Job, InQueue(k)' PROVE Unstarted(k)' /\ Unasked(k)'
    <3>1. record[k].status = "queued" /\ record[k].checkpoints = 0 /\ performed[k] = 0
      BY <1>7, <2>1 DEF Inv, Held
    <3>2. record'[k].status = "queued" /\ record'[k].checkpoints = 0
      BY <1>6, <3>1
    <3> QED
      BY <1>2, <1>3, <1>4, <3>1, <3>2 DEF Unstarted, Unthreaded, Unasked
  <2> QED
    BY <1>2, <1>4, <1>5, <1>8, <2>1 DEF Line
<1>13. Refusals' /\ Cancels'
  BY <1>2, <1>3, <1>4 DEF Refusals, Cancels
<1>14. Held'
  <2>1. ASSUME NEW k \in Job, record'[k].status = "queued"
        PROVE  /\ record'[k].checkpoints = 0 /\ performed[k] = 0
               /\ up' = "up" => InQueue(k)'
    <3>1. record[k].status = "queued"
      BY <1>6, <2>1
    <3>2. k \in QueuedJobs
      BY <3>1 DEF QueuedJobs
    <3> QED
      BY <1>1, <1>6, <3>1, <3>2 DEF Inv, Held, InQueue
  <2> QED
    BY <1>4, <1>8, <2>1 DEF Held
<1>15. Process'
  BY <1>1, <1>2, <1>4 DEF Process
<1>16. Execution'
  BY <1>2, <1>3, <1>4, <1>6 DEF Execution, Executing
<1>17. Threads_' /\ Heirs'
  BY <1>4 DEF Threads_, Heirs
<1>18. Counts'
  BY <1>2, <1>4, <1>6, CountsFrame DEF Inv, Stepping
<1>19. Parents'
  <2>1. \A p \in Job : Over(p) => Over(p)'
    BY <1>2, <1>3, <1>4, <1>6, <1>7, <1>8 DEF Over, Unsettled, Active
  <2>2. \A k \in Job : record[k].parent \in Job \cup {0}
    BY RecordFacts
  <2> QED
    BY <1>2, <1>3, <1>4, <1>6, <2>1, <2>2 DEF Inv, Parents
<1> QED
  BY <1>9, <1>10, <1>11, <1>12, <1>13, <1>14, <1>15, <1>16, <1>17, <1>18, <1>19 DEF Inv

LEMMA ForgottenKeeps == ASSUME Inv, Forgotten, stops' \in 0 .. MaxStops PROVE Inv'
<1>1. /\ up' = "down" /\ queue' = <<>> /\ strays' = {} /\ record' = record /\ performed' = performed
      /\ task' = [k \in Job |-> NoTask] /\ request' = [c \in Client |-> Idle]
  BY DEF Forgotten
<1>2. /\ NoTask \in Tasks_ /\ NoTask.pc = "none" /\ Idle.op = "idle" /\ Idle.job = 0 /\ 0 \notin Job
  BY TaskType, RequestFacts
<1>3. \A k \in Job : ~ InLine(k)' /\ ~ InQueue(k)'
  BY <1>1, <1>2 DEF InLine, InQueue
<1>4. TypeOK'
  <2>1. Idle \in [op : {"idle", "full", "resume", "cancel", "overwrite"}, job : 0 .. MaxJobs, steps : Nat]
    BY ConstantAssumption DEF Idle
  <2>2. queue' \in Seq(Job) /\ Len(queue') <= QueueMax
    BY <1>1, ConstantAssumption
  <2> QED
    BY <1>1, <1>2, <2>1, <2>2 DEF Inv, TypeOK
<1>5. Values' /\ Refusals' /\ Cancels' /\ Threads_' /\ Heirs'
  BY <1>1, <1>2 DEF Values, Refusals, Cancels, Threads_, Heirs
<1>6. Births'
  BY <1>1, <1>2, <1>3 DEF Inv, Births, Unthreaded, Unasked
<1>7. Line'
  <2>1. Len(queue') = 0
    BY <1>1
  <2> QED
    BY <1>3, <2>1 DEF Line
<1>8. Held'
  BY <1>1 DEF Inv, Held
<1>9. Process' /\ Execution'
  BY <1>1, <1>2 DEF Process, Execution, Executing
<1>10. Counts'
  BY <1>1, <1>2 DEF Inv, Counts, Lag, Stepping
<1>11. Parents'
  <2>1. \A p \in Job : Over(p) => Over(p)'
    BY <1>1, <1>2, <1>3 DEF Over, Active
  <2>2. \A k \in Job : record[k].parent \in Job \cup {0}
    BY RecordFacts
  <2> QED
    BY <1>1, <1>2, <2>1, <2>2 DEF Inv, Parents
<1> QED
  BY <1>4, <1>5, <1>6, <1>7, <1>8, <1>9, <1>10, <1>11 DEF Inv

LEMMA InitInv == Init => Inv
<1> SUFFICES ASSUME Init PROVE Inv
  OBVIOUS
<1>1. /\ up = "down" /\ queue = <<>> /\ strays = {} /\ stops = 0
      /\ record = [k \in Job |-> Absent] /\ performed = [k \in Job |-> 0]
      /\ task = [k \in Job |-> NoTask] /\ request = [c \in Client |-> Idle]
  BY DEF Init
<1>2. /\ NoTask \in Tasks_ /\ NoTask.pc = "none"
      /\ Idle.op = "idle" /\ Idle.job = 0 /\ 0 \notin Job
      /\ Absent.status = "absent" /\ Absent.checkpoints = 0 /\ Absent.parent = 0
  BY TaskType DEF Idle, Job, Absent
<1>3. \A k \in Job : ~ InLine(k) /\ ~ InQueue(k)
  BY <1>1, <1>2 DEF InLine, InQueue
<1>4. TypeOK
  <2>1. Idle \in [op : {"idle", "full", "resume", "cancel", "overwrite"}, job : 0 .. MaxJobs, steps : Nat]
    BY ConstantAssumption DEF Idle
  <2>2. queue \in Seq(Job) /\ Len(queue) <= QueueMax /\ stops \in 0 .. MaxStops
    BY <1>1, ConstantAssumption
  <2> QED
    BY <1>1, <1>2, <2>1, <2>2 DEF TypeOK
<1>5. Values /\ Refusals /\ Cancels /\ Threads_ /\ Heirs
  BY <1>1, <1>2 DEF Values, Refusals, Cancels, Threads_, Heirs
<1>6. Births
  BY <1>1, <1>2, <1>3 DEF Births, Unthreaded, Unasked
<1>7. Line
  <2>1. Len(queue) = 0
    BY <1>1
  <2> QED
    BY <1>3, <2>1 DEF Line
<1>8. Held /\ Process /\ Execution
  BY <1>1, <1>2 DEF Held, Process, Execution, Executing
<1>9. Counts
  BY <1>1, <1>2 DEF Counts, Lag
<1>10. Parents
  BY <1>1, <1>2 DEF Parents
<1> QED
  BY <1>4, <1>5, <1>6, <1>7, <1>8, <1>9, <1>10 DEF Inv

LEMMA StepKeeps == Inv /\ [Next]_vars => Inv'
<1> SUFFICES ASSUME Inv, [Next]_vars PROVE Inv'
  OBVIOUS
<1>1. ASSUME NEW c \in Client, Clients(c) \/ Handlers(c) PROVE Inv'
  BY <1>1, EnqueueNewKeeps, ResumeReadKeeps, CancelRunningKeeps, CancelAgainKeeps, RefuseKeeps,
     ResumeEnqueueKeeps, CancelSignalKeeps, CancelOverwriteKeeps DEF Clients, Handlers
<1>2. ASSUME NEW j \in Job, Tasks(j) PROVE Inv'
  BY <1>2, TaskStartKeeps, TaskBeginKeeps, StepReturnsKeeps, StepRaisesKeeps, TaskCheckpointKeeps, GuardTakesOverKeeps,
     TaskFinishKeeps, WorkerForgetKeeps DEF Tasks
<1>3. CASE Threads
  BY <1>3, StrayReadsKeeps, StrayWritesKeeps DEF Threads
<1>4. CASE Stopped
  <2>1. Forgotten /\ stops' = stops
    BY <1>4 DEF Stopped
  <2> QED
    BY <2>1, ForgottenKeeps DEF Inv, TypeOK
<1>5. CASE Crash
  <2>1. Forgotten /\ stops < MaxStops /\ stops' = stops + 1
    BY <1>5 DEF Crash
  <2>2. stops' \in 0 .. MaxStops
    BY <2>1, ConstantAssumption DEF Inv, TypeOK
  <2> QED
    BY <2>1, <2>2, ForgottenKeeps
<1>6. CASE UNCHANGED vars
  BY <1>6, NothingKeeps
<1> QED
  BY <1>1, <1>2, <1>3, <1>4, <1>5, <1>6, DiscardKeeps, CancelQueuedKeeps, WorkerTakeKeeps,
     StartupKeeps, ShutdownKeeps DEF Next

LEMMA Invariant == Spec => []Inv
  BY InitInv, StepKeeps, PTL DEF Spec

-----------------------------------------------------------------------------
(* What the invariant gives.                                                *)

(* THEOREM Types: for any number of jobs, requests, workers, places and     *)
(* stops, the job files and the queue keep their types: a store operation   *)
(* finds a record it can read whatever thread wrote it last.                *)
THEOREM Types == Spec => []TypeOK
<1>1. Inv => TypeOK
  BY DEF Inv
<1> QED
  BY <1>1, Invariant, PTL

(* THEOREM NothingLost: while the controller is up no queued job is ever    *)
(* lost: _enqueue, startup, the worker that takes a job and every handler   *)
(* that rewrites its record leave it in exactly one place.                  *)
THEOREM NothingLost == Spec => []NoLostJob
<1>1. ASSUME Inv PROVE NoLostJob
  <2>1. ASSUME up = "up", NEW j \in Job, record[j].status = "queued",
               ~ \E c \in Client : request[c].op = "full" /\ request[c].job = j
        PROVE  \/ Cardinality({i \in 1 .. Len(queue) : queue[i] = j}) = 1 /\ task[j] = NoTask
               \/ task[j].pc = "created" /\ \A i \in 1 .. Len(queue) : queue[i] # j
    <3>1. InLine(j)
      BY <1>1, <2>1 DEF Inv, Held
    <3>2. CASE InQueue(j)
      <4>1. PICK i \in 1 .. Len(queue) : queue[i] = j
        BY <3>2 DEF InQueue
      <4>2. {h \in 1 .. Len(queue) : queue[h] = j} = {i}
        BY <1>1, <4>1 DEF Inv, Line
      <4>3. Cardinality({i}) = 1
        BY FS_Singleton
      <4>4. task[j] = NoTask
        BY <1>1, <3>2 DEF Inv, Line
      <4> QED
        BY <4>2, <4>3, <4>4
    <3>3. CASE ~ InQueue(j)
      BY <3>1, <3>3 DEF InLine, InQueue
    <3> QED
      BY <3>2, <3>3
  <2> QED
    BY <2>1 DEF NoLostJob, QueuedJobs
<1> QED
  BY <1>1, Invariant, PTL

(* THEOREM RunningHasATask: while the controller is up, whatever was        *)
(* cancelled, resumed or restarted before, a job whose record says running  *)
(* has a task of _process_job that will end it.                             *)
THEOREM RunningHasATask == Spec => []RunningIsExecuted
<1>1. Inv => RunningIsExecuted
  BY DEF Inv, Execution, RunningIsExecuted
<1> QED
  BY <1>1, Invariant, PTL

(* THEOREM CheckpointsFollowSteps: of any number of completed steps at most *)
(* the last one has no checkpoint, although a thread that a cancelled task  *)
(* left behind may write over what another one wrote.                       *)
THEOREM CheckpointsFollowSteps == Spec => []StepsRecorded
<1>1. Inv => StepsRecorded
  BY DEF Inv, Counts, Lag, StepsRecorded
<1> QED
  BY <1>1, Invariant, PTL

(* THEOREM NeverTwoDrivers: a job and the one that resumes it never drive   *)
(* the browser session at the same time, in any chain of resumptions.       *)
THEOREM NeverTwoDrivers == Spec => []ResumedAlone
<1>1. ASSUME Inv PROVE ResumedAlone
  BY <1>1 DEF Inv, Parents, Over, ResumedAlone
<1> QED
  BY <1>1, Invariant, PTL

-----------------------------------------------------------------------------
(* The queue implements JobLifecycle.                                       *)

(* No more tasks than workers.                                              *)
Crew == Cardinality(Live) <= Workers

LEMMA LiveFinite == IsFiniteSet(Live) /\ Cardinality(Live) \in Nat
<1>1. Live \in SUBSET (1 .. MaxJobs) /\ IsFiniteSet(1 .. MaxJobs)
  BY ConstantAssumption, FS_Interval DEF Live, Job
<1> QED
  BY <1>1, FS_Subset, FS_CardinalityType

LEMMA CrewFrame ==
  ASSUME Crew, \A j \in Job : task'[j].pc # "none" => task[j].pc # "none"
  PROVE  Crew'
<1>1. Live' \in SUBSET Live
  BY DEF Live
<1>2. Cardinality(Live') <= Cardinality(Live) /\ Cardinality(Live') \in Nat
  BY <1>1, LiveFinite, FS_Subset, FS_CardinalityType
<1> QED
  BY <1>2, LiveFinite, ConstantAssumption DEF Crew

LEMMA CrewTakes == ASSUME Inv, Crew, WorkerTake PROVE Crew'
<1>1. /\ Cardinality(Live) < Workers
      /\ task' = [task EXCEPT ![Head(queue)] = Bare("created")]
  BY DEF WorkerTake, Become
<1> DEFINE S == Live \cup {Head(queue)}
<1>2. Live' \in SUBSET S
  BY <1>1 DEF Inv, TypeOK, Live
<1>3. IsFiniteSet(S) /\ Cardinality(S) <= Cardinality(Live) + 1 /\ Cardinality(S) \in Nat
  BY LiveFinite, FS_AddElement, FS_CardinalityType
<1>4. Cardinality(Live') <= Cardinality(S) /\ Cardinality(Live') \in Nat
  BY <1>2, <1>3, FS_Subset, FS_CardinalityType
<1> QED
  BY <1>1, <1>3, <1>4, LiveFinite, ConstantAssumption DEF Crew

(* A task that exists was there, but for the one that a worker takes.       *)
LEMMA CrewKept == ASSUME Inv, Crew, [Next]_vars PROVE Crew'
<1>1. \A j \in Job : /\ NoTask.pc = "none" /\ task \in [Job -> Tasks_]
                     /\ \A k \in Job : \A t : Become(k, t) /\ task[k].pc # "none" /\ task'[j].pc # "none" => task[j].pc # "none"
  BY TaskType DEF Inv, TypeOK, Become
<1>2. CASE WorkerTake
  BY <1>2, CrewTakes
<1>3. ASSUME NEW S \in SUBSET Live, NEW by_user, Cut(S, by_user) PROVE Crew'
  <2>1. \A j \in Job : task'[j].pc # "none" => task[j].pc # "none"
    BY <1>3 DEF Cut, Live
  <2> QED
    BY <2>1, CrewFrame
<1>4. ASSUME task' = task PROVE Crew'
  BY <1>4, CrewFrame
<1>5. ASSUME NEW c \in Client, Clients(c) \/ Handlers(c) PROVE Crew'
  <2>1. ASSUME NEW j \in Job, Signal(c, j) PROVE Crew'
    BY <1>3, <1>4, <2>1 DEF Signal
  <2>2. CASE CancelSignal(c)
    <3>1. request[c].job \in Job /\ Signal(c, request[c].job)
      BY <2>2, RequestFacts DEF CancelSignal
    <3>2. PICK j \in Job : j = request[c].job /\ Signal(c, j)
      BY <3>1
    <3> QED
      BY <2>1, <3>2
  <2> QED
    BY <1>4, <1>5, <2>1, <2>2 DEF Clients, Handlers, EnqueueNew, Enqueue, ResumeRead, CancelRunning,
       CancelAgain, Refuse, ResumeEnqueue, CancelOverwrite
<1>6. ASSUME NEW j \in Job, Tasks(j) PROVE Crew'
  <2>1. task[j].pc # "none" /\ \E t : Become(j, t)
    BY <1>6 DEF Tasks, TaskStart, TaskBegin, StepReturns, StepRaises, TaskCheckpoint, GuardTakesOver, TaskFinish,
       WorkerForget, Runs
  <2> QED
    BY <1>1, <2>1, CrewFrame
<1>7. CASE Stopped \/ Crash
  <2>1. \A j \in Job : task'[j].pc = "none"
    BY <1>1, <1>7 DEF Stopped, Crash, Forgotten
  <2> QED
    BY <2>1, CrewFrame
<1>8. CASE Shutdown
  BY <1>3, <1>8 DEF Shutdown
<1>9. CASE Threads \/ Startup \/ UNCHANGED vars
  BY <1>4, <1>9 DEF Threads, StrayReads, StrayWrites, Startup, vars
<1>10. ASSUME NEW j \in Job, Discard(j) \/ CancelQueued(j) PROVE Crew'
  BY <1>4, <1>10 DEF Discard, CancelQueued
<1> QED
  BY <1>2, <1>5, <1>6, <1>7, <1>8, <1>9, <1>10 DEF Next

LEMMA PhaseFacts ==
  ASSUME Inv, NEW j \in Job
  PROVE  /\ record[j] = Absent => PhaseOf(j) = "absent" /\ ~ Active(j)
         /\ record[j].status = "queued" => PhaseOf(j) = "waiting" /\ record[j] # Absent /\ ~ Active(j)
         /\ Active(j) => PhaseOf(j) = "working"
         /\ record[j] # Absent /\ record[j].status # "queued" /\ ~ Active(j) => PhaseOf(j) = "over"
<1>1. Active(j) => record[j].status \in {"running", "cancelling"}
  BY DEF Inv, Execution, Active, Executing
<1>2. Absent.status = "absent"
  BY DEF Absent
<1> QED
  BY <1>1, <1>2 DEF PhaseOf

LEMMA PhaseFactsNext ==
  ASSUME Inv', NEW j \in Job
  PROVE  /\ record'[j] = Absent => PhaseOf(j)' = "absent" /\ ~ Active(j)'
         /\ record'[j].status = "queued" => PhaseOf(j)' = "waiting" /\ record'[j] # Absent /\ ~ Active(j)'
         /\ Active(j)' => PhaseOf(j)' = "working"
         /\ record'[j] # Absent /\ record'[j].status # "queued" /\ ~ Active(j)' => PhaseOf(j)' = "over"
<1>1. Active(j)' => record'[j].status \in {"running", "cancelling"}
  BY DEF Inv, Execution, Active, Executing
<1>2. Absent.status = "absent"
  BY DEF Absent
<1> QED
  BY <1>1, <1>2 DEF PhaseOf

LEMMA SameCardinality == ASSUME NEW S PROVE Lifecycle!Cardinality(S) = Cardinality(S)
  BY DEF Lifecycle!Cardinality, Cardinality

(* Tasks stop being at work, several at once.                               *)
LEMMA EndsImplement ==
  ASSUME Inv, Inv',
         \A k \in Job : /\ record'[k] = Absent <=> record[k] = Absent
                        /\ record'[k].status = "queued" <=> record[k].status = "queued"
                        /\ Active(k)' => Active(k)
  PROVE  [Lifecycle!Next]_Phases
<1> DEFINE S == {k \in Job : Active(k) /\ ~ Active(k)'}
<1>1. ASSUME NEW k \in Job PROVE PhaseOf(k)' = IF k \in S THEN "over" ELSE PhaseOf(k)
  <2>1. /\ record[k] = Absent => PhaseOf(k) = "absent" /\ ~ Active(k)
        /\ record[k].status = "queued" => PhaseOf(k) = "waiting" /\ record[k] # Absent /\ ~ Active(k)
        /\ Active(k) => PhaseOf(k) = "working"
        /\ record[k] # Absent /\ record[k].status # "queued" /\ ~ Active(k) => PhaseOf(k) = "over"
    BY PhaseFacts
  <2>2. /\ record'[k] = Absent => PhaseOf(k)' = "absent" /\ ~ Active(k)'
        /\ record'[k].status = "queued" => PhaseOf(k)' = "waiting" /\ record'[k] # Absent /\ ~ Active(k)'
        /\ Active(k)' => PhaseOf(k)' = "working"
        /\ record'[k] # Absent /\ record'[k].status # "queued" /\ ~ Active(k)' => PhaseOf(k)' = "over"
    BY PhaseFactsNext
  <2> QED
    BY <2>1, <2>2
<1>2. \A k \in S : PhaseOf(k) = "working"
  BY PhaseFacts
<1>3. S \in SUBSET Job
  OBVIOUS
<1> HIDE DEF S
<1>4. Lifecycle!End(S)
  BY <1>1, <1>2, <1>3 DEF Lifecycle!End, Lifecycle!In, Phases
<1> QED
  BY <1>3, <1>4 DEF Lifecycle!Next

(* One job moves on.                                                        *)
LEMMA MoveImplements ==
  ASSUME Inv, Inv', Crew, NEW j \in Job, record[j] # Absent, record'[j] # Absent,
         \A k \in Job : k # j => record'[k] = record[k] /\ task'[k] = task[k],
         record'[j].status = "queued" => record[j].status = "queued",
         Active(j)' => Active(j) \/ (record[j].status = "queued" /\ task[j].pc = "created")
  PROVE  [Lifecycle!Next]_Phases
<1>1. \A k \in Job : k # j => PhaseOf(k)' = PhaseOf(k)
  BY DEF PhaseOf, Active
<1>2. /\ record[j].status = "queued" => PhaseOf(j) = "waiting" /\ ~ Active(j)
      /\ Active(j) => PhaseOf(j) = "working"
      /\ record[j].status # "queued" /\ ~ Active(j) => PhaseOf(j) = "over"
  BY PhaseFacts
<1>3. /\ record'[j].status = "queued" => PhaseOf(j)' = "waiting" /\ ~ Active(j)'
      /\ Active(j)' => PhaseOf(j)' = "working"
      /\ record'[j].status # "queued" /\ ~ Active(j)' => PhaseOf(j)' = "over"
  BY PhaseFactsNext
<1>4. CASE PhaseOf(j)' = PhaseOf(j)
  BY <1>1, <1>4 DEF Phases
<1>5. CASE PhaseOf(j) = "waiting" /\ PhaseOf(j)' = "over"
  <2>1. Lifecycle!Withdraw(j)
    BY <1>1, <1>5 DEF Lifecycle!Withdraw, Phases
  <2> QED
    BY <2>1 DEF Lifecycle!Next
<1>6. CASE PhaseOf(j) = "working" /\ PhaseOf(j)' = "over"
  <2>1. Lifecycle!End({j})
    BY <1>1, <1>6 DEF Lifecycle!End, Lifecycle!In, Phases
  <2> QED
    BY <2>1 DEF Lifecycle!Next
<1>7. CASE PhaseOf(j) = "waiting" /\ PhaseOf(j)' = "working"
  <2>1. task[j].pc = "created" /\ j \in Live
    BY <1>2, <1>3, <1>7 DEF Live
  <2> DEFINE W == Lifecycle!In("working")
  <2>2. W \in SUBSET (Live \ {j})
    BY <1>7 DEF Lifecycle!In, Phases, PhaseOf, Active, Live
  <2>3. /\ IsFiniteSet(Live \ {j}) /\ Cardinality(Live \ {j}) = Cardinality(Live) - 1
        /\ Cardinality(Live) \in Nat
    BY <2>1, LiveFinite, FS_RemoveElement
  <2>4. Cardinality(W) <= Cardinality(Live \ {j}) /\ Cardinality(W) \in Nat
    BY <2>2, <2>3, FS_Subset, FS_CardinalityType
  <2>5. Cardinality(W) < Workers
    BY <2>3, <2>4, ConstantAssumption DEF Crew
  <2>6. Lifecycle!Start(j)
    BY <1>1, <1>7, <2>5, SameCardinality DEF Lifecycle!Start, Phases
  <2> QED
    BY <2>6 DEF Lifecycle!Next
<1> QED
  BY <1>2, <1>3, <1>4, <1>5, <1>6, <1>7

LEMMA SubmitImplements ==
  ASSUME Inv, Inv', NEW c \in Client, NEW r, r.status = "queued", Enqueue(c, r)
  PROVE  [Lifecycle!Next]_Phases
<1>1. PICK j \in Job : j = NextJob
  BY DEF Enqueue
<1>2. /\ record[j] = Absent /\ record'[j] = r /\ task' = task
      /\ \A k \in Job : k # j => record'[k] = record[k]
  BY <1>1, NextIsNew DEF Enqueue, Update, Inv, TypeOK
<1>3. \A k \in Job : k # j => PhaseOf(k)' = PhaseOf(k)
  BY <1>2 DEF PhaseOf, Active
<1>4. PhaseOf(j) = "absent" /\ PhaseOf(j)' = "waiting"
  BY <1>2, PhaseFacts, PhaseFactsNext
<1>5. Lifecycle!Submit(j)
  BY <1>3, <1>4 DEF Lifecycle!Submit, Phases
<1> QED
  BY <1>5 DEF Lifecycle!Next

LEMMA TaskImplements ==
  ASSUME Inv, Inv', Crew, NEW j \in Job, Tasks(j)
  PROVE  [Lifecycle!Next]_Phases
<1>1. task[j].pc # "none" /\ \E t : Become(j, t)
  BY DEF Tasks, TaskStart, TaskBegin, StepReturns, StepRaises, TaskCheckpoint, GuardTakesOver, TaskFinish,
     WorkerForget, Runs
<1>2. \A k \in Job : k # j => task'[k] = task[k]
  BY <1>1 DEF Inv, TypeOK, Become
<1>3. record[j] \in Records /\ record[j] # Absent
  BY <1>1, RunningFacts, RecordFacts
<1>4. record' = record \/ (Store(j) /\ task[j].pc \in StoreOps)
  BY DEF Tasks, TaskStart, TaskBegin, StepReturns, StepRaises, TaskCheckpoint, GuardTakesOver, TaskFinish,
     WorkerForget, Runs, StoreOps
<1>5. /\ record'[j] # Absent /\ \A k \in Job : k # j => record'[k] = record[k]
      /\ record'[j].status = "queued" => record[j].status = "queued"
  <2>1. CASE record' = record
    BY <1>3, <2>1
  <2>2. CASE Store(j) /\ task[j].pc \in StoreOps
    <3> DEFINE w == Written(task[j].pc, record[j], task[j])
    <3>1. /\ record'[j] = w
          /\ \A k \in Job : k # j => record'[k] = record[k]
      BY <2>2 DEF Store, Update, Inv, TypeOK
    <3>2. task[j].outcome \in Outcome /\ (task[j].pc = "finish" => task[j].outcome \notin {"go_on", "looping"})
      BY TaskFields DEF Inv, TypeOK, Values
    <3>3. w \in Records /\ (w.status = "queued" => record[j].status = "queued")
      BY <1>3, <2>2, <3>2, WrittenType
    <3> HIDE DEF w
    <3> QED
      BY <3>1, <3>3, NotAbsent
  <2> QED
    BY <1>4, <2>1, <2>2
<1>6. Active(j)' => Active(j) \/ (record[j].status = "queued" /\ task[j].pc = "created")
  <2>1. \A pc, t : Become(j, t) /\ t.pc = pc => task'[j].pc = pc
    BY DEF Become, Inv, TypeOK
  <2>2. \A pc, n, outcome, by_user : /\ Task(pc, n, outcome, by_user).pc = pc
                                     /\ Bare(pc).pc = pc /\ NoTask.pc = "none"
    BY TaskType
  <2>3. CASE TaskStart(j)
    <3>1. task[j].pc = "created" /\ task'[j].pc = (IF record[j].status = "queued" THEN "started" ELSE "done")
      BY <2>1, <2>2, <2>3 DEF TaskStart, Runs
    <3> QED
      BY <3>1 DEF Active
  <2>4. CASE TaskBegin(j) \/ StepReturns(j) \/ TaskCheckpoint(j) \/ GuardTakesOver(j)
    BY <2>4 DEF TaskBegin, StepReturns, TaskCheckpoint, GuardTakesOver, Runs, Active
  <2>5. CASE StepRaises(j) \/ TaskFinish(j) \/ WorkerForget(j)
    <3>1. task'[j].pc \in {"failing", "done", "none"}
      BY <2>1, <2>2, <2>5 DEF StepRaises, TaskFinish, WorkerForget
    <3> QED
      BY <3>1 DEF Active
  <2> QED
    BY <2>3, <2>4, <2>5 DEF Tasks
<1> QED
  BY <1>2, <1>3, <1>5, <1>6, MoveImplements

(* A handler rewrites the record of one job, which is not queued any more.  *)
LEMMA RewriteImplements ==
  ASSUME Inv, Inv', Crew, NEW j \in Job, NEW w, Update(j, w), task' = task,
         record[j] # Absent, w # Absent, w.status = "queued" => record[j].status = "queued"
  PROVE  [Lifecycle!Next]_Phases
<1>1. record'[j] = w /\ \A k \in Job : k # j => record'[k] = record[k] /\ task'[k] = task[k]
  BY DEF Inv, TypeOK, Update
<1>2. Active(j)' => Active(j)
  BY DEF Active
<1> QED
  BY <1>1, <1>2, MoveImplements

LEMMA HandlerImplements ==
  ASSUME Inv, Inv', Crew, NEW c \in Client, Clients(c) \/ Handlers(c)
  PROVE  [Lifecycle!Next]_Phases
<1>1. ASSUME NEW r, r.status = "queued", Enqueue(c, r) PROVE [Lifecycle!Next]_Phases
  BY <1>1, SubmitImplements
<1>2. CASE EnqueueNew(c) \/ ResumeEnqueue(c)
  BY <1>1, <1>2 DEF EnqueueNew, ResumeEnqueue, Queued
<1>3. ASSUME record' = record, \A k \in Job : Active(k)' => Active(k)
      PROVE  [Lifecycle!Next]_Phases
  BY <1>3, EndsImplement
<1>4. ASSUME NEW j \in Job, Signal(c, j), record' = record
      PROVE  [Lifecycle!Next]_Phases
  <2>1. \A k \in Job : task'[k] = task[k] \/ task'[k] = AfterCancel(task[k].pc, TRUE)
    BY <1>4 DEF Signal, Cut
  <2>2. \A pc : AfterCancel(pc, TRUE).pc \in {"cancelled", "done"}
    BY AfterCancelType
  <2> QED
    BY <1>3, <1>4, <2>1, <2>2 DEF Active
<1>5. CASE CancelSignal(c)
  <2>1. PICK j \in Job : j = request[c].job
    BY <1>5, RequestFacts DEF CancelSignal
  <2> QED
    BY <1>4, <1>5, <2>1 DEF CancelSignal
<1>6. ASSUME NEW j \in Job, ResumeRead(c, j) \/ CancelAgain(c, j)
      PROVE  [Lifecycle!Next]_Phases
  BY <1>3, <1>4, <1>6 DEF ResumeRead, CancelAgain, Active
<1>7. ASSUME NEW j \in Job, CancelRunning(c, j)
      PROVE  [Lifecycle!Next]_Phases
  <2>1. /\ Update(j, With(record[j], "cancelling", record[j].result)) /\ task' = task
        /\ record[j] # Absent
    BY <1>7, RecordFacts DEF CancelRunning
  <2>2. With(record[j], "cancelling", record[j].result).status = "cancelling" /\ Absent.status = "absent"
    BY DEF With, Absent
  <2> QED
    BY <2>1, <2>2, RewriteImplements
<1>8. CASE Refuse(c) \/ CancelOverwrite(c)
  <2>1. PICK j \in Job : j = request[c].job /\ record[j] # Absent
    BY <1>8, RequestFacts DEF Refuse, CancelOverwrite
  <2>2. PICK w : Update(j, w) /\ w.status \in {"failed", "interrupted"}
    BY <1>8, <2>1 DEF Refuse, CancelOverwrite, With, FinishedCancelled
  <2>3. task' = task
    BY <1>8 DEF Refuse, CancelOverwrite
  <2>4. w # Absent /\ w.status # "queued"
    BY <2>2 DEF Absent
  <2> QED
    BY <2>1, <2>2, <2>3, <2>4, RewriteImplements
<1> QED
  BY <1>2, <1>5, <1>6, <1>7, <1>8 DEF Clients, Handlers

LEMMA ThreadImplements ==
  ASSUME Inv, Inv', Crew, Threads
  PROVE  [Lifecycle!Next]_Phases
<1>1. ASSUME NEW s \in strays, StrayReads(s) PROVE [Lifecycle!Next]_Phases
  BY <1>1, EndsImplement DEF StrayReads, Active
<1>2. ASSUME NEW s \in strays, StrayWrites(s) PROVE [Lifecycle!Next]_Phases
  <2>1. PICK j \in Job : /\ j = s.job /\ record[j] \in Records /\ s.seen \in Records
                         /\ s.op \in StoreOps /\ s.outcome \in Outcome
                         /\ s.op = "finish" => s.outcome \notin {"go_on", "looping"}
                         /\ s.op # "created" => s.seen.status # "queued"
    BY <1>2, StrayFacts DEF StrayWrites, Inv, Values, Threads_
  <2>2. PICK w : /\ Update(j, w) /\ task' = task
                 /\ w = record[j] \/ w = Written(s.op, s.seen, s)
    BY <1>2, <2>1 DEF StrayWrites
  <2>3. CASE w = record[j]
    BY <2>1, <2>2, <2>3, RecordFacts, RewriteImplements
  <2>4. CASE w = Written(s.op, s.seen, s)
    <3>1. w \in Records /\ (w.status = "queued" => s.op = "checkpoint" /\ s.seen.status = "queued")
      BY <2>1, <2>4, WrittenType
    <3>2. w.status # "queued" /\ w # Absent /\ record[j] # Absent
      BY <2>1, <3>1, NotAbsent, RecordFacts
    <3> QED
      BY <2>2, <3>2, RewriteImplements
  <2> QED
    BY <2>2, <2>3, <2>4
<1> QED
  BY <1>1, <1>2 DEF Threads

LEMMA NextImplements ==
  ASSUME Inv, Inv', Crew, [Next]_vars
  PROVE  [Lifecycle!Next]_Phases
<1>1. ASSUME record' = record, \A k \in Job : Active(k)' => Active(k)
      PROVE  [Lifecycle!Next]_Phases
  BY <1>1, EndsImplement
<1>2. ASSUME NEW j \in Job, Discard(j) \/ CancelQueued(j)
      PROVE  [Lifecycle!Next]_Phases
  <2>1. PICK w : /\ Update(j, w) /\ w.status \in {"discarded", "cancelled"} /\ task' = task
                 /\ record[j].status # "absent"
    <3>1. record[j] \in Records
      BY <1>2, RecordFacts DEF Discard, CancelQueued
    <3> QED
      BY <1>2, <3>1, DiscardedType DEF Discard, CancelQueued, With
  <2> QED
    BY <2>1, RewriteImplements DEF Absent
<1>3. CASE WorkerTake
  <2>1. \A k \in Job : task'[k] = task[k] \/ task'[k] = Bare("created")
    BY <1>3 DEF WorkerTake, Become, Inv, TypeOK
  <2>2. Bare("created").pc = "created"
    BY TaskType
  <2> QED
    BY <1>1, <1>3, <2>1, <2>2 DEF WorkerTake, Active
<1>4. CASE Startup
  <2>1. ASSUME NEW k \in Job
        PROVE  /\ record'[k] = Absent <=> record[k] = Absent
               /\ record'[k].status = "queued" <=> record[k].status = "queued"
    <3>1. record'[k] = IF record[k].status = "running"
                       THEN With(record[k], "interrupted", record[k].result) ELSE record[k]
      BY <1>4 DEF Startup
    <3> QED
      BY <3>1 DEF With, Absent
  <2>2. \A k \in Job : Active(k)' => Active(k)
    BY <1>4 DEF Startup, Active
  <2> QED
    BY <2>1, <2>2, EndsImplement
<1>5. CASE Shutdown
  <2>1. \A k \in Job : task'[k] = task[k] \/ task'[k] = AfterCancel(task[k].pc, FALSE)
    BY <1>5 DEF Shutdown, Cut
  <2>2. \A pc : AfterCancel(pc, FALSE).pc \in {"cancelled", "done"}
    BY AfterCancelType
  <2> QED
    BY <1>1, <1>5, <2>1, <2>2 DEF Shutdown, Active
<1>6. CASE Stopped \/ Crash
  <2>1. record' = record /\ \A k \in Job : task'[k] = NoTask
    BY <1>6 DEF Stopped, Crash, Forgotten
  <2>2. NoTask.pc = "none"
    BY TaskType
  <2> QED
    BY <1>1, <2>1, <2>2 DEF Active
<1>7. CASE UNCHANGED vars
  BY <1>1, <1>7 DEF vars, Active
<1> QED
  BY <1>2, <1>3, <1>4, <1>5, <1>6, <1>7, HandlerImplements, TaskImplements, ThreadImplements DEF Next

LEMMA InitImplements == Init => Lifecycle!Init /\ Crew
<1> SUFFICES ASSUME Init PROVE Lifecycle!Init /\ Crew
  OBVIOUS
<1>1. \A k \in Job : PhaseOf(k) = "absent"
  BY DEF Init, PhaseOf
<1>2. Live = {}
  BY TaskType DEF Init, Live
<1> QED
  BY <1>1, <1>2, FS_EmptySet, ConstantAssumption DEF Lifecycle!Init, Phases, Crew

(* THEOREM Implementation: the queue implements JobLifecycle for any number *)
(* of jobs, requests, workers, places and stops: every job is worked on at  *)
(* most once, no more than Workers at a time, and never after it was        *)
(* withdrawn.                                                               *)
THEOREM Implementation == Spec => Implements
<1>1. Inv /\ Crew /\ [Next]_vars => Inv' /\ Crew'
  BY StepKeeps, CrewKept
<1>2. Inv /\ Inv' /\ Crew /\ [Next]_vars => [Lifecycle!Next]_Phases
  BY NextImplements
<1> QED
  BY <1>1, <1>2, InitInv, InitImplements, PTL DEF Spec, Implements, Lifecycle!Spec
=============================================================================
