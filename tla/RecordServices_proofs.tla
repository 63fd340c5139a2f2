------------------------ MODULE RecordServices_proofs -----------------------
(***************************************************************************)
(* What is kept in files stays true for any number of records, processes   *)
(* and restarts: the cron jobs, the saved logins, the convergence runs and *)
(* the sessions of MCP clients.                                            *)
(*                                                                         *)
(* Each part states what its properties lack to be inductive, as an        *)
(* invariant of several named conjuncts, and shows that every action keeps *)
(* each of them.                                                           *)
(***************************************************************************)
EXTENDS CronJobs, SavedLogins, HarnessRuns, McpSessions, FiniteSetTheorems, TLAPS

-----------------------------------------------------------------------------
(* Cron jobs.  An identifier is used once (UsedOnce), and a run that is    *)
(* being counted belongs to a job that is there or was deleted or lost     *)
(* (CountedOnce, KeptUntilDeleted).                                        *)

JobRecords == [enabled : BOOLEAN, schedule : Schedules, key : BOOLEAN, runs : Nat]
CronRuns == [pc : {"idle", "session", "queue", "count"}, job : CronJob \cup {None}]
Counting(j) == {t \in Trigger : run[t] = [pc |-> "count", job |-> j]}
Due(job) == job.enabled /\ job.schedule = "good"

CTypes ==
  /\ flaky \in BOOLEAN
  /\ store \in [CronJob -> JobRecords \cup {None}]
  /\ run \in [Trigger -> CronRuns]
  /\ enqueued \in [CronJob -> Nat]
  /\ starts \in Nat

\* An identifier is used for one job only, and nothing is known of one that was not given out.
UsedOnce ==
  /\ scheduled \cup Stored \cup deleted \cup lost \subseteq used /\ used \subseteq CronJob
  /\ \A t \in Trigger : run[t].pc # "idle" => run[t].job \in used
  /\ \A j \in CronJob \ used : enqueued[j] = 0

\* The two parts of RunsCounted.
CountedOnce ==
  \A j \in Stored : \/ enqueued[j] = store[j].runs + Cardinality(Counting(j))
                    \/ (flaky /\ enqueued[j] > store[j].runs + Cardinality(Counting(j)))
KeptUntilDeleted == \A j \in used : j \in Stored <=> j \notin deleted \cup lost

CInv == CTypes /\ UsedOnce /\ CountedOnce /\ KeptUntilDeleted /\ SchedulerAgrees

\* A record of a job is not None.
LEMMA JobsAreThere == \A job \in JobRecords : job # None
  BY CronAssumption DEF JobRecords, Schedules

\* Counting(j) is finite, and what a coroutine that moves does to it.
LEMMA CountingFinite == \A j : IsFiniteSet(Counting(j)) /\ Cardinality(Counting(j)) \in Nat
<1> TAKE j
<1>1. Counting(j) \subseteq Trigger
  BY DEF Counting
<1> QED
  BY <1>1, CronAssumption, FS_Subset, FS_CardinalityType

LEMMA CountingAfter ==
  ASSUME CTypes, NEW t \in Trigger, NEW pc \in {"idle", "session", "queue", "count"}, NEW job \in CronJob \cup {None},
         run' = [run EXCEPT ![t] = [pc |-> pc, job |-> job]]
  PROVE \A j \in CronJob :
          /\ pc = "count" /\ job = j => Counting(j)' = (Counting(j) \ {t}) \cup {t}
          /\ ~(pc = "count" /\ job = j) => Counting(j)' = Counting(j) \ {t}
<1>1. run \in [Trigger -> CronRuns] /\ \A u \in Trigger : u # t => run'[u] = run[u]
  BY DEF CTypes
<1>2. run'[t] = [pc |-> pc, job |-> job]
  BY <1>1
<1> SUFFICES ASSUME NEW j \in CronJob
             PROVE /\ pc = "count" /\ job = j => Counting(j)' = (Counting(j) \ {t}) \cup {t}
                   /\ ~(pc = "count" /\ job = j) => Counting(j)' = Counting(j) \ {t}
  OBVIOUS
<1>3. run'[t] = [pc |-> "count", job |-> j] <=> pc = "count" /\ job = j
  BY <1>2
<1>4. /\ pc = "count" /\ job = j => \A u : u \in Counting(j)' <=> u \in (Counting(j) \ {t}) \cup {t}
      /\ ~(pc = "count" /\ job = j) => \A u : u \in Counting(j)' <=> u \in (Counting(j) \ {t})
  BY <1>1, <1>3 DEF Counting
<1> QED
  BY <1>4

\* What create, update and delete do to the store and the scheduler.
LEMMA CreatedJob ==
  ASSUME CTypes, UsedOnce, CreateJob
  PROVE \E j \in CronJob \ used, job \in JobRecords, loaded \in Loads :
          /\ job.runs = 0
          /\ store' = [loaded EXCEPT ![j] = job] /\ scheduled' = scheduled \cup Registered(j, job)
          /\ used' = used \cup {j} /\ UNCHANGED <<flaky, run, starts, deleted, enqueued>>
          /\ \A k : k \in lost' <=> k \in lost \/ (loaded # store /\ k \in Stored /\ store'[k] = None)
<1>1. PICK j \in CronJob \ used, loaded \in Loads, schedule \in Schedules, key \in BOOLEAN :
        LET job == [enabled |-> TRUE, schedule |-> schedule, key |-> key, runs |-> 0] IN
        /\ SaveJobs(loaded, [loaded EXCEPT ![j] = job])
        /\ scheduled' = scheduled \cup Registered(j, job)
        /\ used' = used \cup {j}
  BY DEF CreateJob
<1> DEFINE job == [enabled |-> TRUE, schedule |-> schedule, key |-> key, runs |-> 0]
<1>2. job \in JobRecords /\ job.runs = 0
  BY <1>1 DEF JobRecords
<1>3. /\ store' = [loaded EXCEPT ![j] = job] /\ scheduled' = scheduled \cup Registered(j, job)
      /\ used' = used \cup {j}
      /\ \A k : k \in lost' <=> k \in lost \/ (loaded # store /\ k \in Stored /\ store'[k] = None)
  BY <1>1 DEF SaveJobs
<1> HIDE DEF job
<1>4. UNCHANGED <<flaky, run, starts, deleted, enqueued>>
  BY DEF CreateJob
<1> QED
  BY <1>1, <1>2, <1>3, <1>4

LEMMA UpdatedJob ==
  ASSUME CTypes, UpdateJob
  PROVE \E j \in Stored, job \in JobRecords :
          /\ job.runs = store[j].runs
          /\ store' = [store EXCEPT ![j] = job] /\ scheduled' = (scheduled \ {j}) \cup Registered(j, job)
          /\ UNCHANGED <<flaky, run, starts, used, deleted, lost, enqueued>>
<1>1. PICK j \in Stored, enabled \in BOOLEAN, schedule \in Schedules :
        LET job == [store[j] EXCEPT !.enabled = enabled, !.schedule = schedule] IN
        /\ SaveJobs(store, [store EXCEPT ![j] = job])
        /\ scheduled' = (scheduled \ {j}) \cup Registered(j, job)
  BY DEF UpdateJob
<1> DEFINE job == [store[j] EXCEPT !.enabled = enabled, !.schedule = schedule]
<1>2. job \in JobRecords /\ job.runs = store[j].runs
  <2>1. store[j] \in JobRecords
    BY DEF CTypes, Stored
  <2> QED
    BY <1>1, <2>1 DEF JobRecords
<1>3. store' = [store EXCEPT ![j] = job] /\ scheduled' = (scheduled \ {j}) \cup Registered(j, job) /\ lost' = lost
  BY <1>1 DEF SaveJobs
<1> HIDE DEF job
<1> QED
  BY <1>1, <1>2, <1>3 DEF UpdateJob

LEMMA DeletedJob ==
  ASSUME CTypes, DeleteJob
  PROVE \E j \in Stored :
          /\ store' = [store EXCEPT ![j] = None] /\ scheduled' = scheduled \ {j} /\ deleted' = deleted \cup {j}
          /\ UNCHANGED <<flaky, run, starts, used, lost, enqueued>>
  BY DEF DeleteJob, SaveJobs

\* A run that ends: it is counted in its job as that is by then, or it is not.
LEMMA CountedRun ==
  ASSUME CTypes, UsedOnce, NEW t \in Trigger, CountRun(t)
  PROVE \E j \in used :
          /\ run[t] = [pc |-> "count", job |-> j]
          /\ \/ /\ j \in Stored /\ [store[j] EXCEPT !.runs = @ + 1] \in JobRecords
                /\ store' = [store EXCEPT ![j] = [store[j] EXCEPT !.runs = @ + 1]]
             \/ ((j \notin Stored \/ flaky) /\ UNCHANGED store)
          /\ run' = [run EXCEPT ![t] = [pc |-> "idle", job |-> None]]
          /\ UNCHANGED <<flaky, scheduled, starts, used, deleted, lost, enqueued>>
<1> DEFINE j == run[t].job
<1>1. run[t].pc = "count" /\ j \in used /\ run[t] \in CronRuns
  BY DEF CountRun, UsedOnce, CTypes
<1>2. run[t] = [pc |-> "count", job |-> j]
  BY <1>1 DEF CronRuns
<1>3. j \in Stored => [store[j] EXCEPT !.runs = @ + 1] \in JobRecords
  <2>1. j \in Stored => store[j] \in JobRecords
    BY DEF CTypes, Stored
  <2> QED
    BY <2>1 DEF JobRecords
<1>4. /\ \/ (j \in Stored /\ store' = [store EXCEPT ![j] = [store[j] EXCEPT !.runs = @ + 1]])
         \/ ((j \notin Stored \/ flaky) /\ UNCHANGED store)
      /\ lost' = lost
  <2>1. store \in [CronJob -> JobRecords \cup {None}]
    BY DEF CTypes
  <2>2. CASE j \in Stored /\ SaveJobs(store, [store EXCEPT ![j].runs = @ + 1])
    BY <2>1, <2>2 DEF SaveJobs
  <2>3. CASE (j \notin Stored \/ flaky) /\ UNCHANGED <<store, lost>>
    BY <2>3
  <2> QED
    BY <2>2, <2>3 DEF CountRun
<1> HIDE DEF j
<1> QED
  BY <1>1, <1>2, <1>3, <1>4 DEF CountRun, AtRest

LEMMA CTypesKept ==
  CTypes /\ UsedOnce /\ [CNext]_cvars => CTypes'
<1> SUFFICES ASSUME CTypes, UsedOnce, [CNext]_cvars PROVE CTypes'
  OBVIOUS
<1>1. CASE CreateJob
  <2>1. PICK j \in CronJob \ used, job \in JobRecords, loaded \in Loads :
          /\ job.runs = 0
          /\ store' = [loaded EXCEPT ![j] = job] /\ scheduled' = scheduled \cup Registered(j, job)
          /\ used' = used \cup {j} /\ UNCHANGED <<flaky, run, starts, deleted, enqueued>>
          /\ \A k : k \in lost' <=> k \in lost \/ (loaded # store /\ k \in Stored /\ store'[k] = None)
    BY <1>1, CreatedJob
  <2>2. loaded \in [CronJob -> JobRecords \cup {None}] /\ job # None
    BY JobsAreThere DEF CTypes, Loads
  <2>3. store'[j] = job /\ \A k \in CronJob : k # j => store'[k] = loaded[k]
    BY <2>1, <2>2
  <2>4. loaded = store \/ (flaky /\ \A k \in CronJob : loaded[k] = None)
    BY DEF Loads
  <2> QED
    BY <2>1, <2>2 DEF CTypes
<1>2. CASE UpdateJob
  <2>1. PICK j \in Stored, job \in JobRecords :
          /\ job.runs = store[j].runs
          /\ store' = [store EXCEPT ![j] = job] /\ scheduled' = (scheduled \ {j}) \cup Registered(j, job)
          /\ UNCHANGED <<flaky, run, starts, used, deleted, lost, enqueued>>
    BY <1>2, UpdatedJob
  <2>2. store \in [CronJob -> JobRecords \cup {None}] /\ job # None /\ j \in CronJob
    BY JobsAreThere DEF CTypes, Stored
  <2>3. store'[j] = job /\ \A k \in CronJob : k # j => store'[k] = store[k]
    BY <2>1, <2>2
  <2>4. Stored' = Stored
    BY <2>2, <2>3 DEF Stored
  <2> QED
    BY <2>1, <2>2 DEF CTypes
<1>3. CASE DeleteJob
  <2>1. PICK j \in Stored :
          /\ store' = [store EXCEPT ![j] = None] /\ scheduled' = scheduled \ {j} /\ deleted' = deleted \cup {j}
          /\ UNCHANGED <<flaky, run, starts, used, lost, enqueued>>
    BY <1>3, DeletedJob
  <2>2. store \in [CronJob -> JobRecords \cup {None}] /\ j \in CronJob
    BY DEF CTypes, Stored
  <2>3. store'[j] = None /\ \A k \in CronJob : k # j => store'[k] = store[k]
    BY <2>1, <2>2
  <2>4. Stored' = Stored \ {j}
    BY <2>2, <2>3 DEF Stored
  <2> QED
    BY <2>1, <2>2 DEF CTypes
<1>4. ASSUME NEW t \in Trigger, Begin(t) PROVE CTypes'
  <2>1. PICK j \in Stored : run' = [run EXCEPT ![t] = [pc |-> "session", job |-> j]]
    BY <1>4 DEF Begin
  <2>2. run' \in [Trigger -> CronRuns]
    BY <2>1 DEF CTypes, CronRuns, Stored
  <2> QED
    BY <1>4, <2>2 DEF Begin, CTypes
<1>5. ASSUME NEW t \in Trigger, MakeSession(t) PROVE CTypes'
  <2>1. run' \in [Trigger -> CronRuns]
    BY <1>5 DEF MakeSession, CTypes, CronRuns, AtRest
  <2> QED
    BY <1>5, <2>1 DEF MakeSession, CTypes
<1>6. ASSUME NEW t \in Trigger, EnqueueRun(t) PROVE CTypes'
  <2>1. run' \in [Trigger -> CronRuns]
    BY <1>6 DEF EnqueueRun, CTypes, CronRuns, AtRest
  <2>2. enqueued' \in [CronJob -> Nat]
    BY <1>6 DEF EnqueueRun, CTypes
  <2> QED
    BY <1>6, <2>1, <2>2 DEF EnqueueRun, CTypes
<1>7. ASSUME NEW t \in Trigger, CountRun(t) PROVE CTypes'
  <2>1. PICK j \in used :
          /\ run[t] = [pc |-> "count", job |-> j]
          /\ \/ /\ j \in Stored /\ [store[j] EXCEPT !.runs = @ + 1] \in JobRecords
                /\ store' = [store EXCEPT ![j] = [store[j] EXCEPT !.runs = @ + 1]]
             \/ ((j \notin Stored \/ flaky) /\ UNCHANGED store)
          /\ run' = [run EXCEPT ![t] = [pc |-> "idle", job |-> None]]
          /\ UNCHANGED <<flaky, scheduled, starts, used, deleted, lost, enqueued>>
    BY <1>7, CountedRun
  <2>2. store \in [CronJob -> JobRecords \cup {None}] /\ j \in CronJob
    BY DEF CTypes, UsedOnce
  <2>3. \A k \in CronJob : k # j => store'[k] = store[k]
    BY <2>1, <2>2
  <2>4. ASSUME j \in Stored PROVE store'[j] # None /\ store'[j].enabled = store[j].enabled /\ store'[j].schedule = store[j].schedule
    <3>1. CASE UNCHANGED store
      BY <2>4, <3>1 DEF Stored
    <3>2. CASE /\ [store[j] EXCEPT !.runs = @ + 1] \in JobRecords
               /\ store' = [store EXCEPT ![j] = [store[j] EXCEPT !.runs = @ + 1]]
      <4>1. store'[j] = [store[j] EXCEPT !.runs = @ + 1]
        BY <2>2, <3>2
      <4>2. store[j] \in JobRecords
        BY <2>2, <2>4 DEF Stored
      <4> QED
        BY <3>2, <4>1, <4>2, JobsAreThere DEF JobRecords
    <3> QED
      BY <2>1, <3>1, <3>2
  <2>5. Stored' = Stored
    BY <2>1, <2>2, <2>3, <2>4 DEF Stored
  <2>6. store' \in [CronJob -> JobRecords \cup {None}]
    BY <2>1, <2>2
  <2>7. run' \in [Trigger -> CronRuns]
    BY <2>1 DEF CTypes, CronRuns
  <2> QED
    BY <2>1, <2>6, <2>7 DEF CTypes
<1>8. CASE TakeJob
  BY <1>8 DEF TakeJob, CTypes
<1>9. CASE CloseOne
  BY <1>9 DEF CloseOne, CTypes
<1>10. CASE RestartCron
  <2>1. run' \in [Trigger -> CronRuns]
    BY <1>10 DEF RestartCron, CronRuns, AtRest
  <2>2. enqueued' \in [CronJob -> Nat]
    <3>1. \A j \in CronJob : store[j] # None => store[j].runs \in Nat
      BY DEF CTypes, JobRecords
    <3> QED
      BY <1>10, <3>1 DEF RestartCron, CTypes
  <2> QED
    BY <1>10, <2>1, <2>2 DEF RestartCron, CTypes
<1>11. CASE UNCHANGED cvars
  BY <1>11 DEF cvars, CTypes
<1> QED
  BY <1>1, <1>2, <1>3, <1>4, <1>5, <1>6, <1>7, <1>8, <1>9, <1>10, <1>11
  DEF CNext

LEMMA UsedOnceKept ==
  CTypes /\ UsedOnce /\ [CNext]_cvars => UsedOnce'
<1> SUFFICES ASSUME CTypes, UsedOnce, [CNext]_cvars PROVE UsedOnce'
  OBVIOUS
<1>1. CASE CreateJob
  <2>1. PICK j \in CronJob \ used, job \in JobRecords, loaded \in Loads :
          /\ job.runs = 0
          /\ store' = [loaded EXCEPT ![j] = job] /\ scheduled' = scheduled \cup Registered(j, job)
          /\ used' = used \cup {j} /\ UNCHANGED <<flaky, run, starts, deleted, enqueued>>
          /\ \A k : k \in lost' <=> k \in lost \/ (loaded # store /\ k \in Stored /\ store'[k] = None)
    BY <1>1, CreatedJob
  <2>2. loaded \in [CronJob -> JobRecords \cup {None}] /\ job # None
    BY JobsAreThere DEF CTypes, Loads
  <2>3. store'[j] = job /\ \A k \in CronJob : k # j => store'[k] = loaded[k]
    BY <2>1, <2>2
  <2>4. loaded = store \/ (flaky /\ \A k \in CronJob : loaded[k] = None)
    BY DEF Loads
  <2>5. Stored' \subseteq Stored \cup {j}
    BY <2>2, <2>3, <2>4 DEF Stored
  <2>6. lost' \subseteq lost \cup Stored /\ scheduled' \subseteq scheduled \cup {j}
    BY <2>1 DEF Registered
  <2> QED
    BY <2>1, <2>5, <2>6 DEF UsedOnce
<1>2. CASE UpdateJob
  <2>1. PICK j \in Stored, job \in JobRecords :
          /\ job.runs = store[j].runs
          /\ store' = [store EXCEPT ![j] = job] /\ scheduled' = (scheduled \ {j}) \cup Registered(j, job)
          /\ UNCHANGED <<flaky, run, starts, used, deleted, lost, enqueued>>
    BY <1>2, UpdatedJob
  <2>2. store \in [CronJob -> JobRecords \cup {None}] /\ job # None /\ j \in CronJob
    BY JobsAreThere DEF CTypes, Stored
  <2>3. store'[j] = job /\ \A k \in CronJob : k # j => store'[k] = store[k]
    BY <2>1, <2>2
  <2>4. Stored' = Stored
    BY <2>2, <2>3 DEF Stored
  <2>5. scheduled' \subseteq scheduled \cup {j}
    BY <2>1 DEF Registered
  <2> QED
    BY <2>1, <2>4, <2>5 DEF UsedOnce
<1>3. CASE DeleteJob
  <2>1. PICK j \in Stored :
          /\ store' = [store EXCEPT ![j] = None] /\ scheduled' = scheduled \ {j} /\ deleted' = deleted \cup {j}
          /\ UNCHANGED <<flaky, run, starts, used, lost, enqueued>>
    BY <1>3, DeletedJob
  <2>2. store \in [CronJob -> JobRecords \cup {None}] /\ j \in CronJob
    BY DEF CTypes, Stored
  <2>3. store'[j] = None /\ \A k \in CronJob : k # j => store'[k] = store[k]
    BY <2>1, <2>2
  <2>4. Stored' = Stored \ {j}
    BY <2>2, <2>3 DEF Stored
  <2> QED
    BY <2>1, <2>4 DEF UsedOnce
<1>4. ASSUME NEW t \in Trigger, Begin(t) PROVE UsedOnce'
  <2>1. PICK j \in Stored : run' = [run EXCEPT ![t] = [pc |-> "session", job |-> j]]
    BY <1>4 DEF Begin
  <2>2. \A u \in Trigger : run'[u] = run[u] \/ run'[u].job = j
    BY <2>1 DEF CTypes
  <2>3. Stored' = Stored
    BY <1>4 DEF Begin, Stored
  <2> QED
    BY <1>4, <2>2, <2>3 DEF Begin, UsedOnce
<1>5. ASSUME NEW t \in Trigger, MakeSession(t) PROVE UsedOnce'
  <2>1. \A u \in Trigger : run'[u].pc # "idle" => run[u].pc # "idle" /\ run'[u].job = run[u].job
    BY <1>5 DEF MakeSession, CTypes, CronRuns, AtRest
  <2>2. Stored' = Stored
    BY <1>5 DEF MakeSession, Stored
  <2> QED
    BY <1>5, <2>1, <2>2 DEF MakeSession, UsedOnce
<1>6. ASSUME NEW t \in Trigger, EnqueueRun(t) PROVE UsedOnce'
  <2>1. \A u \in Trigger : run'[u].pc # "idle" => run[u].pc # "idle" /\ run'[u].job = run[u].job
    BY <1>6 DEF EnqueueRun, CTypes, CronRuns, AtRest
  <2>2. Stored' = Stored
    BY <1>6 DEF EnqueueRun, Stored
  <2>3. \A j \in CronJob : enqueued'[j] = enqueued[j] \/ j \in used
    BY <1>6 DEF EnqueueRun, CTypes, UsedOnce
  <2> QED
    BY <1>6, <2>1, <2>2, <2>3 DEF EnqueueRun, UsedOnce
<1>7. ASSUME NEW t \in Trigger, CountRun(t) PROVE UsedOnce'
  <2>1. PICK j \in used :
          /\ run[t] = [pc |-> "count", job |-> j]
          /\ \/ /\ j \in Stored /\ [store[j] EXCEPT !.runs = @ + 1] \in JobRecords
                /\ store' = [store EXCEPT ![j] = [store[j] EXCEPT !.runs = @ + 1]]
             \/ ((j \notin Stored \/ flaky) /\ UNCHANGED store)
          /\ run' = [run EXCEPT ![t] = [pc |-> "idle", job |-> None]]
          /\ UNCHANGED <<flaky, scheduled, starts, used, deleted, lost, enqueued>>
    BY <1>7, CountedRun
  <2>2. store \in [CronJob -> JobRecords \cup {None}] /\ j \in CronJob
    BY DEF CTypes, UsedOnce
  <2>3. \A k \in CronJob : k # j => store'[k] = store[k]
    BY <2>1, <2>2
  <2>4. ASSUME j \in Stored PROVE store'[j] # None /\ store'[j].enabled = store[j].enabled /\ store'[j].schedule = store[j].schedule
    <3>1. CASE UNCHANGED store
      BY <2>4, <3>1 DEF Stored
    <3>2. CASE /\ [store[j] EXCEPT !.runs = @ + 1] \in JobRecords
               /\ store' = [store EXCEPT ![j] = [store[j] EXCEPT !.runs = @ + 1]]
      <4>1. store'[j] = [store[j] EXCEPT !.runs = @ + 1]
        BY <2>2, <3>2
      <4>2. store[j] \in JobRecords
        BY <2>2, <2>4 DEF Stored
      <4> QED
        BY <3>2, <4>1, <4>2, JobsAreThere DEF JobRecords
    <3> QED
      BY <2>1, <3>1, <3>2
  <2>5. Stored' = Stored
    BY <2>1, <2>2, <2>3, <2>4 DEF Stored
  <2>6. \A u \in Trigger : run'[u].pc # "idle" => run'[u] = run[u]
    BY <2>1 DEF CTypes
  <2> QED
    BY <2>1, <2>5, <2>6 DEF UsedOnce
<1>8. CASE TakeJob
  BY <1>8 DEF TakeJob, UsedOnce, Stored
<1>9. CASE CloseOne
  BY <1>9 DEF CloseOne, UsedOnce, Stored
<1>10. CASE RestartCron
  <2>1. PICK loaded \in Loads : scheduled' = UNION {Registered(j, loaded[j]) : j \in {k \in CronJob : loaded[k] # None}}
    BY <1>10 DEF RestartCron
  <2>2. scheduled' \subseteq Stored
    <3>1. \A j \in scheduled' : j \in CronJob /\ loaded[j] # None
      BY <2>1 DEF Registered
    <3> QED
      BY <3>1 DEF Loads, Stored
  <2>3. Stored' = Stored /\ \A u \in Trigger : run'[u].pc = "idle"
    BY <1>10 DEF RestartCron, Stored, AtRest
  <2>4. \A j \in CronJob : j \notin Stored => enqueued'[j] = enqueued[j]
    BY <1>10 DEF RestartCron, Stored
  <2> QED
    BY <1>10, <2>2, <2>3, <2>4 DEF RestartCron, UsedOnce
<1>11. CASE UNCHANGED cvars
  BY <1>11 DEF cvars, UsedOnce, Stored
<1> QED
  BY <1>1, <1>2, <1>3, <1>4, <1>5, <1>6, <1>7, <1>8, <1>9, <1>10, <1>11
  DEF CNext

\* What is stored of a job, how often it was queued and who counts it make up CountedOnce.
LEMMA CountedStill ==
  ASSUME CountedOnce, NEW j \in CronJob, flaky' = flaky, enqueued'[j] = enqueued[j], Counting(j)' = Counting(j),
         store'[j] # None, store[j] # None, store'[j].runs = store[j].runs
  PROVE \/ enqueued'[j] = store'[j].runs + Cardinality(Counting(j)')
        \/ (flaky' /\ enqueued'[j] > store'[j].runs + Cardinality(Counting(j)'))
<1>1. j \in Stored
  BY DEF Stored
<1> QED
  BY <1>1 DEF CountedOnce

LEMMA CountingSame == run' = run => \A j \in CronJob : Counting(j)' = Counting(j)
  BY DEF Counting

LEMMA NoneCounting == CTypes => \A j \in CronJob : (\A t \in Trigger : ~(run[t].pc = "count" /\ run[t].job = j)) => Counting(j) = {}
  BY DEF Counting

LEMMA CountedOnceKept ==
  CTypes /\ UsedOnce /\ CountedOnce /\ [CNext]_cvars => CountedOnce'
<1> SUFFICES ASSUME CTypes, UsedOnce, CountedOnce, [CNext]_cvars PROVE CountedOnce'
  OBVIOUS
<1>1. CASE CreateJob
  <2>1. PICK j \in CronJob \ used, job \in JobRecords, loaded \in Loads :
          /\ job.runs = 0
          /\ store' = [loaded EXCEPT ![j] = job] /\ scheduled' = scheduled \cup Registered(j, job)
          /\ used' = used \cup {j} /\ UNCHANGED <<flaky, run, starts, deleted, enqueued>>
          /\ \A k : k \in lost' <=> k \in lost \/ (loaded # store /\ k \in Stored /\ store'[k] = None)
    BY <1>1, CreatedJob
  <2>2. loaded \in [CronJob -> JobRecords \cup {None}] /\ job # None
    BY JobsAreThere DEF CTypes, Loads
  <2>3. store'[j] = job /\ \A k \in CronJob : k # j => store'[k] = loaded[k]
    BY <2>1, <2>2
  <2>4. loaded = store \/ (flaky /\ \A k \in CronJob : loaded[k] = None)
    BY DEF Loads
  <2>5. ASSUME NEW k \in Stored'
        PROVE  \/ enqueued'[k] = store'[k].runs + Cardinality(Counting(k)')
               \/ (flaky' /\ enqueued'[k] > store'[k].runs + Cardinality(Counting(k)'))
    <3>1. k \in CronJob /\ store'[k] # None /\ Counting(k)' = Counting(k)
      BY <2>1, <2>5, CountingSame DEF Stored
    <3>2. CASE k = j
      <4>1. enqueued[j] = 0 /\ \A t \in Trigger : ~(run[t].pc = "count" /\ run[t].job = j)
        BY <2>1 DEF UsedOnce
      <4>2. Counting(j) = {}
        BY <4>1, NoneCounting
      <4>3. Cardinality(Counting(j)') = 0
        BY <3>1, <3>2, <4>2, FS_EmptySet
      <4> QED
        BY <2>1, <2>3, <3>2, <4>1, <4>3
    <3>3. CASE k # j
      <4>1. store'[k] = store[k]
        BY <2>3, <2>4, <3>1, <3>3
      <4> QED
        BY <2>1, <3>1, <4>1, CountedStill
    <3> QED
      BY <3>2, <3>3
  <2> QED
    BY <2>5 DEF CountedOnce
<1>2. CASE UpdateJob
  <2>1. PICK j \in Stored, job \in JobRecords :
          /\ job.runs = store[j].runs
          /\ store' = [store EXCEPT ![j] = job] /\ scheduled' = (scheduled \ {j}) \cup Registered(j, job)
          /\ UNCHANGED <<flaky, run, starts, used, deleted, lost, enqueued>>
    BY <1>2, UpdatedJob
  <2>2. store \in [CronJob -> JobRecords \cup {None}] /\ job # None /\ j \in CronJob
    BY JobsAreThere DEF CTypes, Stored
  <2>3. store'[j] = job /\ \A k \in CronJob : k # j => store'[k] = store[k]
    BY <2>1, <2>2
  <2>4. Stored' = Stored
    BY <2>2, <2>3 DEF Stored
  <2>5. ASSUME NEW k \in Stored'
        PROVE  \/ enqueued'[k] = store'[k].runs + Cardinality(Counting(k)')
               \/ (flaky' /\ enqueued'[k] > store'[k].runs + Cardinality(Counting(k)'))
    <3>1. k \in CronJob /\ store'[k] # None /\ store[k] # None /\ Counting(k)' = Counting(k)
      BY <2>1, <2>4, <2>5, CountingSame DEF Stored
    <3> QED
      BY <2>1, <2>3, <3>1, CountedStill
  <2> QED
    BY <2>5 DEF CountedOnce
<1>3. CASE DeleteJob
  <2>1. PICK j \in Stored :
          /\ store' = [store EXCEPT ![j] = None] /\ scheduled' = scheduled \ {j} /\ deleted' = deleted \cup {j}
          /\ UNCHANGED <<flaky, run, starts, used, lost, enqueued>>
    BY <1>3, DeletedJob
  <2>2. store \in [CronJob -> JobRecords \cup {None}] /\ j \in CronJob
    BY DEF CTypes, Stored
  <2>3. store'[j] = None /\ \A k \in CronJob : k # j => store'[k] = store[k]
    BY <2>1, <2>2
  <2>4. Stored' = Stored \ {j}
    BY <2>2, <2>3 DEF Stored
  <2>5. ASSUME NEW k \in Stored'
        PROVE  \/ enqueued'[k] = store'[k].runs + Cardinality(Counting(k)')
               \/ (flaky' /\ enqueued'[k] > store'[k].runs + Cardinality(Counting(k)'))
    <3>1. k \in CronJob /\ k # j /\ store'[k] # None /\ store[k] # None /\ Counting(k)' = Counting(k)
      BY <2>1, <2>4, <2>5, CountingSame DEF Stored
    <3> QED
      BY <2>1, <2>3, <3>1, CountedStill
  <2> QED
    BY <2>5 DEF CountedOnce
<1>4. ASSUME NEW t \in Trigger, Begin(t) PROVE CountedOnce'
  <2>1. store' = store /\ flaky' = flaky /\ enqueued' = enqueued
    BY <1>4 DEF Begin
  <2>2. \A k \in CronJob : Counting(k)' = Counting(k)
    <3>1. PICK j \in Stored : run' = [run EXCEPT ![t] = [pc |-> "session", job |-> j]]
      BY <1>4 DEF Begin
    <3>2. \A k \in CronJob : t \notin Counting(k)
      BY <1>4 DEF Begin, Counting
    <3>3. \A k \in CronJob : Counting(k)' = Counting(k) \ {t}
      BY <3>1, CountingAfter DEF Stored
    <3> QED
      BY <3>2, <3>3
  <2>3. ASSUME NEW k \in Stored'
        PROVE  \/ enqueued'[k] = store'[k].runs + Cardinality(Counting(k)')
               \/ (flaky' /\ enqueued'[k] > store'[k].runs + Cardinality(Counting(k)'))
    BY <2>1, <2>2, <2>3, CountedStill DEF Stored
  <2> QED
    BY <2>3 DEF CountedOnce
<1>5. ASSUME NEW t \in Trigger, MakeSession(t) PROVE CountedOnce'
  <2>1. store' = store /\ flaky' = flaky /\ enqueued' = enqueued
    BY <1>5 DEF MakeSession
  <2>2. \A k \in CronJob : Counting(k)' = Counting(k)
    <3>1. PICK pc \in {"idle", "queue"}, job \in CronJob \cup {None} : run' = [run EXCEPT ![t] = [pc |-> pc, job |-> job]]
      <4>1. run[t] \in CronRuns /\ (run' = [run EXCEPT ![t] = [run[t] EXCEPT !.pc = "queue"]] \/ run' = [run EXCEPT ![t] = AtRest])
        BY <1>5 DEF MakeSession, CTypes
      <4>2. [run[t] EXCEPT !.pc = "queue"] = [pc |-> "queue", job |-> run[t].job] /\ run[t].job \in CronJob \cup {None}
        BY <4>1 DEF CronRuns
      <4> QED
        BY <4>1, <4>2 DEF AtRest
    <3>2. \A k \in CronJob : t \notin Counting(k)
      BY <1>5 DEF MakeSession, Counting
    <3>3. \A k \in CronJob : Counting(k)' = Counting(k) \ {t}
      BY <3>1, CountingAfter
    <3> QED
      BY <3>2, <3>3
  <2>3. ASSUME NEW k \in Stored'
        PROVE  \/ enqueued'[k] = store'[k].runs + Cardinality(Counting(k)')
               \/ (flaky' /\ enqueued'[k] > store'[k].runs + Cardinality(Counting(k)'))
    BY <2>1, <2>2, <2>3, CountedStill DEF Stored
  <2> QED
    BY <2>3 DEF CountedOnce
<1>6. ASSUME NEW t \in Trigger, EnqueueRun(t) PROVE CountedOnce'
  <2>0. PICK j \in CronJob : j = run[t].job
    BY <1>6 DEF EnqueueRun, UsedOnce, CTypes
  <2>1. store' = store /\ flaky' = flaky /\ run[t] \in CronRuns /\ run[t].pc = "queue"
    BY <1>6 DEF EnqueueRun, UsedOnce, CTypes
  <2>2. \A k \in CronJob : t \notin Counting(k)
    BY <2>1 DEF Counting
  <2>3. CASE enqueued' = enqueued /\ run' = [run EXCEPT ![t] = [pc |-> "idle", job |-> None]]
    <3>1. \A k \in CronJob : Counting(k)' = Counting(k) \ {t}
      BY <2>3, CountingAfter
    <3>2. \A k \in CronJob : Counting(k)' = Counting(k)
      BY <2>2, <3>1
    <3>3. ASSUME NEW k \in Stored'
          PROVE  \/ enqueued'[k] = store'[k].runs + Cardinality(Counting(k)')
               \/ (flaky' /\ enqueued'[k] > store'[k].runs + Cardinality(Counting(k)'))
      BY <2>1, <2>3, <3>2, <3>3, CountedStill DEF Stored
    <3> QED
      BY <3>3 DEF CountedOnce
  <2>4. CASE /\ enqueued' = [enqueued EXCEPT ![j] = enqueued[j] + 1]
             /\ run' = [run EXCEPT ![t] = [pc |-> "count", job |-> j]]
    <3>1. /\ Counting(j)' = (Counting(j) \ {t}) \cup {t}
          /\ \A k \in CronJob : k # j => Counting(k)' = Counting(k) \ {t}
      BY <2>1, <2>4, CountingAfter, ZenonT(40)
    <3>2. Counting(j)' = Counting(j) \cup {t} /\ \A k \in CronJob : k # j => Counting(k)' = Counting(k)
      BY <2>1, <2>2, <3>1
    <3>3. Cardinality(Counting(j)') = Cardinality(Counting(j)) + 1 /\ Cardinality(Counting(j)) \in Nat
      BY <2>1, <2>2, <3>2, CountingFinite, FS_AddElement
    <3>4. enqueued'[j] = enqueued[j] + 1 /\ (\A k \in CronJob : k # j => enqueued'[k] = enqueued[k]) /\ enqueued[j] \in Nat
      BY <2>1, <2>4 DEF CTypes
    <3>5. ASSUME NEW k \in Stored'
          PROVE  \/ enqueued'[k] = store'[k].runs + Cardinality(Counting(k)')
               \/ (flaky' /\ enqueued'[k] > store'[k].runs + Cardinality(Counting(k)'))
      <4>1. CASE k = j
        <5>1. j \in Stored /\ store[j].runs \in Nat
          BY <2>1, <3>5, <4>1 DEF Stored, CTypes, JobRecords
        <5>2. \/ enqueued[j] = store[j].runs + Cardinality(Counting(j))
              \/ (flaky /\ enqueued[j] > store[j].runs + Cardinality(Counting(j)))
          BY <5>1 DEF CountedOnce
        <5>3. \/ enqueued'[j] = store'[j].runs + Cardinality(Counting(j)')
              \/ (flaky' /\ enqueued'[j] > store'[j].runs + Cardinality(Counting(j)'))
          BY <2>1, <3>3, <3>4, <5>1, <5>2
        <5> QED
          BY <4>1, <5>3
      <4>2. CASE k # j
        BY <2>1, <3>2, <3>4, <3>5, <4>2, CountedStill DEF Stored
      <4> QED
        BY <4>1, <4>2
    <3> QED
      BY <3>5 DEF CountedOnce
  <2>5. [run[t] EXCEPT !.pc = "count"] = [pc |-> "count", job |-> j]
    BY <2>0, <2>1 DEF CronRuns
  <2> QED
    BY <1>6, <2>0, <2>3, <2>4, <2>5 DEF EnqueueRun, AtRest, CTypes
<1>7. ASSUME NEW t \in Trigger, CountRun(t) PROVE CountedOnce'
  <2>1. PICK j \in used :
          /\ run[t] = [pc |-> "count", job |-> j]
          /\ \/ /\ j \in Stored /\ [store[j] EXCEPT !.runs = @ + 1] \in JobRecords
                /\ store' = [store EXCEPT ![j] = [store[j] EXCEPT !.runs = @ + 1]]
             \/ ((j \notin Stored \/ flaky) /\ UNCHANGED store)
          /\ run' = [run EXCEPT ![t] = [pc |-> "idle", job |-> None]]
          /\ UNCHANGED <<flaky, scheduled, starts, used, deleted, lost, enqueued>>
    BY <1>7, CountedRun
  <2>2. store \in [CronJob -> JobRecords \cup {None}] /\ j \in CronJob
    BY DEF CTypes, UsedOnce
  <2>3. \A k \in CronJob : k # j => store'[k] = store[k]
    BY <2>1, <2>2
  <2>4. ASSUME j \in Stored PROVE store'[j] # None /\ store'[j].enabled = store[j].enabled /\ store'[j].schedule = store[j].schedule
    <3>1. CASE UNCHANGED store
      BY <2>4, <3>1 DEF Stored
    <3>2. CASE /\ [store[j] EXCEPT !.runs = @ + 1] \in JobRecords
               /\ store' = [store EXCEPT ![j] = [store[j] EXCEPT !.runs = @ + 1]]
      <4>1. store'[j] = [store[j] EXCEPT !.runs = @ + 1]
        BY <2>2, <3>2
      <4>2. store[j] \in JobRecords
        BY <2>2, <2>4 DEF Stored
      <4> QED
        BY <3>2, <4>1, <4>2, JobsAreThere DEF JobRecords
    <3> QED
      BY <2>1, <3>1, <3>2
  <2>5. Stored' = Stored
    BY <2>1, <2>2, <2>3, <2>4 DEF Stored
  <2>6. \A k \in CronJob : Counting(k)' = Counting(k) \ {t}
    BY <2>1, CountingAfter
  <2>7. t \in Counting(j) /\ \A k \in CronJob : k # j => t \notin Counting(k)
    BY <2>1 DEF Counting
  <2>8. /\ Cardinality(Counting(j)') = Cardinality(Counting(j)) - 1 /\ Cardinality(Counting(j)) \in Nat
        /\ Cardinality(Counting(j)') \in Nat
        /\ \A k \in CronJob : k # j => Counting(k)' = Counting(k)
    <3>1. Cardinality(Counting(j) \ {t}) = Cardinality(Counting(j)) - 1 /\ Cardinality(Counting(j) \ {t}) \in Nat
      BY <2>7, CountingFinite, FS_RemoveElement, FS_CardinalityType
    <3> QED
      BY <2>2, <2>6, <2>7, <3>1, CountingFinite
  <2>9. ASSUME NEW k \in Stored'
        PROVE  \/ enqueued'[k] = store'[k].runs + Cardinality(Counting(k)')
               \/ (flaky' /\ enqueued'[k] > store'[k].runs + Cardinality(Counting(k)'))
    <3>1. CASE k = j
      <4>1. j \in Stored /\ store[j] \in JobRecords /\ store[j].runs \in Nat /\ enqueued[j] \in Nat
        BY <2>2, <2>5, <2>9, <3>1 DEF Stored, JobRecords, CTypes
      <4>2. \/ enqueued[j] = store[j].runs + Cardinality(Counting(j))
            \/ (flaky /\ enqueued[j] > store[j].runs + Cardinality(Counting(j)))
        BY <4>1 DEF CountedOnce
      <4>3. store'[j].runs = store[j].runs + 1 \/ (flaky /\ store'[j].runs = store[j].runs)
        <5>1. CASE store' = [store EXCEPT ![j] = [store[j] EXCEPT !.runs = @ + 1]]
          BY <2>2, <4>1, <5>1 DEF JobRecords
        <5>2. CASE flaky /\ UNCHANGED store
          BY <5>2
        <5> QED
          BY <2>1, <4>1, <5>1, <5>2
      <4>4. \/ enqueued'[j] = store'[j].runs + Cardinality(Counting(j)')
            \/ (flaky' /\ enqueued'[j] > store'[j].runs + Cardinality(Counting(j)'))
        BY <2>1, <2>8, <4>1, <4>2, <4>3
      <4> QED
        BY <3>1, <4>4
    <3>2. CASE k # j
      <4>1. k \in CronJob /\ store'[k] # None /\ store'[k] = store[k]
        BY <2>3, <2>9, <3>2 DEF Stored
      <4> QED
        BY <2>1, <2>8, <3>2, <4>1, CountedStill
    <3> QED
      BY <3>1, <3>2
  <2> QED
    BY <2>9 DEF CountedOnce
<1>8. CASE TakeJob
  <2>1. store' = store /\ flaky' = flaky /\ enqueued' = enqueued
    BY <1>8 DEF TakeJob
  <2>2. \A k \in CronJob : Counting(k)' = Counting(k)
    BY <1>8, CountingSame DEF TakeJob
  <2>3. ASSUME NEW k \in Stored'
        PROVE  \/ enqueued'[k] = store'[k].runs + Cardinality(Counting(k)')
               \/ (flaky' /\ enqueued'[k] > store'[k].runs + Cardinality(Counting(k)'))
    BY <2>1, <2>2, <2>3, CountedStill DEF Stored
  <2> QED
    BY <2>3 DEF CountedOnce
<1>9. CASE CloseOne
  <2>1. store' = store /\ flaky' = flaky /\ enqueued' = enqueued
    BY <1>9 DEF CloseOne
  <2>2. \A k \in CronJob : Counting(k)' = Counting(k)
    BY <1>9, CountingSame DEF CloseOne
  <2>3. ASSUME NEW k \in Stored'
        PROVE  \/ enqueued'[k] = store'[k].runs + Cardinality(Counting(k)')
               \/ (flaky' /\ enqueued'[k] > store'[k].runs + Cardinality(Counting(k)'))
    BY <2>1, <2>2, <2>3, CountedStill DEF Stored
  <2> QED
    BY <2>3 DEF CountedOnce
<1>10. CASE RestartCron
  <2>1. store' = store /\ \A u \in Trigger : run'[u].pc = "idle"
    BY <1>10 DEF RestartCron, AtRest
  <2>2. \A k \in CronJob : Counting(k)' = {}
    BY <2>1 DEF Counting
  <2>3. ASSUME NEW k \in Stored'
        PROVE  \/ enqueued'[k] = store'[k].runs + Cardinality(Counting(k)')
               \/ (flaky' /\ enqueued'[k] > store'[k].runs + Cardinality(Counting(k)'))
    <3>1. k \in CronJob /\ store[k] # None /\ store[k].runs \in Nat
      BY <2>1, <2>3 DEF Stored, CTypes, JobRecords
    <3>2. enqueued'[k] = store[k].runs
      BY <1>10, <3>1 DEF RestartCron
    <3>3. Cardinality(Counting(k)') = 0
      BY <2>2, <3>1, FS_EmptySet
    <3> QED
      BY <2>1, <3>1, <3>2, <3>3
  <2> QED
    BY <2>3 DEF CountedOnce
<1>11. CASE UNCHANGED cvars
  BY <1>11 DEF cvars, CountedOnce, Counting, Stored
<1> QED
  BY <1>1, <1>2, <1>3, <1>4, <1>5, <1>6, <1>7, <1>8, <1>9, <1>10, <1>11
  DEF CNext

LEMMA KeptUntilDeletedKept ==
  CTypes /\ UsedOnce /\ KeptUntilDeleted /\ [CNext]_cvars => KeptUntilDeleted'
<1> SUFFICES ASSUME CTypes, UsedOnce, KeptUntilDeleted, [CNext]_cvars PROVE KeptUntilDeleted'
  OBVIOUS
<1>1. CASE CreateJob
  <2>1. PICK j \in CronJob \ used, job \in JobRecords, loaded \in Loads :
          /\ job.runs = 0
          /\ store' = [loaded EXCEPT ![j] = job] /\ scheduled' = scheduled \cup Registered(j, job)
          /\ used' = used \cup {j} /\ UNCHANGED <<flaky, run, starts, deleted, enqueued>>
          /\ \A k : k \in lost' <=> k \in lost \/ (loaded # store /\ k \in Stored /\ store'[k] = None)
    BY <1>1, CreatedJob
  <2>2. loaded \in [CronJob -> JobRecords \cup {None}] /\ job # None
    BY JobsAreThere DEF CTypes, Loads
  <2>3. store'[j] = job /\ \A k \in CronJob : k # j => store'[k] = loaded[k]
    BY <2>1, <2>2
  <2>4. loaded = store \/ (flaky /\ \A k \in CronJob : loaded[k] = None)
    BY DEF Loads
  <2>5. \A k \in CronJob : k # j => (k \in Stored' <=> k \in Stored /\ k \notin lost' \ lost)
    BY <2>1, <2>2, <2>3, <2>4 DEF Stored, KeptUntilDeleted, UsedOnce
  <2>6. j \in Stored' /\ j \notin lost' /\ j \notin deleted'
    BY <2>1, <2>2, <2>3 DEF Stored, UsedOnce
  <2>7. lost' \subseteq lost \cup Stored /\ lost \subseteq lost'
    BY <2>1
  <2> QED
    BY <2>1, <2>5, <2>6, <2>7 DEF KeptUntilDeleted, UsedOnce
<1>2. CASE UpdateJob
  <2>1. PICK j \in Stored, job \in JobRecords :
          /\ job.runs = store[j].runs
          /\ store' = [store EXCEPT ![j] = job] /\ scheduled' = (scheduled \ {j}) \cup Registered(j, job)
          /\ UNCHANGED <<flaky, run, starts, used, deleted, lost, enqueued>>
    BY <1>2, UpdatedJob
  <2>2. store \in [CronJob -> JobRecords \cup {None}] /\ job # None /\ j \in CronJob
    BY JobsAreThere DEF CTypes, Stored
  <2>3. store'[j] = job /\ \A k \in CronJob : k # j => store'[k] = store[k]
    BY <2>1, <2>2
  <2>4. Stored' = Stored
    BY <2>2, <2>3 DEF Stored
  <2> QED
    BY <2>1, <2>4 DEF KeptUntilDeleted
<1>3. CASE DeleteJob
  <2>1. PICK j \in Stored :
          /\ store' = [store EXCEPT ![j] = None] /\ scheduled' = scheduled \ {j} /\ deleted' = deleted \cup {j}
          /\ UNCHANGED <<flaky, run, starts, used, lost, enqueued>>
    BY <1>3, DeletedJob
  <2>2. store \in [CronJob -> JobRecords \cup {None}] /\ j \in CronJob
    BY DEF CTypes, Stored
  <2>3. store'[j] = None /\ \A k \in CronJob : k # j => store'[k] = store[k]
    BY <2>1, <2>2
  <2>4. Stored' = Stored \ {j}
    BY <2>2, <2>3 DEF Stored
  <2> QED
    BY <2>1, <2>4 DEF KeptUntilDeleted
<1>4. ASSUME NEW t \in Trigger, Begin(t) PROVE KeptUntilDeleted'
  BY <1>4 DEF Begin, KeptUntilDeleted, Stored
<1>5. ASSUME NEW t \in Trigger, MakeSession(t) PROVE KeptUntilDeleted'
  BY <1>5 DEF MakeSession, AtRest, KeptUntilDeleted, Stored
<1>6. ASSUME NEW t \in Trigger, EnqueueRun(t) PROVE KeptUntilDeleted'
  BY <1>6 DEF EnqueueRun, AtRest, KeptUntilDeleted, Stored
<1>7. ASSUME NEW t \in Trigger, CountRun(t) PROVE KeptUntilDeleted'
  <2>1. PICK j \in used :
          /\ run[t] = [pc |-> "count", job |-> j]
          /\ \/ /\ j \in Stored /\ [store[j] EXCEPT !.runs = @ + 1] \in JobRecords
                /\ store' = [store EXCEPT ![j] = [store[j] EXCEPT !.runs = @ + 1]]
             \/ ((j \notin Stored \/ flaky) /\ UNCHANGED store)
          /\ run' = [run EXCEPT ![t] = [pc |-> "idle", job |-> None]]
          /\ UNCHANGED <<flaky, scheduled, starts, used, deleted, lost, enqueued>>
    BY <1>7, CountedRun
  <2>2. store \in [CronJob -> JobRecords \cup {None}] /\ j \in CronJob
    BY DEF CTypes, UsedOnce
  <2>3. \A k \in CronJob : k # j => store'[k] = store[k]
    BY <2>1, <2>2
  <2>4. ASSUME j \in Stored PROVE store'[j] # None /\ store'[j].enabled = store[j].enabled /\ store'[j].schedule = store[j].schedule
    <3>1. CASE UNCHANGED store
      BY <2>4, <3>1 DEF Stored
    <3>2. CASE /\ [store[j] EXCEPT !.runs = @ + 1] \in JobRecords
               /\ store' = [store EXCEPT ![j] = [store[j] EXCEPT !.runs = @ + 1]]
      <4>1. store'[j] = [store[j] EXCEPT !.runs = @ + 1]
        BY <2>2, <3>2
      <4>2. store[j] \in JobRecords
        BY <2>2, <2>4 DEF Stored
      <4> QED
        BY <3>2, <4>1, <4>2, JobsAreThere DEF JobRecords
    <3> QED
      BY <2>1, <3>1, <3>2
  <2>5. Stored' = Stored
    BY <2>1, <2>2, <2>3, <2>4 DEF Stored
  <2> QED
    BY <2>1, <2>5 DEF KeptUntilDeleted
<1>8. CASE TakeJob
  BY <1>8 DEF TakeJob, KeptUntilDeleted, Stored
<1>9. CASE CloseOne
  BY <1>9 DEF CloseOne, KeptUntilDeleted, Stored
<1>10. CASE RestartCron
  BY <1>10 DEF RestartCron, AtRest, KeptUntilDeleted, Stored
<1>11. CASE UNCHANGED cvars
  BY <1>11 DEF cvars, KeptUntilDeleted, Stored
<1> QED
  BY <1>1, <1>2, <1>3, <1>4, <1>5, <1>6, <1>7, <1>8, <1>9, <1>10, <1>11
  DEF CNext

LEMMA SchedulerAgreesKept ==
  CTypes /\ UsedOnce /\ SchedulerAgrees /\ [CNext]_cvars => SchedulerAgrees'
<1> SUFFICES ASSUME CTypes, UsedOnce, SchedulerAgrees, [CNext]_cvars PROVE SchedulerAgrees'
  OBVIOUS
<1>1. CASE CreateJob
  <2>1. PICK j \in CronJob \ used, job \in JobRecords, loaded \in Loads :
          /\ job.runs = 0
          /\ store' = [loaded EXCEPT ![j] = job] /\ scheduled' = scheduled \cup Registered(j, job)
          /\ used' = used \cup {j} /\ UNCHANGED <<flaky, run, starts, deleted, enqueued>>
          /\ \A k : k \in lost' <=> k \in lost \/ (loaded # store /\ k \in Stored /\ store'[k] = None)
    BY <1>1, CreatedJob
  <2>2. loaded \in [CronJob -> JobRecords \cup {None}] /\ job # None
    BY JobsAreThere DEF CTypes, Loads
  <2>3. store'[j] = job /\ \A k \in CronJob : k # j => store'[k] = loaded[k]
    BY <2>1, <2>2
  <2>4. loaded = store \/ (flaky /\ \A k \in CronJob : loaded[k] = None)
    BY DEF Loads
  <2>5. \A k : k \in scheduled' <=> k \in scheduled \/ (k = j /\ Due(job))
    BY <2>1 DEF Registered, Due
  <2>6. j \notin scheduled /\ j \notin Stored
    BY <2>1 DEF UsedOnce
  <2>7. \A k \in scheduled' : k \in Stored' => Due(store'[k])
    BY <2>1, <2>3, <2>4, <2>5, <2>6 DEF SchedulerAgrees, Stored, Due
  <2>8. ~flaky \/ starts = 0 => \A k \in Stored' : Due(store'[k]) => k \in scheduled'
    BY <2>1, <2>3, <2>4, <2>5, <2>6 DEF SchedulerAgrees, Stored, Due
  <2> QED
    BY <2>1, <2>7, <2>8 DEF SchedulerAgrees, Due
<1>2. CASE UpdateJob
  <2>1. PICK j \in Stored, job \in JobRecords :
          /\ job.runs = store[j].runs
          /\ store' = [store EXCEPT ![j] = job] /\ scheduled' = (scheduled \ {j}) \cup Registered(j, job)
          /\ UNCHANGED <<flaky, run, starts, used, deleted, lost, enqueued>>
    BY <1>2, UpdatedJob
  <2>2. store \in [CronJob -> JobRecords \cup {None}] /\ job # None /\ j \in CronJob
    BY JobsAreThere DEF CTypes, Stored
  <2>3. store'[j] = job /\ \A k \in CronJob : k # j => store'[k] = store[k]
    BY <2>1, <2>2
  <2>4. Stored' = Stored
    BY <2>2, <2>3 DEF Stored
  <2>5. \A k : k \in scheduled' <=> (k \in scheduled /\ k # j) \/ (k = j /\ Due(job))
    BY <2>1 DEF Registered, Due
  <2>7. \A k \in scheduled' : k \in Stored' => Due(store'[k])
    BY <2>1, <2>3, <2>4, <2>5 DEF SchedulerAgrees, Stored, Due
  <2>8. ~flaky \/ starts = 0 => \A k \in Stored' : Due(store'[k]) => k \in scheduled'
    BY <2>1, <2>3, <2>4, <2>5 DEF SchedulerAgrees, Stored, Due
  <2> QED
    BY <2>1, <2>7, <2>8 DEF SchedulerAgrees, Due
<1>3. CASE DeleteJob
  <2>1. PICK j \in Stored :
          /\ store' = [store EXCEPT ![j] = None] /\ scheduled' = scheduled \ {j} /\ deleted' = deleted \cup {j}
          /\ UNCHANGED <<flaky, run, starts, used, lost, enqueued>>
    BY <1>3, DeletedJob
  <2>2. store \in [CronJob -> JobRecords \cup {None}] /\ j \in CronJob
    BY DEF CTypes, Stored
  <2>3. store'[j] = None /\ \A k \in CronJob : k # j => store'[k] = store[k]
    BY <2>1, <2>2
  <2>4. Stored' = Stored \ {j}
    BY <2>2, <2>3 DEF Stored
  <2> QED
    BY <2>1, <2>3, <2>4 DEF SchedulerAgrees, Stored
<1>4. ASSUME NEW t \in Trigger, Begin(t) PROVE SchedulerAgrees'
  BY <1>4 DEF Begin, SchedulerAgrees, Stored
<1>5. ASSUME NEW t \in Trigger, MakeSession(t) PROVE SchedulerAgrees'
  BY <1>5 DEF MakeSession, AtRest, SchedulerAgrees, Stored
<1>6. ASSUME NEW t \in Trigger, EnqueueRun(t) PROVE SchedulerAgrees'
  BY <1>6 DEF EnqueueRun, AtRest, SchedulerAgrees, Stored
<1>7. ASSUME NEW t \in Trigger, CountRun(t) PROVE SchedulerAgrees'
  <2>1. PICK j \in used :
          /\ run[t] = [pc |-> "count", job |-> j]
          /\ \/ /\ j \in Stored /\ [store[j] EXCEPT !.runs = @ + 1] \in JobRecords
                /\ store' = [store EXCEPT ![j] = [store[j] EXCEPT !.runs = @ + 1]]
             \/ ((j \notin Stored \/ flaky) /\ UNCHANGED store)
          /\ run' = [run EXCEPT ![t] = [pc |-> "idle", job |-> None]]
          /\ UNCHANGED <<flaky, scheduled, starts, used, deleted, lost, enqueued>>
    BY <1>7, CountedRun
  <2>2. store \in [CronJob -> JobRecords \cup {None}] /\ j \in CronJob
    BY DEF CTypes, UsedOnce
  <2>3. \A k \in CronJob : k # j => store'[k] = store[k]
    BY <2>1, <2>2
  <2>4. ASSUME j \in Stored PROVE store'[j] # None /\ store'[j].enabled = store[j].enabled /\ store'[j].schedule = store[j].schedule
    <3>1. CASE UNCHANGED store
      BY <2>4, <3>1 DEF Stored
    <3>2. CASE /\ [store[j] EXCEPT !.runs = @ + 1] \in JobRecords
               /\ store' = [store EXCEPT ![j] = [store[j] EXCEPT !.runs = @ + 1]]
      <4>1. store'[j] = [store[j] EXCEPT !.runs = @ + 1]
        BY <2>2, <3>2
      <4>2. store[j] \in JobRecords
        BY <2>2, <2>4 DEF Stored
      <4> QED
        BY <3>2, <4>1, <4>2, JobsAreThere DEF JobRecords
    <3> QED
      BY <2>1, <3>1, <3>2
  <2>5. Stored' = Stored
    BY <2>1, <2>2, <2>3, <2>4 DEF Stored
  <2>6. \A k \in Stored : store'[k].enabled = store[k].enabled /\ store'[k].schedule = store[k].schedule
    BY <2>3, <2>4 DEF Stored
  <2> QED
    BY <2>1, <2>5, <2>6 DEF SchedulerAgrees
<1>8. CASE TakeJob
  BY <1>8 DEF TakeJob, SchedulerAgrees, Stored
<1>9. CASE CloseOne
  BY <1>9 DEF CloseOne, SchedulerAgrees, Stored
<1>10. CASE RestartCron
  <2>1. PICK loaded \in Loads : scheduled' = UNION {Registered(j, loaded[j]) : j \in {k \in CronJob : loaded[k] # None}}
    BY <1>10 DEF RestartCron
  <2>2. \A k : k \in scheduled' <=> k \in CronJob /\ loaded[k] # None /\ Due(loaded[k])
    BY <2>1 DEF Registered, Due
  <2>3. loaded = store \/ (flaky /\ \A k \in CronJob : loaded[k] = None)
    BY DEF Loads
  <2>4. starts' # 0 /\ flaky' = flaky /\ store' = store
    BY <1>10 DEF RestartCron, CTypes
  <2> QED
    BY <2>2, <2>3, <2>4 DEF SchedulerAgrees, Stored, Due
<1>11. CASE UNCHANGED cvars
  BY <1>11 DEF cvars, SchedulerAgrees, Stored
<1> QED
  BY <1>1, <1>2, <1>3, <1>4, <1>5, <1>6, <1>7, <1>8, <1>9, <1>10, <1>11
  DEF CNext

LEMMA CInitInv == CInit => CInv
<1> SUFFICES ASSUME CInit PROVE CInv
  OBVIOUS
<1>1. Stored = {} /\ \A t \in Trigger : run[t].pc = "idle"
  BY DEF CInit, Stored, AtRest
<1>2. CTypes
  BY CronAssumption DEF CInit, CTypes, AtRest, CronRuns
<1>3. UsedOnce
  BY <1>1 DEF CInit, UsedOnce
<1>4. CountedOnce /\ KeptUntilDeleted /\ SchedulerAgrees
  BY <1>1 DEF CInit, CountedOnce, KeptUntilDeleted, SchedulerAgrees
<1> QED
  BY <1>2, <1>3, <1>4 DEF CInv

LEMMA CInvariant == CSpec => []CInv
<1>1. CInv /\ [CNext]_cvars => CInv'
  BY CTypesKept, UsedOnceKept, CountedOnceKept, KeptUntilDeletedKept, SchedulerAgreesKept DEF CInv
<1> QED
  BY <1>1, CInitInv, PTL DEF CSpec

\* The counts of the cron jobs, the file and the scheduler agree whatever operations, runs and
\* restarts of the controller fall together: a run that was queued is counted once in the job as
\* it is then, no identifier comes back, only a read that fails loses counts or jobs, and the
\* scheduler has exactly the enabled jobs whose schedule parses (CronService).
THEOREM JobsAreKept == CSpec => []JobsKept
<1>1. CInv => RunsCounted
  <2> SUFFICES ASSUME CInv PROVE RunsCounted
    OBVIOUS
  <2>1. ASSUME NEW j \in Stored
        PROVE \/ enqueued[j] = store[j].runs + Cardinality({t \in Trigger : run[t] = [pc |-> "count", job |-> j]})
              \/ (flaky /\ enqueued[j] > store[j].runs + Cardinality({t \in Trigger : run[t] = [pc |-> "count", job |-> j]}))
    BY <2>1 DEF CInv, CountedOnce, Counting
  <2> QED
    BY <2>1 DEF CInv, RunsCounted, KeptUntilDeleted
<1>2. CInv => JobsKept
  BY <1>1 DEF CInv, JobsKept
<1> QED
  BY <1>2, CInvariant, PTL

-----------------------------------------------------------------------------
(* Saved logins.  Where a session is tells what it has (Equipped); what is in a *)
(* file, on its way to one or read from one was saved there (PlacesApart,  *)
(* UsersApart); and without a key a secret login is nowhere but in its own *)
(* session (PlacesSealed, UsersSealed).                                    *)

SavedFiles == [login : Account, at : Nat]
Dirs == [there : BOOLEAN, plain : SavedFiles \cup {None}, sealed : SavedFiles \cup {None},
         last : {"plain", "sealed"}, owner : Account \cup {None}]
Users == [pc : {"closed", "opening", "open", "storing", "stored", "naming", "recording"},
          login : Account \cup {None}, name : AuthProfile \cup {None}, place : Place \cup {None},
          remote : {"idle", "healthy", "failed", "delivered"},
          source : {None, "plain", "sealed", "copy", "gone"}]
Living == {"open", "storing", "stored", "naming", "recording"}

UTypes ==
  /\ lodging \in Lodging /\ process \in Nat /\ hours \in Nat
  /\ dir \in [Place -> Dirs] /\ half \in [Place -> Account \cup {None}]
  /\ archive \in [AuthProfile -> Dirs \cup {None}]
  /\ importing \in AuthProfile \cup {None} /\ (importing # None => archive[importing] # None)
  /\ user \in [Account -> Users]
  /\ begun \in [Place -> SUBSET Account]

\* Where a session is tells what it has.
Equipped ==
  \A s \in Account :
    /\ user[s].pc = "closed" => user[s].name = None /\ user[s].login = None /\ user[s].place = None
    /\ user[s].pc = "opening" =>
         /\ user[s].name = None /\ user[s].source \in {"plain", "sealed", "copy", "gone"}
         /\ user[s].source \in {"sealed", "copy"} => user[s].login \in Account
         /\ IF user[s].source = "copy" THEN user[s].place = None ELSE user[s].place \in Place
    /\ user[s].pc \in Living => user[s].login \in Account
    /\ user[s].pc \in {"storing", "stored", "naming"} => user[s].place \in Place

\* Whose logins may be where: in a file, half a file or an archive of a place, in a session that is
\* opened from it, saves to it, or has its name.
PlacesApart ==
  /\ \A p \in Place : /\ dir[p].plain # None => dir[p].plain.login \in begun[p]
                      /\ dir[p].sealed # None => dir[p].sealed.login \in begun[p]
                      /\ half[p] # None => half[p] \in begun[p]
  /\ \A p \in AuthProfile : archive[p] # None =>
       /\ archive[p].plain # None => archive[p].plain.login \in begun[p]
       /\ archive[p].sealed # None => archive[p].sealed.login \in begun[p]
UsersApart ==
  \A s \in Account :
    /\ user[s].name # None => user[s].login \in begun[user[s].name]
    /\ user[s].pc = "opening" /\ user[s].source = "sealed" => user[s].login \in begun[user[s].place]
    /\ user[s].pc \in {"storing", "stored", "naming"} => user[s].login \in begun[user[s].place]

\* A login that is confidential and was never copied.
Secret(login) == Confidential(login) /\ login \notin bared

\* Without a key nobody but its own session has a secret login, and it is not being saved.
UsersSealed ==
  ~encryption_enabled =>
    \A s \in Account : user[s].login # None /\ Secret(user[s].login) =>
      user[s].login = s /\ user[s].pc \notin {"storing", "stored"}
PlacesSealed ==
  /\ \A p \in Place : /\ dir[p].plain # None => ~Secret(dir[p].plain.login)
                      /\ ~encryption_enabled /\ half[p] # None => ~Secret(half[p])
  /\ \A p \in AuthProfile : archive[p] # None /\ archive[p].plain # None => ~Secret(archive[p].plain.login)

UInv == UTypes /\ Equipped /\ PlacesApart /\ UsersApart /\ UsersSealed /\ PlacesSealed

\* What each step does to the sessions.
LEMMA LoggedIn ==
  ASSUME UTypes, Equipped, NEW s \in Account, LogIn(s)
  PROVE /\ user' \in [Account -> Users] /\ \A t \in Account : t # s => user'[t] = user[t]
        /\ user'[s].pc = "open" /\ user'[s].login = s /\ user'[s].name = None
<1>1. user \in [Account -> Users] /\ user[s] \in Users /\ user[s].name = None
  BY DEF UTypes, Equipped, LogIn
<1>2. user' = [user EXCEPT ![s].pc = "open", ![s].login = s]
  BY DEF LogIn
<1>3. user' \in [Account -> Users]
  BY <1>1, <1>2, ZenonT(40) DEF Users
<1>4. /\ \A t \in Account : t # s => user'[t] = user[t]
      /\ user'[s].pc = "open" /\ user'[s].login = s /\ user'[s].name = user[s].name
  BY <1>1, <1>2 DEF Users
<1> QED
  BY <1>1, <1>3, <1>4

LEMMA OpeningFrom ==
  ASSUME UTypes, Equipped, NEW s \in Account, NEW p \in Place, NEW kind \in {"plain", "sealed"}, OpenFrom(s, p, kind)
  PROVE /\ user' \in [Account -> Users] /\ \A t \in Account : t # s => user'[t] = user[t]
        /\ user'[s].pc = "opening" /\ user'[s].name = None /\ user'[s].place = p /\ user'[s].source = kind
        /\ kind = "plain" => user'[s].login = None
        /\ kind = "sealed" => /\ dir[p].sealed # None /\ dir[p].sealed \in SavedFiles /\ encryption_enabled
                              /\ user'[s].login = dir[p].sealed.login
<1>0. user \in [Account -> Users] /\ user[s] \in Users /\ user[s].name = None
  BY DEF UTypes, Equipped, OpenFrom
<1>1. dir[p] \in Dirs /\ dir[p][kind] # None
  <2>1. dir[p] \in Dirs
    BY DEF UTypes
  <2>2. kind \in Readable(p)
    BY DEF OpenFrom
  <2>3. dir[p][kind] # None
    BY <2>2 DEF Readable
  <2> QED
    BY <2>1, <2>3
<1>2. kind = "sealed" => dir[p].sealed \in SavedFiles /\ dir[p].sealed # None /\ encryption_enabled
  BY <1>1 DEF Dirs, OpenFrom, Openable
<1>3. PICK login \in Account \cup {None} :
        /\ user' = [user EXCEPT ![s].pc = "opening", ![s].place = p, ![s].source = kind, ![s].login = login]
        /\ kind = "plain" => login = None
        /\ kind = "sealed" => login = dir[p].sealed.login
  <2>1. CASE kind = "plain"
    BY <2>1 DEF OpenFrom
  <2>2. CASE kind = "sealed"
    BY <1>2, <2>2 DEF OpenFrom, SavedFiles
  <2> QED
    BY <2>1, <2>2
<1>6. user' = [user EXCEPT ![s].pc = "opening", ![s].place = p, ![s].source = kind, ![s].login = login]
  BY <1>3
<1>4. user' \in [Account -> Users]
  BY <1>0, <1>6, ZenonT(40) DEF Users
<1>5. /\ \A t \in Account : t # s => user'[t] = user[t]
      /\ user'[s].pc = "opening" /\ user'[s].name = user[s].name /\ user'[s].place = p /\ user'[s].source = kind
      /\ user'[s].login = login
  BY <1>0, <1>6 DEF Users
<1> QED
  BY <1>0, <1>1, <1>2, <1>3, <1>4, <1>5

LEMMA HasOpened ==
  ASSUME UTypes, Equipped, NEW s \in Account, Opened(s)
  PROVE /\ user' \in [Account -> Users] /\ \A t \in Account : t # s => user'[t] = user[t]
        /\ user[s].pc = "opening" /\ user'[s].pc = "open" /\ user'[s].login \in Account
        /\ user'[s].name # None => user'[s].name = user[s].place /\ user[s].source # "copy"
        /\ IF user[s].source = "plain"
           THEN /\ user[s].place \in Place /\ dir[user[s].place].plain # None
                /\ user'[s].login = dir[user[s].place].plain.login
           ELSE user[s].source \in {"sealed", "copy"} /\ user'[s].login = user[s].login
<1>1. /\ user \in [Account -> Users] /\ user[s] \in Users /\ user[s].pc = "opening"
      /\ user[s].source \in {"plain", "sealed", "copy"}
  BY DEF UTypes, Equipped, Opened
<1>2. user[s].source = "plain" => /\ user[s].place \in Place /\ dir[user[s].place].plain # None
                                  /\ dir[user[s].place].plain \in SavedFiles
  BY <1>1 DEF UTypes, Equipped, Opened, Dirs
<1>3. PICK login \in Account, name \in AuthProfile \cup {None} :
        /\ user' = [user EXCEPT ![s].pc = "open", ![s].place = None, ![s].source = None, ![s].login = login, ![s].name = name]
        /\ name # None => name = user[s].place /\ user[s].source # "copy"
        /\ login = IF user[s].source = "plain" THEN dir[user[s].place].plain.login ELSE user[s].login
  <2> DEFINE login == IF user[s].source = "plain" THEN dir[user[s].place].plain.login ELSE user[s].login
             name == IF user[s].place \in AuthProfile THEN user[s].place ELSE None
  <2>1. login \in Account
    BY <1>1, <1>2 DEF SavedFiles, Equipped
  <2>2. name \in AuthProfile \cup {None} /\ (name # None => name = user[s].place /\ user[s].source # "copy")
    BY <1>1, LoginsAssumption DEF Equipped
  <2>3. user' = [user EXCEPT ![s].pc = "open", ![s].place = None, ![s].source = None, ![s].login = login, ![s].name = name]
    BY <1>1 DEF Opened, AsOpen
  <2>4. login = IF user[s].source = "plain" THEN dir[user[s].place].plain.login ELSE user[s].login
    OBVIOUS
  <2> HIDE DEF login, name
  <2> QED
    BY <2>1, <2>2, <2>3, <2>4
<1>4. /\ user' \in [Account -> Users] /\ \A t \in Account : t # s => user'[t] = user[t]
      /\ user'[s].pc = "open" /\ user'[s].login = login /\ user'[s].name = name
  BY <1>1, <1>3, ZenonT(40) DEF Users
<1> QED
  BY <1>1, <1>2, <1>3, <1>4, ZenonT(40)

LEMMA GoneAway ==
  ASSUME UTypes, NEW s \in Account, user' = [user EXCEPT ![s] = Away]
  PROVE /\ user' \in [Account -> Users] /\ \A t \in Account : t # s => user'[t] = user[t]
        /\ user'[s].pc = "closed" /\ user'[s].login = None /\ user'[s].name = None /\ user'[s].place = None
<1>1. user \in [Account -> Users] /\ Away \in Users
  BY DEF UTypes, Users, Away
<1> QED
  BY <1>1 DEF Away

LEMMA CopyMade ==
  ASSUME UTypes, Equipped, NEW s \in Account, NEW t \in Account, Copied(s, t)
  PROVE /\ user' \in [Account -> Users] /\ \A o \in Account : o # t => user'[o] = user[o]
        /\ user'[t].pc = "opening" /\ user'[t].login = user[s].login /\ user[s].login \in Account
        /\ user'[t].name = None /\ user'[t].place = None /\ user'[t].source = "copy"
        /\ bared' = bared \cup {user[s].login}
<1>1. /\ user \in [Account -> Users] /\ user[t] \in Users /\ user[s].login \in Account
      /\ user[t].name = None /\ user[t].place = None
  BY DEF UTypes, Equipped, Copied, Living
<1>2. user' = [user EXCEPT ![t].pc = "opening", ![t].login = user[s].login, ![t].source = "copy"]
  BY DEF Copied
<1>3. user' \in [Account -> Users]
  BY <1>1, <1>2 DEF Users
<1>4. /\ \A o \in Account : o # t => user'[o] = user[o]
      /\ user'[t].pc = "opening" /\ user'[t].login = user[s].login
      /\ user'[t].name = user[t].name /\ user'[t].place = user[t].place /\ user'[t].source = "copy"
  BY <1>1, <1>2 DEF Users
<1> QED
  BY <1>1, <1>3, <1>4 DEF Copied

LEMMA Saving ==
  ASSUME UTypes, Equipped, NEW s \in Account, NEW p \in Place, NEW answer \in BOOLEAN, Save(s, p, answer)
  PROVE /\ user' \in [Account -> Users] /\ \A t \in Account : t # s => user'[t] = user[t]
        /\ user'[s].login = user[s].login /\ user'[s].name = user[s].name /\ user[s].login \in Account
        /\ \/ /\ user'[s].pc = "storing" /\ user'[s].place = p /\ ~PolicyBlocks(s, p)
              /\ begun' = [begun EXCEPT ![p] = begun[p] \cup {user[s].login}]
           \/ user'[s].pc = "recording" /\ begun' = begun
<1>1. user \in [Account -> Users] /\ user[s] \in Users /\ user[s].login \in Account
  BY DEF UTypes, Equipped, Save, Living
<1>2. PICK remote \in {"healthy", "failed", user[s].remote}, ready \in BOOLEAN :
        /\ user' = [user EXCEPT ![s].remote = remote, ![s].pc = IF ready THEN "storing" ELSE "recording",
                                ![s].place = IF ready THEN p ELSE None]
        /\ begun' = IF ready THEN [begun EXCEPT ![p] = @ \cup {user[s].login}] ELSE begun
        /\ ready => ~PolicyBlocks(s, p)
  <2>1. PICK ready \in BOOLEAN : ready = (RemoteReady(s, answer) /\ ~PolicyBlocks(s, p))
    OBVIOUS
  <2>2. \E remote \in {"healthy", "failed", user[s].remote} : Checked(s, answer) = [user EXCEPT ![s].remote = remote]
    <3>1. user = [user EXCEPT ![s].remote = user[s].remote]
      BY <1>1 DEF Users
    <3>2. CASE lodging.hosted = "required" /\ Confidential(s)
      BY <3>2 DEF Checked
    <3>3. CASE ~(lodging.hosted = "required" /\ Confidential(s))
      BY <3>1, <3>3 DEF Checked
    <3> QED
      BY <3>2, <3>3
  <2>3. PICK remote \in {"healthy", "failed", user[s].remote} : Checked(s, answer) = [user EXCEPT ![s].remote = remote]
    BY <2>2
  <2>4. user' = [Checked(s, answer) EXCEPT ![s].pc = IF ready THEN "storing" ELSE "recording",
                                           ![s].place = IF ready THEN p ELSE None]
        /\ begun' = IF ready THEN [begun EXCEPT ![p] = @ \cup {user[s].login}] ELSE begun
    BY <2>1 DEF Save
  <2>5. [Checked(s, answer) EXCEPT ![s].pc = IF ready THEN "storing" ELSE "recording",
                                   ![s].place = IF ready THEN p ELSE None]
        = [user EXCEPT ![s].remote = remote, ![s].pc = IF ready THEN "storing" ELSE "recording",
                       ![s].place = IF ready THEN p ELSE None]
    BY <1>1, <2>3
  <2>6. ready => ~PolicyBlocks(s, p)
    BY <2>1
  <2> QED
    BY <2>4, <2>5, <2>6
<1>3. remote \in {"idle", "healthy", "failed", "delivered"}
  BY <1>1, <1>2 DEF Users
<1>4. /\ user' \in [Account -> Users] /\ \A t \in Account : t # s => user'[t] = user[t]
      /\ user'[s].login = user[s].login /\ user'[s].name = user[s].name
      /\ user'[s].pc = (IF ready THEN "storing" ELSE "recording") /\ user'[s].place = (IF ready THEN p ELSE None)
  BY <1>1, <1>2, <1>3 DEF Users
<1> QED
  BY <1>1, <1>2, <1>4

\* The other steps move a session on, with the login it has.
LEMMA MovedOn ==
  ASSUME UTypes, NEW s \in Account, StateStored(s) \/ Sealed(s) \/ SaveFails(s) \/ Named(s) \/ \E answer \in BOOLEAN : Recorded(s, answer)
  PROVE /\ user' \in [Account -> Users] /\ \A t \in Account : t # s => user'[t] = user[t]
        /\ user'[s].login = user[s].login /\ user[s].pc \in Living \ {"open"}
        /\ user'[s].name = user[s].name \/ (user[s].pc = "stored" /\ user'[s].name = user[s].place)
        /\ \/ user'[s].pc \in {"open", "recording"}
           \/ user'[s].pc = "stored" /\ user[s].pc = "storing" /\ user'[s].place = user[s].place
           \/ user'[s].pc = "naming" /\ user[s].pc = "stored" /\ user'[s].place = user[s].place
<1>1. user \in [Account -> Users] /\ user[s] \in Users
  BY DEF UTypes
<1>2. CASE StateStored(s)
  BY <1>1, <1>2 DEF StateStored, Users, Living
<1>3. CASE Sealed(s)
  <2>1. CASE user[s].place \in AuthProfile /\ user' = [user EXCEPT ![s].pc = "naming", ![s].name = user[s].place]
    <3>1. user' \in [Account -> Users]
      BY <1>1, <2>1 DEF Users
    <3>2. /\ \A t \in Account : t # s => user'[t] = user[t]
          /\ user'[s].pc = "naming" /\ user'[s].name = user[s].place /\ user'[s].login = user[s].login
          /\ user'[s].place = user[s].place
      BY <1>1, <2>1 DEF Users
    <3>3. user[s].pc = "stored"
      BY <1>3 DEF Sealed
    <3> QED
      BY <3>1, <3>2, <3>3 DEF Living
  <2>2. CASE user' = [user EXCEPT ![s].pc = "recording"]
    BY <1>1, <1>3, <2>2 DEF Sealed, Users, Living
  <2> QED
    BY <1>3, <2>1, <2>2 DEF Sealed
<1>4. CASE SaveFails(s)
  BY <1>1, <1>4 DEF SaveFails, AsOpen, Users, Living
<1>5. CASE Named(s)
  BY <1>1, <1>5 DEF Named, Users, Living
<1>6. ASSUME NEW answer \in BOOLEAN, Recorded(s, answer)
      PROVE /\ user' \in [Account -> Users] /\ \A t \in Account : t # s => user'[t] = user[t]
            /\ user'[s].login = user[s].login /\ user[s].pc \in Living \ {"open"}
            /\ user'[s].name = user[s].name /\ user'[s].pc = "open"
  <2>1. PICK remote \in {"delivered", "failed", user[s].remote} :
          user' = [user EXCEPT ![s].pc = "open", ![s].place = None, ![s].source = None, ![s].remote = remote]
    <3>1. user' = [[user EXCEPT ![s].pc = "open", ![s].place = None, ![s].source = None]
                     EXCEPT ![s].remote = IF lodging.hosted = "off" THEN @ ELSE IF answer THEN "delivered" ELSE "failed"]
      BY <1>6 DEF Recorded, AsOpen
    <3>2. [user EXCEPT ![s].pc = "open", ![s].place = None, ![s].source = None][s].remote = user[s].remote
      BY <1>1 DEF Users
    <3> QED
      BY <1>1, <3>1, <3>2
  <2>2. user[s].pc = "recording" /\ remote \in {"idle", "healthy", "failed", "delivered"}
    BY <1>1, <1>6, <2>1 DEF Recorded, Users
  <2>3. user' \in [Account -> Users]
    BY <1>1, <2>1, <2>2 DEF Users
  <2>4. /\ \A t \in Account : t # s => user'[t] = user[t]
        /\ user'[s].pc = "open" /\ user'[s].name = user[s].name /\ user'[s].login = user[s].login
    BY <1>1, <2>1 DEF Users
  <2> QED
    BY <2>2, <2>3, <2>4 DEF Living
<1> QED
  BY <1>2, <1>3, <1>4, <1>5, <1>6

\* The import of a profile takes away what sealed states were decrypted to.
LEMMA Unpacking ==
  ASSUME UTypes, NEW p \in AuthProfile, NEW overwrite \in BOOLEAN, ImportBegin(p, overwrite)
  PROVE /\ user' \in [Account -> Users]
        /\ \A s \in Account : \/ user'[s] = user[s]
                              \/ /\ user[s].pc = "opening" /\ user'[s].source = "gone" /\ user[s].source = "sealed"
                                 /\ user'[s].pc = "opening" /\ user'[s].login = user[s].login
                                 /\ user'[s].name = user[s].name /\ user'[s].place = user[s].place
<1>1. user \in [Account -> Users]
  BY DEF UTypes
<1>2. \A s \in Account : [user[s] EXCEPT !.source = "gone"] \in Users
  BY <1>1 DEF Users
<1>3. \A s \in Account : user'[s] = user[s] \/ (user[s].pc = "opening" /\ user[s].source = "sealed" /\ user'[s] = [user[s] EXCEPT !.source = "gone"])
  BY DEF ImportBegin
<1>4. user' \in [Account -> Users]
  BY <1>1, <1>2 DEF ImportBegin
<1> QED
  BY <1>1, <1>3, <1>4 DEF Users

LEMMA NextUsers ==
  ASSUME UTypes, NextProcess
  PROVE /\ user' \in [Account -> Users]
        /\ \A s \in Account : user'[s].pc = "closed" /\ user'[s].login = None /\ user'[s].name = None /\ user'[s].place = None
<1>1. Away \in Users
  BY DEF Users, Away
<1> QED
  BY <1>1 DEF NextProcess, Away

\* What the steps do to the files.
LEMMA SameFiles ==
  ASSUME UTypes, \/ \E s \in Account, p \in Place, answer \in BOOLEAN : Save(s, p, answer)
                 \/ \E s \in Account : Named(s) /\ user[s].place \in Place
                 \/ \E p \in AuthProfile : ReadProfile(p)
  PROVE /\ dir' \in [Place -> Dirs]
        /\ \A q \in Place : dir'[q].plain = dir[q].plain /\ dir'[q].sealed = dir[q].sealed
<1>1. dir \in [Place -> Dirs]
  BY DEF UTypes
<1>2. ASSUME NEW p \in Place, dir' = [dir EXCEPT ![p].there = TRUE]
      PROVE /\ dir' \in [Place -> Dirs]
            /\ \A q \in Place : dir'[q].plain = dir[q].plain /\ dir'[q].sealed = dir[q].sealed
  BY <1>1, <1>2 DEF Dirs
<1>3. ASSUME NEW p \in Place, NEW s \in Account, dir' = [dir EXCEPT ![p].owner = s]
      PROVE /\ dir' \in [Place -> Dirs]
            /\ \A q \in Place : dir'[q].plain = dir[q].plain /\ dir'[q].sealed = dir[q].sealed
  BY <1>1, <1>3 DEF Dirs
<1>4. CASE \E s \in Account, p \in Place, answer \in BOOLEAN : Save(s, p, answer)
  <2>1. PICK p \in Place : dir' = [dir EXCEPT ![p].there = TRUE] \/ dir' = dir
    BY <1>4, ZenonT(40) DEF Save
  <2> QED
    BY <1>1, <1>2, <2>1
<1>5. CASE \E s \in Account : Named(s) /\ user[s].place \in Place
  BY <1>3, <1>5 DEF Named
<1>6. CASE \E p \in AuthProfile : ReadProfile(p)
  BY <1>2, <1>6 DEF ReadProfile, Place
<1> QED
  BY <1>4, <1>5, <1>6

LEMMA SealedFiles ==
  ASSUME UTypes, Equipped, NEW s \in Account, Sealed(s)
  PROVE \E p \in Place :
          /\ p = user[s].place /\ half[p] \in Account /\ half' = [half EXCEPT ![p] = None]
          /\ dir' \in [Place -> Dirs] /\ \A q \in Place : q # p => dir'[q] = dir[q]
          /\ \/ encryption_enabled /\ dir'[p].plain = dir[p].plain /\ dir'[p].sealed.login = half[p]
             \/ ~encryption_enabled /\ dir'[p].sealed = dir[p].sealed /\ dir'[p].plain.login = half[p]
<1>1. PICK p \in Place : p = user[s].place
  BY DEF Sealed, Equipped
<1>2. /\ dir \in [Place -> Dirs] /\ dir[p] \in Dirs /\ half[p] \in Account /\ half' = [half EXCEPT ![p] = None]
      /\ dir' = [dir EXCEPT ![p] = WithState(dir[p], half[p])]
  BY <1>1 DEF UTypes, Sealed, TempOf
<1>3. File(half[p]) \in SavedFiles /\ File(half[p]).login = half[p]
  BY <1>2 DEF File, SavedFiles, UTypes
<1>6. PICK d \in Dirs, f \in SavedFiles : d = dir[p] /\ f = File(half[p])
  BY <1>2, <1>3
<1>4. CASE encryption_enabled
  <2>0. WithState(dir[p], half[p]) = [d EXCEPT !.sealed = f, !.last = "sealed"]
    BY <1>4, <1>6 DEF WithState
  <2>1. WithState(dir[p], half[p]) \in Dirs /\ WithState(dir[p], half[p]).plain = d.plain /\ WithState(dir[p], half[p]).sealed = f
    BY <2>0 DEF Dirs
  <2>2. /\ WithState(dir[p], half[p]) \in Dirs /\ WithState(dir[p], half[p]).plain = dir[p].plain
        /\ WithState(dir[p], half[p]).sealed = File(half[p])
    BY <1>6, <2>1
  <2>3. /\ dir' \in [Place -> Dirs] /\ dir'[p] = WithState(dir[p], half[p])
        /\ \A q \in Place : q # p => dir'[q] = dir[q]
    BY <1>2, <2>2
  <2> QED
    BY <1>1, <1>2, <1>3, <1>4, <2>2, <2>3
<1>5. CASE ~encryption_enabled
  <2>0. WithState(dir[p], half[p]) = [d EXCEPT !.plain = f, !.last = "plain"]
    BY <1>5, <1>6 DEF WithState
  <2>1. WithState(dir[p], half[p]) \in Dirs /\ WithState(dir[p], half[p]).sealed = d.sealed /\ WithState(dir[p], half[p]).plain = f
    BY <2>0 DEF Dirs
  <2>2. /\ WithState(dir[p], half[p]) \in Dirs /\ WithState(dir[p], half[p]).sealed = dir[p].sealed
        /\ WithState(dir[p], half[p]).plain = File(half[p])
    BY <1>6, <2>1
  <2>3. /\ dir' \in [Place -> Dirs] /\ dir'[p] = WithState(dir[p], half[p])
        /\ \A q \in Place : q # p => dir'[q] = dir[q]
    BY <1>2, <2>2
  <2> QED
    BY <1>1, <1>2, <1>3, <1>5, <2>2, <2>3
<1> QED
  BY <1>4, <1>5

LEMMA ImportedFiles ==
  ASSUME UTypes, ImportEnd
  PROVE \E p \in AuthProfile :
          /\ archive[p] # None
          /\ dir' \in [Place -> Dirs] /\ \A q \in Place : q # p => dir'[q] = dir[q]
          /\ \/ dir'[p].plain = dir[p].plain
             \/ archive[p].plain # None /\ dir'[p].plain.login = archive[p].plain.login
          /\ \/ dir'[p].sealed = dir[p].sealed
             \/ archive[p].sealed # None /\ dir'[p].sealed.login = archive[p].sealed.login
<1>1. PICK p \in AuthProfile : p = importing /\ archive[p] # None
  BY DEF ImportEnd, UTypes
<1>2. /\ p \in Place /\ dir \in [Place -> Dirs] /\ dir[p] \in Dirs /\ archive[p] \in Dirs /\ hours \in Nat
  BY <1>1 DEF UTypes, Place
<1> DEFINE a == archive[p]
           plain == Or(Restored(a.plain), dir[p].plain)
           sealed == Or(Restored(a.sealed), dir[p].sealed)
           last == IF a.sealed # None THEN "sealed" ELSE IF a.plain # None THEN "plain" ELSE dir[p].last
           owner == Or(a.owner, dir[p].owner)
<1>3. ASSUME NEW copy \in SavedFiles \cup {None}, NEW old \in SavedFiles \cup {None}
      PROVE /\ Or(Restored(copy), old) \in SavedFiles \cup {None}
            /\ \/ Or(Restored(copy), old) = old
               \/ copy # None /\ Or(Restored(copy), old).login = copy.login
  <2>1. CASE copy = None
    BY <2>1 DEF Or, Restored
  <2>2. CASE copy # None
    <3>1. [copy EXCEPT !.at = hours] \in SavedFiles /\ [copy EXCEPT !.at = hours].login = copy.login
      BY <1>2, <2>2 DEF SavedFiles
    <3>2. Restored(copy) = [copy EXCEPT !.at = hours]
      BY <2>2 DEF Restored
    <3> QED
      BY <2>2, <3>1, <3>2 DEF Or
  <2> QED
    BY <2>1, <2>2
<1>4. a.plain \in SavedFiles \cup {None} /\ a.sealed \in SavedFiles \cup {None} /\ a.owner \in Account \cup {None}
      /\ dir[p].plain \in SavedFiles \cup {None} /\ dir[p].sealed \in SavedFiles \cup {None}
      /\ dir[p].owner \in Account \cup {None} /\ dir[p].last \in {"plain", "sealed"}
  BY <1>2 DEF Dirs
<1>5. plain \in SavedFiles \cup {None} /\ (plain = dir[p].plain \/ (a.plain # None /\ plain.login = a.plain.login))
  BY <1>3, <1>4
<1>6. sealed \in SavedFiles \cup {None} /\ (sealed = dir[p].sealed \/ (a.sealed # None /\ sealed.login = a.sealed.login))
  BY <1>3, <1>4
<1>7. last \in {"plain", "sealed"} /\ owner \in Account \cup {None}
  BY <1>4 DEF Or
<1>8. dir' = [dir EXCEPT ![p] = [there |-> TRUE, plain |-> plain, sealed |-> sealed, last |-> last, owner |-> owner]]
  BY <1>1, <1>2 DEF ImportEnd
<1> HIDE DEF plain, sealed, last, owner
<1>9. [there |-> TRUE, plain |-> plain, sealed |-> sealed, last |-> last, owner |-> owner] \in Dirs
  BY <1>5, <1>6, <1>7 DEF Dirs
<1>10. /\ dir' \in [Place -> Dirs] /\ dir'[p].plain = plain /\ dir'[p].sealed = sealed
       /\ \A q \in Place : q # p => dir'[q] = dir[q]
  BY <1>2, <1>8, <1>9
<1> QED
  BY <1>1, <1>5, <1>6, <1>10

LEMMA EmptiedPlace ==
  ASSUME UTypes, NEW p \in AuthProfile, NEW overwrite \in BOOLEAN, ImportBegin(p, overwrite)
  PROVE /\ dir' \in [Place -> Dirs] /\ dir'[p].plain = None /\ dir'[p].sealed = None
        /\ \A q \in Place : q # p => dir'[q] = dir[q]
        /\ half' \in [Place -> Account \cup {None}] /\ half'[p] = None /\ \A q \in Place : q # p => half'[q] = half[q]
<1>1. p \in Place /\ NoDir \in Dirs /\ dir \in [Place -> Dirs] /\ half \in [Place -> Account \cup {None}]
  BY DEF UTypes, Place, NoDir, Dirs
<1> QED
  BY <1>1 DEF ImportBegin, NoDir

LEMMA UTypesKept ==
  UTypes /\ Equipped /\ [UNext]_uvars => UTypes'
<1> SUFFICES ASSUME UTypes, Equipped, [UNext]_uvars PROVE UTypes'
  OBVIOUS
<1>1. ASSUME NEW s \in Account, LogIn(s) PROVE UTypes'
  <2>1. /\ user' \in [Account -> Users] /\ \A t \in Account : t # s => user'[t] = user[t]
        /\ user'[s].pc = "open" /\ user'[s].login = s /\ user'[s].name = None
    BY <1>1, LoggedIn
  <2>2. UNCHANGED dir
    BY <1>1 DEF LogIn
  <2>3. user' \in [Account -> Users] /\ dir' \in [Place -> Dirs]
    BY <2>1, <2>2 DEF UTypes
  <2>4. begun' \in [Place -> SUBSET Account]
    BY <1>1, <2>1 DEF UTypes, LogIn
  <2>5. half' \in [Place -> Account \cup {None}]
    BY <1>1 DEF LogIn, UTypes
  <2>6. /\ archive' \in [AuthProfile -> Dirs \cup {None}] /\ importing' \in AuthProfile \cup {None}
        /\ importing' # None => archive'[importing'] # None
    BY <1>1 DEF LogIn, UTypes
  <2>7. lodging' \in Lodging /\ process' \in Nat /\ hours' \in Nat
    BY <1>1 DEF LogIn, UTypes
  <2> QED
    BY <2>3, <2>4, <2>5, <2>6, <2>7 DEF UTypes
<1>2. ASSUME NEW s \in Account, Opened(s) PROVE UTypes'
  <2>1. /\ user' \in [Account -> Users] /\ \A t \in Account : t # s => user'[t] = user[t]
        /\ user[s].pc = "opening" /\ user'[s].pc = "open" /\ user'[s].login \in Account
        /\ user'[s].name # None => user'[s].name = user[s].place /\ user[s].source # "copy"
        /\ IF user[s].source = "plain"
           THEN /\ user[s].place \in Place /\ dir[user[s].place].plain # None
                /\ user'[s].login = dir[user[s].place].plain.login
           ELSE user[s].source \in {"sealed", "copy"} /\ user'[s].login = user[s].login
    BY <1>2, HasOpened
  <2>2. UNCHANGED dir
    BY <1>2 DEF Opened
  <2>3. user' \in [Account -> Users] /\ dir' \in [Place -> Dirs]
    BY <2>1, <2>2 DEF UTypes
  <2>4. begun' \in [Place -> SUBSET Account]
    BY <1>2, <2>1 DEF UTypes, Opened
  <2>5. half' \in [Place -> Account \cup {None}]
    BY <1>2 DEF Opened, UTypes
  <2>6. /\ archive' \in [AuthProfile -> Dirs \cup {None}] /\ importing' \in AuthProfile \cup {None}
        /\ importing' # None => archive'[importing'] # None
    BY <1>2 DEF Opened, UTypes
  <2>7. lodging' \in Lodging /\ process' \in Nat /\ hours' \in Nat
    BY <1>2 DEF Opened, UTypes
  <2> QED
    BY <2>3, <2>4, <2>5, <2>6, <2>7 DEF UTypes
<1>3. ASSUME NEW s \in Account, OpenFails(s) PROVE UTypes'
  <2>1. /\ user' \in [Account -> Users] /\ \A t \in Account : t # s => user'[t] = user[t]
        /\ user'[s].pc = "closed" /\ user'[s].login = None /\ user'[s].name = None /\ user'[s].place = None
    BY <1>3, GoneAway DEF OpenFails
  <2>2. UNCHANGED dir
    BY <1>3 DEF OpenFails
  <2>3. user' \in [Account -> Users] /\ dir' \in [Place -> Dirs]
    BY <2>1, <2>2 DEF UTypes
  <2>4. begun' \in [Place -> SUBSET Account]
    BY <1>3, <2>1 DEF UTypes, OpenFails
  <2>5. half' \in [Place -> Account \cup {None}]
    BY <1>3 DEF OpenFails, UTypes
  <2>6. /\ archive' \in [AuthProfile -> Dirs \cup {None}] /\ importing' \in AuthProfile \cup {None}
        /\ importing' # None => archive'[importing'] # None
    BY <1>3 DEF OpenFails, UTypes
  <2>7. lodging' \in Lodging /\ process' \in Nat /\ hours' \in Nat
    BY <1>3 DEF OpenFails, UTypes
  <2> QED
    BY <2>3, <2>4, <2>5, <2>6, <2>7 DEF UTypes
<1>4. ASSUME NEW s \in Account, CloseSession(s) PROVE UTypes'
  <2>1. /\ user' \in [Account -> Users] /\ \A t \in Account : t # s => user'[t] = user[t]
        /\ user'[s].pc = "closed" /\ user'[s].login = None /\ user'[s].name = None /\ user'[s].place = None
    BY <1>4, GoneAway DEF CloseSession
  <2>2. UNCHANGED dir
    BY <1>4 DEF CloseSession
  <2>3. user' \in [Account -> Users] /\ dir' \in [Place -> Dirs]
    BY <2>1, <2>2 DEF UTypes
  <2>4. begun' \in [Place -> SUBSET Account]
    BY <1>4, <2>1 DEF UTypes, CloseSession
  <2>5. half' \in [Place -> Account \cup {None}]
    BY <1>4 DEF CloseSession, UTypes
  <2>6. /\ archive' \in [AuthProfile -> Dirs \cup {None}] /\ importing' \in AuthProfile \cup {None}
        /\ importing' # None => archive'[importing'] # None
    BY <1>4 DEF CloseSession, UTypes
  <2>7. lodging' \in Lodging /\ process' \in Nat /\ hours' \in Nat
    BY <1>4 DEF CloseSession, UTypes
  <2> QED
    BY <2>3, <2>4, <2>5, <2>6, <2>7 DEF UTypes
<1>5. ASSUME NEW s \in Account, NEW p \in Place, NEW kind \in {"plain", "sealed"}, OpenFrom(s, p, kind) PROVE UTypes'
  <2>1. /\ user' \in [Account -> Users] /\ \A t \in Account : t # s => user'[t] = user[t]
        /\ user'[s].pc = "opening" /\ user'[s].name = None /\ user'[s].place = p /\ user'[s].source = kind
        /\ kind = "plain" => user'[s].login = None
        /\ kind = "sealed" => /\ dir[p].sealed # None /\ dir[p].sealed \in SavedFiles /\ encryption_enabled
                              /\ user'[s].login = dir[p].sealed.login
    BY <1>5, OpeningFrom
  <2>2. UNCHANGED dir
    BY <1>5 DEF OpenFrom
  <2>3. user' \in [Account -> Users] /\ dir' \in [Place -> Dirs]
    BY <2>1, <2>2 DEF UTypes
  <2>4. begun' \in [Place -> SUBSET Account]
    BY <1>5, <2>1 DEF UTypes, OpenFrom
  <2>5. half' \in [Place -> Account \cup {None}]
    BY <1>5 DEF OpenFrom, UTypes
  <2>6. /\ archive' \in [AuthProfile -> Dirs \cup {None}] /\ importing' \in AuthProfile \cup {None}
        /\ importing' # None => archive'[importing'] # None
    BY <1>5 DEF OpenFrom, UTypes
  <2>7. lodging' \in Lodging /\ process' \in Nat /\ hours' \in Nat
    BY <1>5 DEF OpenFrom, UTypes
  <2> QED
    BY <2>3, <2>4, <2>5, <2>6, <2>7 DEF UTypes
<1>6. ASSUME NEW s \in Account, NEW t \in Account, Copied(s, t) PROVE UTypes'
  <2>1. /\ user' \in [Account -> Users] /\ \A o \in Account : o # t => user'[o] = user[o]
        /\ user'[t].pc = "opening" /\ user'[t].login = user[s].login /\ user[s].login \in Account
        /\ user'[t].name = None /\ user'[t].place = None /\ user'[t].source = "copy"
        /\ bared' = bared \cup {user[s].login}
    BY <1>6, CopyMade
  <2>2. UNCHANGED dir
    BY <1>6 DEF Copied
  <2>3. user' \in [Account -> Users] /\ dir' \in [Place -> Dirs]
    BY <2>1, <2>2 DEF UTypes
  <2>4. begun' \in [Place -> SUBSET Account]
    BY <1>6, <2>1 DEF UTypes, Copied
  <2>5. half' \in [Place -> Account \cup {None}]
    BY <1>6 DEF Copied, UTypes
  <2>6. /\ archive' \in [AuthProfile -> Dirs \cup {None}] /\ importing' \in AuthProfile \cup {None}
        /\ importing' # None => archive'[importing'] # None
    BY <1>6 DEF Copied, UTypes
  <2>7. lodging' \in Lodging /\ process' \in Nat /\ hours' \in Nat
    BY <1>6 DEF Copied, UTypes
  <2> QED
    BY <2>3, <2>4, <2>5, <2>6, <2>7 DEF UTypes
<1>7. ASSUME NEW s \in Account, NEW p \in Place, NEW answer \in BOOLEAN, Save(s, p, answer) PROVE UTypes'
  <2>1. /\ user' \in [Account -> Users] /\ \A t \in Account : t # s => user'[t] = user[t]
        /\ user'[s].login = user[s].login /\ user'[s].name = user[s].name /\ user[s].login \in Account
        /\ \/ /\ user'[s].pc = "storing" /\ user'[s].place = p /\ ~PolicyBlocks(s, p)
              /\ begun' = [begun EXCEPT ![p] = begun[p] \cup {user[s].login}]
           \/ user'[s].pc = "recording" /\ begun' = begun
    BY <1>7, Saving
  <2>2. dir' \in [Place -> Dirs] /\ \A q \in Place : dir'[q].plain = dir[q].plain /\ dir'[q].sealed = dir[q].sealed
    BY <1>7, SameFiles
  <2>3. user' \in [Account -> Users] /\ dir' \in [Place -> Dirs]
    BY <2>1, <2>2 DEF UTypes
  <2>4. begun' \in [Place -> SUBSET Account]
    BY <1>7, <2>1 DEF UTypes
  <2>5. half' \in [Place -> Account \cup {None}]
    BY <1>7 DEF Save, UTypes
  <2>6. /\ archive' \in [AuthProfile -> Dirs \cup {None}] /\ importing' \in AuthProfile \cup {None}
        /\ importing' # None => archive'[importing'] # None
    BY <1>7 DEF Save, UTypes
  <2>7. lodging' \in Lodging /\ process' \in Nat /\ hours' \in Nat
    BY <1>7 DEF Save, UTypes
  <2> QED
    BY <2>3, <2>4, <2>5, <2>6, <2>7 DEF UTypes
<1>8. ASSUME NEW s \in Account, StateStored(s) PROVE UTypes'
  <2>1. /\ user' \in [Account -> Users] /\ \A t \in Account : t # s => user'[t] = user[t]
        /\ user'[s].login = user[s].login /\ user[s].pc \in Living \ {"open"}
        /\ user'[s].name = user[s].name \/ (user[s].pc = "stored" /\ user'[s].name = user[s].place)
        /\ \/ user'[s].pc \in {"open", "recording"}
           \/ user'[s].pc = "stored" /\ user[s].pc = "storing" /\ user'[s].place = user[s].place
           \/ user'[s].pc = "naming" /\ user[s].pc = "stored" /\ user'[s].place = user[s].place
    BY <1>8, MovedOn
  <2>2. UNCHANGED dir
    BY <1>8 DEF StateStored
  <2>3. user' \in [Account -> Users] /\ dir' \in [Place -> Dirs]
    BY <2>1, <2>2 DEF UTypes
  <2>4. begun' \in [Place -> SUBSET Account]
    BY <1>8, <2>1 DEF UTypes, StateStored
  <2>5. half' \in [Place -> Account \cup {None}]
    <3>1. user[s].login \in Account
      BY <1>8 DEF StateStored, Equipped, Living
    <3> QED
      BY <1>8, <3>1 DEF StateStored, UTypes
  <2>6. /\ archive' \in [AuthProfile -> Dirs \cup {None}] /\ importing' \in AuthProfile \cup {None}
        /\ importing' # None => archive'[importing'] # None
    BY <1>8 DEF StateStored, UTypes
  <2>7. lodging' \in Lodging /\ process' \in Nat /\ hours' \in Nat
    BY <1>8 DEF StateStored, UTypes
  <2> QED
    BY <2>3, <2>4, <2>5, <2>6, <2>7 DEF UTypes
<1>9. ASSUME NEW s \in Account, Sealed(s) PROVE UTypes'
  <2>1. /\ user' \in [Account -> Users] /\ \A t \in Account : t # s => user'[t] = user[t]
        /\ user'[s].login = user[s].login /\ user[s].pc \in Living \ {"open"}
        /\ user'[s].name = user[s].name \/ (user[s].pc = "stored" /\ user'[s].name = user[s].place)
        /\ \/ user'[s].pc \in {"open", "recording"}
           \/ user'[s].pc = "stored" /\ user[s].pc = "storing" /\ user'[s].place = user[s].place
           \/ user'[s].pc = "naming" /\ user[s].pc = "stored" /\ user'[s].place = user[s].place
    BY <1>9, MovedOn
  <2>2. PICK q \in Place :
          /\ q = user[s].place /\ half[q] \in Account /\ half' = [half EXCEPT ![q] = None]
          /\ dir' \in [Place -> Dirs] /\ \A o \in Place : o # q => dir'[o] = dir[o]
          /\ \/ encryption_enabled /\ dir'[q].plain = dir[q].plain /\ dir'[q].sealed.login = half[q]
             \/ ~encryption_enabled /\ dir'[q].sealed = dir[q].sealed /\ dir'[q].plain.login = half[q]
    BY <1>9, SealedFiles
  <2>3. user' \in [Account -> Users] /\ dir' \in [Place -> Dirs]
    BY <2>1, <2>2 DEF UTypes
  <2>4. begun' \in [Place -> SUBSET Account]
    BY <1>9, <2>1 DEF UTypes, Sealed
  <2>5. half' \in [Place -> Account \cup {None}]
    BY <2>2 DEF UTypes
  <2>6. /\ archive' \in [AuthProfile -> Dirs \cup {None}] /\ importing' \in AuthProfile \cup {None}
        /\ importing' # None => archive'[importing'] # None
    BY <1>9 DEF Sealed, UTypes
  <2>7. lodging' \in Lodging /\ process' \in Nat /\ hours' \in Nat
    BY <1>9 DEF Sealed, UTypes
  <2> QED
    BY <2>3, <2>4, <2>5, <2>6, <2>7 DEF UTypes
<1>10. ASSUME NEW s \in Account, SaveFails(s) PROVE UTypes'
  <2>1. /\ user' \in [Account -> Users] /\ \A t \in Account : t # s => user'[t] = user[t]
        /\ user'[s].login = user[s].login /\ user[s].pc \in Living \ {"open"}
        /\ user'[s].name = user[s].name \/ (user[s].pc = "stored" /\ user'[s].name = user[s].place)
        /\ \/ user'[s].pc \in {"open", "recording"}
           \/ user'[s].pc = "stored" /\ user[s].pc = "storing" /\ user'[s].place = user[s].place
           \/ user'[s].pc = "naming" /\ user[s].pc = "stored" /\ user'[s].place = user[s].place
    BY <1>10, MovedOn
  <2>2. UNCHANGED dir
    BY <1>10 DEF SaveFails
  <2>3. user' \in [Account -> Users] /\ dir' \in [Place -> Dirs]
    BY <2>1, <2>2 DEF UTypes
  <2>4. begun' \in [Place -> SUBSET Account]
    BY <1>10, <2>1 DEF UTypes, SaveFails
  <2>5. half' \in [Place -> Account \cup {None}]
    BY <1>10 DEF SaveFails, UTypes
  <2>6. /\ archive' \in [AuthProfile -> Dirs \cup {None}] /\ importing' \in AuthProfile \cup {None}
        /\ importing' # None => archive'[importing'] # None
    BY <1>10 DEF SaveFails, UTypes
  <2>7. lodging' \in Lodging /\ process' \in Nat /\ hours' \in Nat
    BY <1>10 DEF SaveFails, UTypes
  <2> QED
    BY <2>3, <2>4, <2>5, <2>6, <2>7 DEF UTypes
<1>11. ASSUME NEW s \in Account, Named(s) PROVE UTypes'
  <2>1. /\ user' \in [Account -> Users] /\ \A t \in Account : t # s => user'[t] = user[t]
        /\ user'[s].login = user[s].login /\ user[s].pc \in Living \ {"open"}
        /\ user'[s].name = user[s].name \/ (user[s].pc = "stored" /\ user'[s].name = user[s].place)
        /\ \/ user'[s].pc \in {"open", "recording"}
           \/ user'[s].pc = "stored" /\ user[s].pc = "storing" /\ user'[s].place = user[s].place
           \/ user'[s].pc = "naming" /\ user[s].pc = "stored" /\ user'[s].place = user[s].place
    BY <1>11, MovedOn
  <2>2. dir' \in [Place -> Dirs] /\ \A q \in Place : dir'[q].plain = dir[q].plain /\ dir'[q].sealed = dir[q].sealed
    <3>1. user[s].place \in Place
      BY <1>11 DEF Named, Equipped
    <3> QED
      BY <1>11, <3>1, SameFiles
  <2>3. user' \in [Account -> Users] /\ dir' \in [Place -> Dirs]
    BY <2>1, <2>2 DEF UTypes
  <2>4. begun' \in [Place -> SUBSET Account]
    BY <1>11, <2>1 DEF UTypes, Named
  <2>5. half' \in [Place -> Account \cup {None}]
    BY <1>11 DEF Named, UTypes
  <2>6. /\ archive' \in [AuthProfile -> Dirs \cup {None}] /\ importing' \in AuthProfile \cup {None}
        /\ importing' # None => archive'[importing'] # None
    BY <1>11 DEF Named, UTypes
  <2>7. lodging' \in Lodging /\ process' \in Nat /\ hours' \in Nat
    BY <1>11 DEF Named, UTypes
  <2> QED
    BY <2>3, <2>4, <2>5, <2>6, <2>7 DEF UTypes
<1>12. ASSUME NEW s \in Account, NEW answer \in BOOLEAN, Recorded(s, answer) PROVE UTypes'
  <2>1. /\ user' \in [Account -> Users] /\ \A t \in Account : t # s => user'[t] = user[t]
        /\ user'[s].login = user[s].login /\ user[s].pc \in Living \ {"open"}
        /\ user'[s].name = user[s].name \/ (user[s].pc = "stored" /\ user'[s].name = user[s].place)
        /\ \/ user'[s].pc \in {"open", "recording"}
           \/ user'[s].pc = "stored" /\ user[s].pc = "storing" /\ user'[s].place = user[s].place
           \/ user'[s].pc = "naming" /\ user[s].pc = "stored" /\ user'[s].place = user[s].place
    BY <1>12, MovedOn
  <2>2. UNCHANGED dir
    BY <1>12 DEF Recorded
  <2>3. user' \in [Account -> Users] /\ dir' \in [Place -> Dirs]
    BY <2>1, <2>2 DEF UTypes
  <2>4. begun' \in [Place -> SUBSET Account]
    BY <1>12, <2>1 DEF UTypes, Recorded
  <2>5. half' \in [Place -> Account \cup {None}]
    BY <1>12 DEF Recorded, UTypes
  <2>6. /\ archive' \in [AuthProfile -> Dirs \cup {None}] /\ importing' \in AuthProfile \cup {None}
        /\ importing' # None => archive'[importing'] # None
    BY <1>12 DEF Recorded, UTypes
  <2>7. lodging' \in Lodging /\ process' \in Nat /\ hours' \in Nat
    BY <1>12 DEF Recorded, UTypes
  <2> QED
    BY <2>3, <2>4, <2>5, <2>6, <2>7 DEF UTypes
<1>13. ASSUME NEW p \in AuthProfile, ReadProfile(p) PROVE UTypes'
  <2>1. UNCHANGED user
    BY <1>13 DEF ReadProfile
  <2>2. dir' \in [Place -> Dirs] /\ \A q \in Place : dir'[q].plain = dir[q].plain /\ dir'[q].sealed = dir[q].sealed
    BY <1>13, SameFiles
  <2>3. user' \in [Account -> Users] /\ dir' \in [Place -> Dirs]
    BY <2>1, <2>2 DEF UTypes
  <2>4. begun' \in [Place -> SUBSET Account]
    BY <1>13, <2>1 DEF UTypes, ReadProfile
  <2>5. half' \in [Place -> Account \cup {None}]
    BY <1>13 DEF ReadProfile, UTypes
  <2>6. /\ archive' \in [AuthProfile -> Dirs \cup {None}] /\ importing' \in AuthProfile \cup {None}
        /\ importing' # None => archive'[importing'] # None
    BY <1>13 DEF ReadProfile, UTypes
  <2>7. lodging' \in Lodging /\ process' \in Nat /\ hours' \in Nat
    BY <1>13 DEF ReadProfile, UTypes
  <2> QED
    BY <2>3, <2>4, <2>5, <2>6, <2>7 DEF UTypes
<1>14. ASSUME NEW p \in AuthProfile, Export(p) PROVE UTypes'
  <2>1. UNCHANGED user
    BY <1>14 DEF Export
  <2>2. UNCHANGED dir
    BY <1>14 DEF Export
  <2>3. user' \in [Account -> Users] /\ dir' \in [Place -> Dirs]
    BY <2>1, <2>2 DEF UTypes
  <2>4. begun' \in [Place -> SUBSET Account]
    BY <1>14, <2>1 DEF UTypes, Export
  <2>5. half' \in [Place -> Account \cup {None}]
    BY <1>14 DEF Export, UTypes
  <2>6. /\ archive' \in [AuthProfile -> Dirs \cup {None}] /\ importing' \in AuthProfile \cup {None}
        /\ importing' # None => archive'[importing'] # None
    <3>1. p \in Place /\ dir[p] \in Dirs
      BY DEF UTypes, Place
    <3>2. dir[p] # None
      BY <3>1, LoginsAssumption DEF Dirs, SavedFiles
    <3> QED
      BY <1>14, <3>1, <3>2 DEF Export, UTypes
  <2>7. lodging' \in Lodging /\ process' \in Nat /\ hours' \in Nat
    BY <1>14 DEF Export, UTypes
  <2> QED
    BY <2>3, <2>4, <2>5, <2>6, <2>7 DEF UTypes
<1>15. ASSUME NEW p \in AuthProfile, NEW overwrite \in BOOLEAN, ImportBegin(p, overwrite) PROVE UTypes'
  <2>1. /\ user' \in [Account -> Users]
        /\ \A s \in Account : \/ user'[s] = user[s]
                              \/ /\ user[s].pc = "opening" /\ user'[s].source = "gone" /\ user[s].source = "sealed"
                                 /\ user'[s].pc = "opening" /\ user'[s].login = user[s].login
                                 /\ user'[s].name = user[s].name /\ user'[s].place = user[s].place
    BY <1>15, Unpacking
  <2>2. /\ dir' \in [Place -> Dirs] /\ dir'[p].plain = None /\ dir'[p].sealed = None
        /\ \A q \in Place : q # p => dir'[q] = dir[q]
        /\ half' \in [Place -> Account \cup {None}] /\ half'[p] = None /\ \A q \in Place : q # p => half'[q] = half[q]
    BY <1>15, EmptiedPlace
  <2>3. user' \in [Account -> Users] /\ dir' \in [Place -> Dirs]
    BY <2>1, <2>2 DEF UTypes
  <2>4. begun' \in [Place -> SUBSET Account]
    BY <1>15, <2>1 DEF UTypes, ImportBegin
  <2>5. half' \in [Place -> Account \cup {None}]
    BY <2>2
  <2>6. /\ archive' \in [AuthProfile -> Dirs \cup {None}] /\ importing' \in AuthProfile \cup {None}
        /\ importing' # None => archive'[importing'] # None
    BY <1>15 DEF ImportBegin, UTypes
  <2>7. lodging' \in Lodging /\ process' \in Nat /\ hours' \in Nat
    BY <1>15 DEF ImportBegin, UTypes
  <2> QED
    BY <2>3, <2>4, <2>5, <2>6, <2>7 DEF UTypes
<1>16. CASE ImportEnd
  <2>1. UNCHANGED user
    BY <1>16 DEF ImportEnd
  <2>2. PICK p \in AuthProfile :
          /\ archive[p] # None
          /\ dir' \in [Place -> Dirs] /\ \A q \in Place : q # p => dir'[q] = dir[q]
          /\ \/ dir'[p].plain = dir[p].plain
             \/ archive[p].plain # None /\ dir'[p].plain.login = archive[p].plain.login
          /\ \/ dir'[p].sealed = dir[p].sealed
             \/ archive[p].sealed # None /\ dir'[p].sealed.login = archive[p].sealed.login
    BY <1>16, ImportedFiles
  <2>3. user' \in [Account -> Users] /\ dir' \in [Place -> Dirs]
    BY <2>1, <2>2 DEF UTypes
  <2>4. begun' \in [Place -> SUBSET Account]
    BY <1>16, <2>1 DEF UTypes, ImportEnd
  <2>5. half' \in [Place -> Account \cup {None}]
    BY <1>16 DEF ImportEnd, UTypes
  <2>6. /\ archive' \in [AuthProfile -> Dirs \cup {None}] /\ importing' \in AuthProfile \cup {None}
        /\ importing' # None => archive'[importing'] # None
    BY <1>16 DEF ImportEnd, UTypes
  <2>7. lodging' \in Lodging /\ process' \in Nat /\ hours' \in Nat
    BY <1>16 DEF ImportEnd, UTypes
  <2> QED
    BY <2>3, <2>4, <2>5, <2>6, <2>7 DEF UTypes
<1>17. CASE AnHour
  <2>1. UNCHANGED user
    BY <1>17 DEF AnHour
  <2>2. UNCHANGED dir
    BY <1>17 DEF AnHour
  <2>3. user' \in [Account -> Users] /\ dir' \in [Place -> Dirs]
    BY <2>1, <2>2 DEF UTypes
  <2>4. begun' \in [Place -> SUBSET Account]
    BY <1>17, <2>1 DEF UTypes, AnHour
  <2>5. half' \in [Place -> Account \cup {None}]
    BY <1>17 DEF AnHour, UTypes
  <2>6. /\ archive' \in [AuthProfile -> Dirs \cup {None}] /\ importing' \in AuthProfile \cup {None}
        /\ importing' # None => archive'[importing'] # None
    BY <1>17 DEF AnHour, UTypes
  <2>7. lodging' \in Lodging /\ process' \in Nat /\ hours' \in Nat
    BY <1>17 DEF AnHour, UTypes
  <2> QED
    BY <2>3, <2>4, <2>5, <2>6, <2>7 DEF UTypes
<1>18. CASE NextProcess
  <2>1. /\ user' \in [Account -> Users]
        /\ \A s \in Account : user'[s].pc = "closed" /\ user'[s].login = None /\ user'[s].name = None /\ user'[s].place = None
    BY <1>18, NextUsers
  <2>2. UNCHANGED dir
    BY <1>18 DEF NextProcess
  <2>3. user' \in [Account -> Users] /\ dir' \in [Place -> Dirs]
    BY <2>1, <2>2 DEF UTypes
  <2>4. begun' \in [Place -> SUBSET Account]
    BY <1>18, <2>1 DEF UTypes, NextProcess
  <2>5. half' \in [Place -> Account \cup {None}]
    BY <1>18 DEF NextProcess
  <2>6. /\ archive' \in [AuthProfile -> Dirs \cup {None}] /\ importing' \in AuthProfile \cup {None}
        /\ importing' # None => archive'[importing'] # None
    BY <1>18 DEF NextProcess, UTypes
  <2>7. lodging' \in Lodging /\ process' \in Nat /\ hours' \in Nat
    BY <1>18 DEF NextProcess, UTypes
  <2> QED
    BY <2>3, <2>4, <2>5, <2>6, <2>7 DEF UTypes
<1>19. CASE UNCHANGED uvars
  BY <1>19 DEF uvars, UTypes
<1> QED
  BY <1>1, <1>2, <1>3, <1>4, <1>5, <1>6, <1>7, <1>8, <1>9, <1>10, <1>11, <1>12, <1>13, <1>14,
     <1>15, <1>16, <1>17, <1>18, <1>19
  DEF UNext, Fork, ShadowBrowse

LEMMA EquippedKept ==
  UTypes /\ Equipped /\ [UNext]_uvars => Equipped'
<1> SUFFICES ASSUME UTypes, Equipped, [UNext]_uvars PROVE Equipped'
  OBVIOUS
<1>1. ASSUME NEW s \in Account, LogIn(s) PROVE Equipped'
  <2>1. /\ user' \in [Account -> Users] /\ \A t \in Account : t # s => user'[t] = user[t]
        /\ user'[s].pc = "open" /\ user'[s].login = s /\ user'[s].name = None
    BY <1>1, LoggedIn
  <2> QED
    BY <2>1 DEF Equipped, Living
<1>2. ASSUME NEW s \in Account, Opened(s) PROVE Equipped'
  <2>1. /\ user' \in [Account -> Users] /\ \A t \in Account : t # s => user'[t] = user[t]
        /\ user[s].pc = "opening" /\ user'[s].pc = "open" /\ user'[s].login \in Account
        /\ user'[s].name # None => user'[s].name = user[s].place /\ user[s].source # "copy"
        /\ IF user[s].source = "plain"
           THEN /\ user[s].place \in Place /\ dir[user[s].place].plain # None
                /\ user'[s].login = dir[user[s].place].plain.login
           ELSE user[s].source \in {"sealed", "copy"} /\ user'[s].login = user[s].login
    BY <1>2, HasOpened
  <2> QED
    BY <2>1 DEF Equipped, Living
<1>3. ASSUME NEW s \in Account, OpenFails(s) PROVE Equipped'
  <2>1. /\ user' \in [Account -> Users] /\ \A t \in Account : t # s => user'[t] = user[t]
        /\ user'[s].pc = "closed" /\ user'[s].login = None /\ user'[s].name = None /\ user'[s].place = None
    BY <1>3, GoneAway DEF OpenFails
  <2> QED
    BY <2>1 DEF Equipped, Living
<1>4. ASSUME NEW s \in Account, CloseSession(s) PROVE Equipped'
  <2>1. /\ user' \in [Account -> Users] /\ \A t \in Account : t # s => user'[t] = user[t]
        /\ user'[s].pc = "closed" /\ user'[s].login = None /\ user'[s].name = None /\ user'[s].place = None
    BY <1>4, GoneAway DEF CloseSession
  <2> QED
    BY <2>1 DEF Equipped, Living
<1>5. ASSUME NEW s \in Account, NEW p \in Place, NEW kind \in {"plain", "sealed"}, OpenFrom(s, p, kind) PROVE Equipped'
  <2>1. /\ user' \in [Account -> Users] /\ \A t \in Account : t # s => user'[t] = user[t]
        /\ user'[s].pc = "opening" /\ user'[s].name = None /\ user'[s].place = p /\ user'[s].source = kind
        /\ kind = "plain" => user'[s].login = None
        /\ kind = "sealed" => /\ dir[p].sealed # None /\ dir[p].sealed \in SavedFiles /\ encryption_enabled
                              /\ user'[s].login = dir[p].sealed.login
    BY <1>5, OpeningFrom
  <2>2. user'[s].source \in {"sealed", "copy"} => user'[s].login \in Account
    BY <2>1 DEF SavedFiles
  <2> QED
    BY <2>1, <2>2 DEF Equipped, Living
<1>6. ASSUME NEW s \in Account, NEW t \in Account, Copied(s, t) PROVE Equipped'
  <2>1. /\ user' \in [Account -> Users] /\ \A o \in Account : o # t => user'[o] = user[o]
        /\ user'[t].pc = "opening" /\ user'[t].login = user[s].login /\ user[s].login \in Account
        /\ user'[t].name = None /\ user'[t].place = None /\ user'[t].source = "copy"
        /\ bared' = bared \cup {user[s].login}
    BY <1>6, CopyMade
  <2> QED
    BY <2>1 DEF Equipped, Living
<1>7. ASSUME NEW s \in Account, NEW p \in Place, NEW answer \in BOOLEAN, Save(s, p, answer) PROVE Equipped'
  <2>1. /\ user' \in [Account -> Users] /\ \A t \in Account : t # s => user'[t] = user[t]
        /\ user'[s].login = user[s].login /\ user'[s].name = user[s].name /\ user[s].login \in Account
        /\ \/ /\ user'[s].pc = "storing" /\ user'[s].place = p /\ ~PolicyBlocks(s, p)
              /\ begun' = [begun EXCEPT ![p] = begun[p] \cup {user[s].login}]
           \/ user'[s].pc = "recording" /\ begun' = begun
    BY <1>7, Saving
  <2> QED
    BY <2>1 DEF Equipped, Living
<1>8. ASSUME NEW s \in Account, StateStored(s) PROVE Equipped'
  <2>1. /\ user' \in [Account -> Users] /\ \A t \in Account : t # s => user'[t] = user[t]
        /\ user'[s].login = user[s].login /\ user[s].pc \in Living \ {"open"}
        /\ user'[s].name = user[s].name \/ (user[s].pc = "stored" /\ user'[s].name = user[s].place)
        /\ \/ user'[s].pc \in {"open", "recording"}
           \/ user'[s].pc = "stored" /\ user[s].pc = "storing" /\ user'[s].place = user[s].place
           \/ user'[s].pc = "naming" /\ user[s].pc = "stored" /\ user'[s].place = user[s].place
    BY <1>8, MovedOn
  <2> QED
    BY <2>1 DEF Equipped, Living
<1>9. ASSUME NEW s \in Account, Sealed(s) PROVE Equipped'
  <2>1. /\ user' \in [Account -> Users] /\ \A t \in Account : t # s => user'[t] = user[t]
        /\ user'[s].login = user[s].login /\ user[s].pc \in Living \ {"open"}
        /\ user'[s].name = user[s].name \/ (user[s].pc = "stored" /\ user'[s].name = user[s].place)
        /\ \/ user'[s].pc \in {"open", "recording"}
           \/ user'[s].pc = "stored" /\ user[s].pc = "storing" /\ user'[s].place = user[s].place
           \/ user'[s].pc = "naming" /\ user[s].pc = "stored" /\ user'[s].place = user[s].place
    BY <1>9, MovedOn
  <2> QED
    BY <2>1 DEF Equipped, Living
<1>10. ASSUME NEW s \in Account, SaveFails(s) PROVE Equipped'
  <2>1. /\ user' \in [Account -> Users] /\ \A t \in Account : t # s => user'[t] = user[t]
        /\ user'[s].login = user[s].login /\ user[s].pc \in Living \ {"open"}
        /\ user'[s].name = user[s].name \/ (user[s].pc = "stored" /\ user'[s].name = user[s].place)
        /\ \/ user'[s].pc \in {"open", "recording"}
           \/ user'[s].pc = "stored" /\ user[s].pc = "storing" /\ user'[s].place = user[s].place
           \/ user'[s].pc = "naming" /\ user[s].pc = "stored" /\ user'[s].place = user[s].place
    BY <1>10, MovedOn
  <2> QED
    BY <2>1 DEF Equipped, Living
<1>11. ASSUME NEW s \in Account, Named(s) PROVE Equipped'
  <2>1. /\ user' \in [Account -> Users] /\ \A t \in Account : t # s => user'[t] = user[t]
        /\ user'[s].login = user[s].login /\ user[s].pc \in Living \ {"open"}
        /\ user'[s].name = user[s].name \/ (user[s].pc = "stored" /\ user'[s].name = user[s].place)
        /\ \/ user'[s].pc \in {"open", "recording"}
           \/ user'[s].pc = "stored" /\ user[s].pc = "storing" /\ user'[s].place = user[s].place
           \/ user'[s].pc = "naming" /\ user[s].pc = "stored" /\ user'[s].place = user[s].place
    BY <1>11, MovedOn
  <2> QED
    BY <2>1 DEF Equipped, Living
<1>12. ASSUME NEW s \in Account, NEW answer \in BOOLEAN, Recorded(s, answer) PROVE Equipped'
  <2>1. /\ user' \in [Account -> Users] /\ \A t \in Account : t # s => user'[t] = user[t]
        /\ user'[s].login = user[s].login /\ user[s].pc \in Living \ {"open"}
        /\ user'[s].name = user[s].name \/ (user[s].pc = "stored" /\ user'[s].name = user[s].place)
        /\ \/ user'[s].pc \in {"open", "recording"}
           \/ user'[s].pc = "stored" /\ user[s].pc = "storing" /\ user'[s].place = user[s].place
           \/ user'[s].pc = "naming" /\ user[s].pc = "stored" /\ user'[s].place = user[s].place
    BY <1>12, MovedOn
  <2> QED
    BY <2>1 DEF Equipped, Living
<1>13. ASSUME NEW p \in AuthProfile, ReadProfile(p) PROVE Equipped'
  <2>1. UNCHANGED user
    BY <1>13 DEF ReadProfile
  <2> QED
    BY <2>1 DEF Equipped, Living
<1>14. ASSUME NEW p \in AuthProfile, Export(p) PROVE Equipped'
  <2>1. UNCHANGED user
    BY <1>14 DEF Export
  <2> QED
    BY <2>1 DEF Equipped, Living
<1>15. ASSUME NEW p \in AuthProfile, NEW overwrite \in BOOLEAN, ImportBegin(p, overwrite) PROVE Equipped'
  <2>1. /\ user' \in [Account -> Users]
        /\ \A s \in Account : \/ user'[s] = user[s]
                              \/ /\ user[s].pc = "opening" /\ user'[s].source = "gone" /\ user[s].source = "sealed"
                                 /\ user'[s].pc = "opening" /\ user'[s].login = user[s].login
                                 /\ user'[s].name = user[s].name /\ user'[s].place = user[s].place
    BY <1>15, Unpacking
  <2> QED
    BY <2>1 DEF Equipped, Living
<1>16. CASE ImportEnd
  <2>1. UNCHANGED user
    BY <1>16 DEF ImportEnd
  <2> QED
    BY <2>1 DEF Equipped, Living
<1>17. CASE AnHour
  <2>1. UNCHANGED user
    BY <1>17 DEF AnHour
  <2> QED
    BY <2>1 DEF Equipped, Living
<1>18. CASE NextProcess
  <2>1. /\ user' \in [Account -> Users]
        /\ \A s \in Account : user'[s].pc = "closed" /\ user'[s].login = None /\ user'[s].name = None /\ user'[s].place = None
    BY <1>18, NextUsers
  <2> QED
    BY <2>1 DEF Equipped, Living
<1>19. CASE UNCHANGED uvars
  BY <1>19 DEF uvars, Equipped
<1> QED
  BY <1>1, <1>2, <1>3, <1>4, <1>5, <1>6, <1>7, <1>8, <1>9, <1>10, <1>11, <1>12, <1>13, <1>14,
     <1>15, <1>16, <1>17, <1>18, <1>19
  DEF UNext, Fork, ShadowBrowse

\* What was begun stays begun.
LEMMA BegunGrows == UTypes /\ [UNext]_uvars => \A p \in Place : begun[p] \subseteq begun'[p]
<1> SUFFICES ASSUME UTypes, [UNext]_uvars PROVE \A p \in Place : begun[p] \subseteq begun'[p]
  OBVIOUS
<1>1. ASSUME NEW s \in Account, NEW p \in Place, NEW answer \in BOOLEAN, Save(s, p, answer)
      PROVE \A q \in Place : begun[q] \subseteq begun'[q]
  BY <1>1 DEF Save, UTypes
<1>2. CASE UNCHANGED begun
  BY <1>2
<1> QED
  BY <1>1, <1>2, ZenonT(40)
  DEF UNext, uvars, LogIn, Opened, OpenFails, CloseSession, OpenFrom, Fork, ShadowBrowse, Copied, StateStored, Sealed,
     SaveFails, Named, Recorded, ReadProfile, Export, ImportBegin, ImportEnd, AnHour, NextProcess

\* A session that stays where it is has a login that was saved under its name.
LEMMA OthersApart ==
  ASSUME UTypes, Equipped, UsersApart, NEW o \in Account, \A q \in Place : begun[q] \subseteq begun'[q],
         \/ user'[o] = user[o]
         \/ /\ user[o].pc = "opening" /\ user'[o].pc = "opening" /\ user'[o].source = "gone"
            /\ user'[o].login = user[o].login /\ user'[o].name = user[o].name /\ user'[o].place = user[o].place
  PROVE /\ user'[o].name # None => user'[o].login \in begun'[user'[o].name]
        /\ user'[o].pc = "opening" /\ user'[o].source = "sealed" => user'[o].login \in begun'[user'[o].place]
        /\ user'[o].pc \in {"storing", "stored", "naming"} => user'[o].login \in begun'[user'[o].place]
<1>1. user[o].name # None => user[o].name \in Place
  BY DEF UTypes, Users, Place
<1> QED
  BY <1>1 DEF UsersApart, Equipped

LEMMA UsersApartKept ==
  UTypes /\ Equipped /\ PlacesApart /\ UsersApart /\ [UNext]_uvars => UsersApart'
<1> SUFFICES ASSUME UTypes, Equipped, PlacesApart, UsersApart, [UNext]_uvars PROVE UsersApart'
  OBVIOUS
<1>1. ASSUME NEW s \in Account, LogIn(s) PROVE UsersApart'
  <2>1. /\ user' \in [Account -> Users] /\ \A t \in Account : t # s => user'[t] = user[t]
        /\ user'[s].pc = "open" /\ user'[s].login = s /\ user'[s].name = None
    BY <1>1, LoggedIn
  <2>2. \A q \in Place : begun[q] \subseteq begun'[q]
    BY BegunGrows
  <2>3. /\ user'[s].name # None => user'[s].login \in begun'[user'[s].name]
        /\ user'[s].pc = "opening" /\ user'[s].source = "sealed" => user'[s].login \in begun'[user'[s].place]
        /\ user'[s].pc \in {"storing", "stored", "naming"} => user'[s].login \in begun'[user'[s].place]
    BY <2>1, <2>2 DEF UsersApart, PlacesApart, Equipped, UTypes, Users, Place, Living
  <2> QED
    BY <2>1, <2>2, <2>3, OthersApart DEF UsersApart
<1>2. ASSUME NEW s \in Account, Opened(s) PROVE UsersApart'
  <2>1. /\ user' \in [Account -> Users] /\ \A t \in Account : t # s => user'[t] = user[t]
        /\ user[s].pc = "opening" /\ user'[s].pc = "open" /\ user'[s].login \in Account
        /\ user'[s].name # None => user'[s].name = user[s].place /\ user[s].source # "copy"
        /\ IF user[s].source = "plain"
           THEN /\ user[s].place \in Place /\ dir[user[s].place].plain # None
                /\ user'[s].login = dir[user[s].place].plain.login
           ELSE user[s].source \in {"sealed", "copy"} /\ user'[s].login = user[s].login
    BY <1>2, HasOpened
  <2>2. \A q \in Place : begun[q] \subseteq begun'[q]
    BY BegunGrows
  <2>3. /\ user'[s].name # None => user'[s].login \in begun'[user'[s].name]
        /\ user'[s].pc = "opening" /\ user'[s].source = "sealed" => user'[s].login \in begun'[user'[s].place]
        /\ user'[s].pc \in {"storing", "stored", "naming"} => user'[s].login \in begun'[user'[s].place]
    BY <2>1, <2>2 DEF UsersApart, PlacesApart, Equipped, UTypes, Users, Place, Living
  <2> QED
    BY <2>1, <2>2, <2>3, OthersApart DEF UsersApart
<1>3. ASSUME NEW s \in Account, OpenFails(s) PROVE UsersApart'
  <2>1. /\ user' \in [Account -> Users] /\ \A t \in Account : t # s => user'[t] = user[t]
        /\ user'[s].pc = "closed" /\ user'[s].login = None /\ user'[s].name = None /\ user'[s].place = None
    BY <1>3, GoneAway DEF OpenFails
  <2>2. \A q \in Place : begun[q] \subseteq begun'[q]
    BY BegunGrows
  <2>3. /\ user'[s].name # None => user'[s].login \in begun'[user'[s].name]
        /\ user'[s].pc = "opening" /\ user'[s].source = "sealed" => user'[s].login \in begun'[user'[s].place]
        /\ user'[s].pc \in {"storing", "stored", "naming"} => user'[s].login \in begun'[user'[s].place]
    BY <2>1, <2>2 DEF UsersApart, PlacesApart, Equipped, UTypes, Users, Place, Living
  <2> QED
    BY <2>1, <2>2, <2>3, OthersApart DEF UsersApart
<1>4. ASSUME NEW s \in Account, CloseSession(s) PROVE UsersApart'
  <2>1. /\ user' \in [Account -> Users] /\ \A t \in Account : t # s => user'[t] = user[t]
        /\ user'[s].pc = "closed" /\ user'[s].login = None /\ user'[s].name = None /\ user'[s].place = None
    BY <1>4, GoneAway DEF CloseSession
  <2>2. \A q \in Place : begun[q] \subseteq begun'[q]
    BY BegunGrows
  <2>3. /\ user'[s].name # None => user'[s].login \in begun'[user'[s].name]
        /\ user'[s].pc = "opening" /\ user'[s].source = "sealed" => user'[s].login \in begun'[user'[s].place]
        /\ user'[s].pc \in {"storing", "stored", "naming"} => user'[s].login \in begun'[user'[s].place]
    BY <2>1, <2>2 DEF UsersApart, PlacesApart, Equipped, UTypes, Users, Place, Living
  <2> QED
    BY <2>1, <2>2, <2>3, OthersApart DEF UsersApart
<1>5. ASSUME NEW s \in Account, NEW p \in Place, NEW kind \in {"plain", "sealed"}, OpenFrom(s, p, kind) PROVE UsersApart'
  <2>1. /\ user' \in [Account -> Users] /\ \A t \in Account : t # s => user'[t] = user[t]
        /\ user'[s].pc = "opening" /\ user'[s].name = None /\ user'[s].place = p /\ user'[s].source = kind
        /\ kind = "plain" => user'[s].login = None
        /\ kind = "sealed" => /\ dir[p].sealed # None /\ dir[p].sealed \in SavedFiles /\ encryption_enabled
                              /\ user'[s].login = dir[p].sealed.login
    BY <1>5, OpeningFrom
  <2>2. \A q \in Place : begun[q] \subseteq begun'[q]
    BY BegunGrows
  <2>3. /\ user'[s].name # None => user'[s].login \in begun'[user'[s].name]
        /\ user'[s].pc = "opening" /\ user'[s].source = "sealed" => user'[s].login \in begun'[user'[s].place]
        /\ user'[s].pc \in {"storing", "stored", "naming"} => user'[s].login \in begun'[user'[s].place]
    BY <2>1, <2>2 DEF UsersApart, PlacesApart, Equipped, UTypes, Users, Place, Living
  <2> QED
    BY <2>1, <2>2, <2>3, OthersApart DEF UsersApart
<1>6. ASSUME NEW s \in Account, NEW t \in Account, Copied(s, t) PROVE UsersApart'
  <2>1. /\ user' \in [Account -> Users] /\ \A o \in Account : o # t => user'[o] = user[o]
        /\ user'[t].pc = "opening" /\ user'[t].login = user[s].login /\ user[s].login \in Account
        /\ user'[t].name = None /\ user'[t].place = None /\ user'[t].source = "copy"
        /\ bared' = bared \cup {user[s].login}
    BY <1>6, CopyMade
  <2>2. \A q \in Place : begun[q] \subseteq begun'[q]
    BY BegunGrows
  <2>3. /\ user'[t].name # None => user'[t].login \in begun'[user'[t].name]
        /\ user'[t].pc = "opening" /\ user'[t].source = "sealed" => user'[t].login \in begun'[user'[t].place]
        /\ user'[t].pc \in {"storing", "stored", "naming"} => user'[t].login \in begun'[user'[t].place]
    BY <2>1, <2>2 DEF UsersApart, PlacesApart, Equipped, UTypes, Users, Place, Living
  <2> QED
    BY <2>1, <2>2, <2>3, OthersApart DEF UsersApart
<1>7. ASSUME NEW s \in Account, NEW p \in Place, NEW answer \in BOOLEAN, Save(s, p, answer) PROVE UsersApart'
  <2>1. /\ user' \in [Account -> Users] /\ \A t \in Account : t # s => user'[t] = user[t]
        /\ user'[s].login = user[s].login /\ user'[s].name = user[s].name /\ user[s].login \in Account
        /\ \/ /\ user'[s].pc = "storing" /\ user'[s].place = p /\ ~PolicyBlocks(s, p)
              /\ begun' = [begun EXCEPT ![p] = begun[p] \cup {user[s].login}]
           \/ user'[s].pc = "recording" /\ begun' = begun
    BY <1>7, Saving
  <2>2. \A q \in Place : begun[q] \subseteq begun'[q]
    BY BegunGrows
  <2>3. user'[s].pc = "storing" => user[s].login \in begun'[p] /\ user'[s].place = p
    BY <2>1 DEF UTypes
  <2>4. \A q \in AuthProfile : q \in Place
    BY DEF Place
  <2>5. user'[s].name # None => user'[s].login \in begun'[user'[s].name]
    BY <2>1, <2>2, <2>4 DEF UsersApart, UTypes, Users
  <2> QED
    BY <2>1, <2>2, <2>3, <2>5, OthersApart DEF UsersApart
<1>8. ASSUME NEW s \in Account, StateStored(s) PROVE UsersApart'
  <2>1. /\ user' \in [Account -> Users] /\ \A t \in Account : t # s => user'[t] = user[t]
        /\ user'[s].login = user[s].login /\ user[s].pc \in Living \ {"open"}
        /\ user'[s].name = user[s].name \/ (user[s].pc = "stored" /\ user'[s].name = user[s].place)
        /\ \/ user'[s].pc \in {"open", "recording"}
           \/ user'[s].pc = "stored" /\ user[s].pc = "storing" /\ user'[s].place = user[s].place
           \/ user'[s].pc = "naming" /\ user[s].pc = "stored" /\ user'[s].place = user[s].place
    BY <1>8, MovedOn
  <2>2. \A q \in Place : begun[q] \subseteq begun'[q]
    BY BegunGrows
  <2>3. /\ user'[s].name # None => user'[s].login \in begun'[user'[s].name]
        /\ user'[s].pc = "opening" /\ user'[s].source = "sealed" => user'[s].login \in begun'[user'[s].place]
        /\ user'[s].pc \in {"storing", "stored", "naming"} => user'[s].login \in begun'[user'[s].place]
    BY <2>1, <2>2 DEF UsersApart, PlacesApart, Equipped, UTypes, Users, Place, Living
  <2> QED
    BY <2>1, <2>2, <2>3, OthersApart DEF UsersApart
<1>9. ASSUME NEW s \in Account, Sealed(s) PROVE UsersApart'
  <2>1. /\ user' \in [Account -> Users] /\ \A t \in Account : t # s => user'[t] = user[t]
        /\ user'[s].login = user[s].login /\ user[s].pc \in Living \ {"open"}
        /\ user'[s].name = user[s].name \/ (user[s].pc = "stored" /\ user'[s].name = user[s].place)
        /\ \/ user'[s].pc \in {"open", "recording"}
           \/ user'[s].pc = "stored" /\ user[s].pc = "storing" /\ user'[s].place = user[s].place
           \/ user'[s].pc = "naming" /\ user[s].pc = "stored" /\ user'[s].place = user[s].place
    BY <1>9, MovedOn
  <2>2. \A q \in Place : begun[q] \subseteq begun'[q]
    BY BegunGrows
  <2>3. /\ user'[s].name # None => user'[s].login \in begun'[user'[s].name]
        /\ user'[s].pc = "opening" /\ user'[s].source = "sealed" => user'[s].login \in begun'[user'[s].place]
        /\ user'[s].pc \in {"storing", "stored", "naming"} => user'[s].login \in begun'[user'[s].place]
    BY <2>1, <2>2, <1>9 DEF UsersApart, PlacesApart, Equipped, UTypes, Users, Place, Living
  <2> QED
    BY <2>1, <2>2, <2>3, OthersApart DEF UsersApart
<1>10. ASSUME NEW s \in Account, SaveFails(s) PROVE UsersApart'
  <2>1. /\ user' \in [Account -> Users] /\ \A t \in Account : t # s => user'[t] = user[t]
        /\ user'[s].login = user[s].login /\ user[s].pc \in Living \ {"open"}
        /\ user'[s].name = user[s].name \/ (user[s].pc = "stored" /\ user'[s].name = user[s].place)
        /\ \/ user'[s].pc \in {"open", "recording"}
           \/ user'[s].pc = "stored" /\ user[s].pc = "storing" /\ user'[s].place = user[s].place
           \/ user'[s].pc = "naming" /\ user[s].pc = "stored" /\ user'[s].place = user[s].place
    BY <1>10, MovedOn
  <2>2. \A q \in Place : begun[q] \subseteq begun'[q]
    BY BegunGrows
  <2>3. /\ user'[s].name # None => user'[s].login \in begun'[user'[s].name]
        /\ user'[s].pc = "opening" /\ user'[s].source = "sealed" => user'[s].login \in begun'[user'[s].place]
        /\ user'[s].pc \in {"storing", "stored", "naming"} => user'[s].login \in begun'[user'[s].place]
    BY <2>1, <2>2 DEF UsersApart, PlacesApart, Equipped, UTypes, Users, Place, Living
  <2> QED
    BY <2>1, <2>2, <2>3, OthersApart DEF UsersApart
<1>11. ASSUME NEW s \in Account, Named(s) PROVE UsersApart'
  <2>1. /\ user' \in [Account -> Users] /\ \A t \in Account : t # s => user'[t] = user[t]
        /\ user'[s].login = user[s].login /\ user[s].pc \in Living \ {"open"}
        /\ user'[s].name = user[s].name \/ (user[s].pc = "stored" /\ user'[s].name = user[s].place)
        /\ \/ user'[s].pc \in {"open", "recording"}
           \/ user'[s].pc = "stored" /\ user[s].pc = "storing" /\ user'[s].place = user[s].place
           \/ user'[s].pc = "naming" /\ user[s].pc = "stored" /\ user'[s].place = user[s].place
    BY <1>11, MovedOn
  <2>2. \A q \in Place : begun[q] \subseteq begun'[q]
    BY BegunGrows
  <2>3. /\ user'[s].name # None => user'[s].login \in begun'[user'[s].name]
        /\ user'[s].pc = "opening" /\ user'[s].source = "sealed" => user'[s].login \in begun'[user'[s].place]
        /\ user'[s].pc \in {"storing", "stored", "naming"} => user'[s].login \in begun'[user'[s].place]
    BY <2>1, <2>2 DEF UsersApart, PlacesApart, Equipped, UTypes, Users, Place, Living
  <2> QED
    BY <2>1, <2>2, <2>3, OthersApart DEF UsersApart
<1>12. ASSUME NEW s \in Account, NEW answer \in BOOLEAN, Recorded(s, answer) PROVE UsersApart'
  <2>1. /\ user' \in [Account -> Users] /\ \A t \in Account : t # s => user'[t] = user[t]
        /\ user'[s].login = user[s].login /\ user[s].pc \in Living \ {"open"}
        /\ user'[s].name = user[s].name \/ (user[s].pc = "stored" /\ user'[s].name = user[s].place)
        /\ \/ user'[s].pc \in {"open", "recording"}
           \/ user'[s].pc = "stored" /\ user[s].pc = "storing" /\ user'[s].place = user[s].place
           \/ user'[s].pc = "naming" /\ user[s].pc = "stored" /\ user'[s].place = user[s].place
    BY <1>12, MovedOn
  <2>2. \A q \in Place : begun[q] \subseteq begun'[q]
    BY BegunGrows
  <2>3. /\ user'[s].name # None => user'[s].login \in begun'[user'[s].name]
        /\ user'[s].pc = "opening" /\ user'[s].source = "sealed" => user'[s].login \in begun'[user'[s].place]
        /\ user'[s].pc \in {"storing", "stored", "naming"} => user'[s].login \in begun'[user'[s].place]
    BY <2>1, <2>2 DEF UsersApart, PlacesApart, Equipped, UTypes, Users, Place, Living
  <2> QED
    BY <2>1, <2>2, <2>3, OthersApart DEF UsersApart
<1>13. ASSUME NEW p \in AuthProfile, ReadProfile(p) PROVE UsersApart'
  <2>1. UNCHANGED user
    BY <1>13 DEF ReadProfile
  <2>2. \A q \in Place : begun[q] \subseteq begun'[q]
    BY BegunGrows
  <2> QED
    BY <2>1, <2>2, OthersApart DEF UsersApart
<1>14. ASSUME NEW p \in AuthProfile, Export(p) PROVE UsersApart'
  <2>1. UNCHANGED user
    BY <1>14 DEF Export
  <2>2. \A q \in Place : begun[q] \subseteq begun'[q]
    BY BegunGrows
  <2> QED
    BY <2>1, <2>2, OthersApart DEF UsersApart
<1>15. ASSUME NEW p \in AuthProfile, NEW overwrite \in BOOLEAN, ImportBegin(p, overwrite) PROVE UsersApart'
  <2>1. /\ user' \in [Account -> Users]
        /\ \A s \in Account : \/ user'[s] = user[s]
                              \/ /\ user[s].pc = "opening" /\ user'[s].source = "gone" /\ user[s].source = "sealed"
                                 /\ user'[s].pc = "opening" /\ user'[s].login = user[s].login
                                 /\ user'[s].name = user[s].name /\ user'[s].place = user[s].place
    BY <1>15, Unpacking
  <2>2. \A q \in Place : begun[q] \subseteq begun'[q]
    BY BegunGrows
  <2> QED
    BY <2>1, <2>2, OthersApart DEF UsersApart
<1>16. CASE ImportEnd
  <2>1. UNCHANGED user
    BY <1>16 DEF ImportEnd
  <2>2. \A q \in Place : begun[q] \subseteq begun'[q]
    BY BegunGrows
  <2> QED
    BY <2>1, <2>2, OthersApart DEF UsersApart
<1>17. CASE AnHour
  <2>1. UNCHANGED user
    BY <1>17 DEF AnHour
  <2>2. \A q \in Place : begun[q] \subseteq begun'[q]
    BY BegunGrows
  <2> QED
    BY <2>1, <2>2, OthersApart DEF UsersApart
<1>18. CASE NextProcess
  <2>1. /\ user' \in [Account -> Users]
        /\ \A s \in Account : user'[s].pc = "closed" /\ user'[s].login = None /\ user'[s].name = None /\ user'[s].place = None
    BY <1>18, NextUsers
  <2>2. \A q \in Place : begun[q] \subseteq begun'[q]
    BY BegunGrows
  <2> QED
    BY <2>1, <2>2, OthersApart DEF UsersApart
<1>19. CASE UNCHANGED uvars
  BY <1>19 DEF uvars, UsersApart
<1> QED
  BY <1>1, <1>2, <1>3, <1>4, <1>5, <1>6, <1>7, <1>8, <1>9, <1>10, <1>11, <1>12, <1>13, <1>14,
     <1>15, <1>16, <1>17, <1>18, <1>19
  DEF UNext, Fork, ShadowBrowse

LEMMA ArchivesApart ==
  ASSUME PlacesApart, archive' = archive, \A q \in Place : begun[q] \subseteq begun'[q]
  PROVE \A p \in AuthProfile : archive'[p] # None =>
          /\ archive'[p].plain # None => archive'[p].plain.login \in begun'[p]
          /\ archive'[p].sealed # None => archive'[p].sealed.login \in begun'[p]
  BY DEF PlacesApart, Place

LEMMA PlacesApartKept ==
  UTypes /\ Equipped /\ UsersApart /\ PlacesApart /\ [UNext]_uvars => PlacesApart'
<1> SUFFICES ASSUME UTypes, Equipped, UsersApart, PlacesApart, [UNext]_uvars PROVE PlacesApart'
  OBVIOUS
<1>1. ASSUME NEW s \in Account, LogIn(s) PROVE PlacesApart'
  <2>2. UNCHANGED dir
    BY <1>1 DEF LogIn
  <2>3. \A q \in Place : begun[q] \subseteq begun'[q]
    BY BegunGrows
  <2>4. archive' = archive /\ half' = half
    BY <1>1 DEF LogIn
  <2> QED
    BY <2>2, <2>3, <2>4, ArchivesApart DEF PlacesApart
<1>2. ASSUME NEW s \in Account, Opened(s) PROVE PlacesApart'
  <2>2. UNCHANGED dir
    BY <1>2 DEF Opened
  <2>3. \A q \in Place : begun[q] \subseteq begun'[q]
    BY BegunGrows
  <2>4. archive' = archive /\ half' = half
    BY <1>2 DEF Opened
  <2> QED
    BY <2>2, <2>3, <2>4, ArchivesApart DEF PlacesApart
<1>3. ASSUME NEW s \in Account, OpenFails(s) PROVE PlacesApart'
  <2>2. UNCHANGED dir
    BY <1>3 DEF OpenFails
  <2>3. \A q \in Place : begun[q] \subseteq begun'[q]
    BY BegunGrows
  <2>4. archive' = archive /\ half' = half
    BY <1>3 DEF OpenFails
  <2> QED
    BY <2>2, <2>3, <2>4, ArchivesApart DEF PlacesApart
<1>4. ASSUME NEW s \in Account, CloseSession(s) PROVE PlacesApart'
  <2>2. UNCHANGED dir
    BY <1>4 DEF CloseSession
  <2>3. \A q \in Place : begun[q] \subseteq begun'[q]
    BY BegunGrows
  <2>4. archive' = archive /\ half' = half
    BY <1>4 DEF CloseSession
  <2> QED
    BY <2>2, <2>3, <2>4, ArchivesApart DEF PlacesApart
<1>5. ASSUME NEW s \in Account, NEW p \in Place, NEW kind \in {"plain", "sealed"}, OpenFrom(s, p, kind) PROVE PlacesApart'
  <2>2. UNCHANGED dir
    BY <1>5 DEF OpenFrom
  <2>3. \A q \in Place : begun[q] \subseteq begun'[q]
    BY BegunGrows
  <2>4. archive' = archive /\ half' = half
    BY <1>5 DEF OpenFrom
  <2> QED
    BY <2>2, <2>3, <2>4, ArchivesApart DEF PlacesApart
<1>6. ASSUME NEW s \in Account, NEW t \in Account, Copied(s, t) PROVE PlacesApart'
  <2>2. UNCHANGED dir
    BY <1>6 DEF Copied
  <2>3. \A q \in Place : begun[q] \subseteq begun'[q]
    BY BegunGrows
  <2>4. archive' = archive /\ half' = half
    BY <1>6 DEF Copied
  <2> QED
    BY <2>2, <2>3, <2>4, ArchivesApart DEF PlacesApart
<1>7. ASSUME NEW s \in Account, NEW p \in Place, NEW answer \in BOOLEAN, Save(s, p, answer) PROVE PlacesApart'
  <2>2. dir' \in [Place -> Dirs] /\ \A q \in Place : dir'[q].plain = dir[q].plain /\ dir'[q].sealed = dir[q].sealed
    BY <1>7, SameFiles
  <2>3. \A q \in Place : begun[q] \subseteq begun'[q]
    BY BegunGrows
  <2>4. archive' = archive /\ half' = half
    BY <1>7 DEF Save
  <2> QED
    BY <2>2, <2>3, <2>4, ArchivesApart DEF PlacesApart
<1>8. ASSUME NEW s \in Account, StateStored(s) PROVE PlacesApart'
  <2>2. UNCHANGED dir
    BY <1>8 DEF StateStored
  <2>3. \A q \in Place : begun[q] \subseteq begun'[q]
    BY BegunGrows
  <2>4. user[s].place \in Place /\ user[s].login \in begun[user[s].place]
    BY <1>8 DEF StateStored, Equipped, UsersApart
  <2>5. archive' = archive /\ \A q \in Place : half'[q] = half[q] \/ (q = user[s].place /\ half'[q] = user[s].login)
    BY <1>8, <2>4 DEF StateStored, TempOf, UTypes
  <2> QED
    BY <2>2, <2>3, <2>4, <2>5, ArchivesApart DEF PlacesApart
<1>9. ASSUME NEW s \in Account, Sealed(s) PROVE PlacesApart'
  <2>2. PICK q \in Place :
          /\ q = user[s].place /\ half[q] \in Account /\ half' = [half EXCEPT ![q] = None]
          /\ dir' \in [Place -> Dirs] /\ \A o \in Place : o # q => dir'[o] = dir[o]
          /\ \/ encryption_enabled /\ dir'[q].plain = dir[q].plain /\ dir'[q].sealed.login = half[q]
             \/ ~encryption_enabled /\ dir'[q].sealed = dir[q].sealed /\ dir'[q].plain.login = half[q]
    BY <1>9, SealedFiles
  <2>3. \A o \in Place : begun[o] \subseteq begun'[o]
    BY BegunGrows
  <2>4. archive' = archive /\ half'[q] = None /\ \A o \in Place : o # q => half'[o] = half[o]
    BY <1>9, <2>2 DEF Sealed, UTypes
  <2>5. half[q] \in begun[q] /\ half[q] # None
    BY <2>2, LoginsAssumption DEF PlacesApart
  <2>6. \A o \in Place : /\ dir'[o].plain # None => dir'[o].plain.login \in begun[o]
                         /\ dir'[o].sealed # None => dir'[o].sealed.login \in begun[o]
                         /\ half'[o] # None => half'[o] \in begun[o]
    BY <2>2, <2>4, <2>5 DEF PlacesApart
  <2> QED
    BY <2>3, <2>4, <2>6, ArchivesApart DEF PlacesApart
<1>10. ASSUME NEW s \in Account, SaveFails(s) PROVE PlacesApart'
  <2>2. UNCHANGED dir
    BY <1>10 DEF SaveFails
  <2>3. \A q \in Place : begun[q] \subseteq begun'[q]
    BY BegunGrows
  <2>4. archive' = archive /\ half' = half
    BY <1>10 DEF SaveFails
  <2> QED
    BY <2>2, <2>3, <2>4, ArchivesApart DEF PlacesApart
<1>11. ASSUME NEW s \in Account, Named(s) PROVE PlacesApart'
  <2>2. dir' \in [Place -> Dirs] /\ \A q \in Place : dir'[q].plain = dir[q].plain /\ dir'[q].sealed = dir[q].sealed
    <3>1. user[s].place \in Place
      BY <1>11 DEF Named, Equipped
    <3> QED
      BY <1>11, <3>1, SameFiles
  <2>3. \A q \in Place : begun[q] \subseteq begun'[q]
    BY BegunGrows
  <2>4. archive' = archive /\ half' = half
    BY <1>11 DEF Named
  <2> QED
    BY <2>2, <2>3, <2>4, ArchivesApart DEF PlacesApart
<1>12. ASSUME NEW s \in Account, NEW answer \in BOOLEAN, Recorded(s, answer) PROVE PlacesApart'
  <2>2. UNCHANGED dir
    BY <1>12 DEF Recorded
  <2>3. \A q \in Place : begun[q] \subseteq begun'[q]
    BY BegunGrows
  <2>4. archive' = archive /\ half' = half
    BY <1>12 DEF Recorded
  <2> QED
    BY <2>2, <2>3, <2>4, ArchivesApart DEF PlacesApart
<1>13. ASSUME NEW p \in AuthProfile, ReadProfile(p) PROVE PlacesApart'
  <2>2. dir' \in [Place -> Dirs] /\ \A q \in Place : dir'[q].plain = dir[q].plain /\ dir'[q].sealed = dir[q].sealed
    BY <1>13, SameFiles
  <2>3. \A q \in Place : begun[q] \subseteq begun'[q]
    BY BegunGrows
  <2>4. archive' = archive /\ half' = half
    BY <1>13 DEF ReadProfile
  <2> QED
    BY <2>2, <2>3, <2>4, ArchivesApart DEF PlacesApart
<1>14. ASSUME NEW p \in AuthProfile, Export(p) PROVE PlacesApart'
  <2>2. UNCHANGED dir
    BY <1>14 DEF Export
  <2>3. \A q \in Place : begun[q] \subseteq begun'[q]
    BY BegunGrows
  <2>4. half' = half /\ \A q \in AuthProfile : archive'[q] = archive[q] \/ archive'[q] = dir[q]
    BY <1>14 DEF Export, UTypes
  <2>5. \A q \in AuthProfile : q \in Place
    BY DEF Place
  <2>6. \A q \in AuthProfile : archive'[q] # None =>
          /\ archive'[q].plain # None => archive'[q].plain.login \in begun[q]
          /\ archive'[q].sealed # None => archive'[q].sealed.login \in begun[q]
    BY <2>4, <2>5 DEF PlacesApart
  <2> QED
    BY <2>2, <2>3, <2>4, <2>5, <2>6 DEF PlacesApart
<1>15. ASSUME NEW p \in AuthProfile, NEW overwrite \in BOOLEAN, ImportBegin(p, overwrite) PROVE PlacesApart'
  <2>2. /\ dir' \in [Place -> Dirs] /\ dir'[p].plain = None /\ dir'[p].sealed = None
        /\ \A q \in Place : q # p => dir'[q] = dir[q]
        /\ half' \in [Place -> Account \cup {None}] /\ half'[p] = None /\ \A q \in Place : q # p => half'[q] = half[q]
    BY <1>15, EmptiedPlace
  <2>3. \A q \in Place : begun[q] \subseteq begun'[q]
    BY BegunGrows
  <2>4. archive' = archive
    BY <1>15 DEF ImportBegin
  <2>5. \A o \in Place : /\ dir'[o].plain # None => dir'[o].plain.login \in begun[o]
                         /\ dir'[o].sealed # None => dir'[o].sealed.login \in begun[o]
                         /\ half'[o] # None => half'[o] \in begun[o]
    BY <2>2 DEF PlacesApart
  <2> QED
    BY <2>3, <2>4, <2>5, ArchivesApart DEF PlacesApart
<1>16. CASE ImportEnd
  <2>2. PICK p \in AuthProfile :
          /\ archive[p] # None
          /\ dir' \in [Place -> Dirs] /\ \A q \in Place : q # p => dir'[q] = dir[q]
          /\ \/ dir'[p].plain = dir[p].plain
             \/ archive[p].plain # None /\ dir'[p].plain.login = archive[p].plain.login
          /\ \/ dir'[p].sealed = dir[p].sealed
             \/ archive[p].sealed # None /\ dir'[p].sealed.login = archive[p].sealed.login
    BY <1>16, ImportedFiles
  <2>3. \A q \in Place : begun[q] \subseteq begun'[q]
    BY BegunGrows
  <2>4. archive' = archive /\ half' = half
    BY <1>16 DEF ImportEnd
  <2>5. p \in Place
    BY DEF Place
  <2>6. \A o \in Place : /\ dir'[o].plain # None => dir'[o].plain.login \in begun[o]
                         /\ dir'[o].sealed # None => dir'[o].sealed.login \in begun[o]
    BY <2>2, <2>5 DEF PlacesApart
  <2> QED
    BY <2>3, <2>4, <2>6, ArchivesApart DEF PlacesApart
<1>17. CASE AnHour
  <2>2. UNCHANGED dir
    BY <1>17 DEF AnHour
  <2>3. \A q \in Place : begun[q] \subseteq begun'[q]
    BY BegunGrows
  <2>4. archive' = archive /\ half' = half
    BY <1>17 DEF AnHour
  <2> QED
    BY <2>2, <2>3, <2>4, ArchivesApart DEF PlacesApart
<1>18. CASE NextProcess
  <2>2. UNCHANGED dir
    BY <1>18 DEF NextProcess
  <2>3. \A q \in Place : begun[q] \subseteq begun'[q]
    BY BegunGrows
  <2>4. archive' = archive /\ \A q \in Place : half'[q] = None
    BY <1>18 DEF NextProcess
  <2> QED
    BY <2>2, <2>3, <2>4, ArchivesApart DEF PlacesApart
<1>19. CASE UNCHANGED uvars
  BY <1>19 DEF uvars, PlacesApart
<1> QED
  BY <1>1, <1>2, <1>3, <1>4, <1>5, <1>6, <1>7, <1>8, <1>9, <1>10, <1>11, <1>12, <1>13, <1>14,
     <1>15, <1>16, <1>17, <1>18, <1>19
  DEF UNext, Fork, ShadowBrowse

\* The settings stay; the key setting changes only when the controller is started anew; a login
\* that was copied is no secret any more.
LEMMA Settings ==
  UTypes /\ [UNext]_uvars => lodging' = lodging /\ bared \subseteq bared' /\ (process' = process \/ NextProcess)
<1> SUFFICES ASSUME UTypes, [UNext]_uvars
             PROVE lodging' = lodging /\ bared \subseteq bared' /\ (process' = process \/ NextProcess)
  OBVIOUS
<1>1. ASSUME NEW s \in Account, NEW t \in Account, Copied(s, t)
      PROVE lodging' = lodging /\ bared \subseteq bared' /\ process' = process
  BY <1>1 DEF Copied
<1>2. CASE NextProcess
  BY <1>2 DEF NextProcess
<1>3. CASE UNCHANGED <<lodging, bared, process>>
  BY <1>3
<1>4. ASSUME NEW s \in Account, LogIn(s) \/ Opened(s) \/ OpenFails(s) \/ CloseSession(s)
      PROVE UNCHANGED <<lodging, bared, process>>
  BY <1>4 DEF LogIn, Opened, OpenFails, CloseSession
<1>5. ASSUME NEW s \in Account, NEW p \in Place, NEW kind \in {"plain", "sealed"}, OpenFrom(s, p, kind)
      PROVE UNCHANGED <<lodging, bared, process>>
  BY <1>5 DEF OpenFrom
<1>6. ASSUME NEW s \in Account, NEW p \in Place, NEW answer \in BOOLEAN, Save(s, p, answer)
      PROVE UNCHANGED <<lodging, bared, process>>
  BY <1>6 DEF Save
<1>7. ASSUME NEW s \in Account, StateStored(s) \/ Sealed(s) \/ SaveFails(s) \/ Named(s)
      PROVE UNCHANGED <<lodging, bared, process>>
  BY <1>7 DEF StateStored, Sealed, SaveFails, Named
<1>8. ASSUME NEW s \in Account, NEW answer \in BOOLEAN, Recorded(s, answer)
      PROVE UNCHANGED <<lodging, bared, process>>
  BY <1>8 DEF Recorded
<1>9. ASSUME NEW p \in AuthProfile, ReadProfile(p) \/ Export(p) PROVE UNCHANGED <<lodging, bared, process>>
  BY <1>9 DEF ReadProfile, Export
<1>10. ASSUME NEW p \in AuthProfile, NEW overwrite \in BOOLEAN, ImportBegin(p, overwrite)
       PROVE UNCHANGED <<lodging, bared, process>>
  BY <1>10 DEF ImportBegin
<1>11. CASE ImportEnd \/ AnHour
  BY <1>11 DEF ImportEnd, AnHour
<1>12. CASE UNCHANGED uvars
  BY <1>12 DEF uvars
<1> QED
  BY <1>1, <1>2, <1>3, <1>4, <1>5, <1>6, <1>7, <1>8, <1>9, <1>10, <1>11, <1>12 DEF UNext, Fork, ShadowBrowse

\* What is secret after a step was before, with the same settings and more that was copied.
LEMMA SecretBefore ==
  ASSUME lodging' = lodging, bared \subseteq bared', NEW login
  PROVE Confidential(login) /\ login \notin bared' => Secret(login)
  BY DEF Secret

LEMMA UsersSealedKept ==
  UTypes /\ Equipped /\ PlacesSealed /\ UsersSealed /\ [UNext]_uvars => UsersSealed'
<1> SUFFICES ASSUME UTypes, Equipped, PlacesSealed, UsersSealed, [UNext]_uvars PROVE UsersSealed'
  OBVIOUS
<1>1. ASSUME NEW s \in Account, LogIn(s) PROVE UsersSealed'
  <2>1. /\ user' \in [Account -> Users] /\ \A t \in Account : t # s => user'[t] = user[t]
        /\ user'[s].pc = "open" /\ user'[s].login = s /\ user'[s].name = None
    BY <1>1, LoggedIn
  <2>2. lodging' = lodging /\ process' = process /\ bared \subseteq bared'
    BY <1>1, Settings DEF LogIn
  <2>3. SUFFICES ASSUME ~encryption_enabled, NEW o \in Account, user'[o].login # None,
                        Confidential(user'[o].login), user'[o].login \notin bared'
                 PROVE user'[o].login = o /\ user'[o].pc \notin {"storing", "stored"}
    BY <2>2 DEF UsersSealed, Secret, Confidential, encryption_enabled
  <2>4. user'[o].login \notin bared
    BY <2>2, <2>3
  <2>5. user'[o] = user[o] => user'[o].login = o /\ user'[o].pc \notin {"storing", "stored"}
    BY <2>3, <2>4 DEF UsersSealed, Secret
  <2> QED
    BY <2>1, <2>3, <2>5
<1>2. ASSUME NEW s \in Account, Opened(s) PROVE UsersSealed'
  <2>1. /\ user' \in [Account -> Users] /\ \A t \in Account : t # s => user'[t] = user[t]
        /\ user[s].pc = "opening" /\ user'[s].pc = "open" /\ user'[s].login \in Account
        /\ user'[s].name # None => user'[s].name = user[s].place /\ user[s].source # "copy"
        /\ IF user[s].source = "plain"
           THEN /\ user[s].place \in Place /\ dir[user[s].place].plain # None
                /\ user'[s].login = dir[user[s].place].plain.login
           ELSE user[s].source \in {"sealed", "copy"} /\ user'[s].login = user[s].login
    BY <1>2, HasOpened
  <2>2. lodging' = lodging /\ process' = process /\ bared \subseteq bared'
    BY <1>2, Settings DEF Opened
  <2>3. SUFFICES ASSUME ~encryption_enabled, NEW o \in Account, user'[o].login # None,
                        Confidential(user'[o].login), user'[o].login \notin bared'
                 PROVE user'[o].login = o /\ user'[o].pc \notin {"storing", "stored"}
    BY <2>2 DEF UsersSealed, Secret, Confidential, encryption_enabled
  <2>4. user'[o].login \notin bared
    BY <2>2, <2>3
  <2>5. user'[o] = user[o] => user'[o].login = o /\ user'[o].pc \notin {"storing", "stored"}
    BY <2>3, <2>4 DEF UsersSealed, Secret
  <2>6. CASE o = s
    <3>1. CASE user[s].source = "plain"
      BY <2>1, <2>3, <2>4, <2>6, <3>1 DEF PlacesSealed, Secret
    <3>2. CASE user[s].source # "plain"
      BY <2>1, <2>3, <2>4, <2>6, <3>2 DEF UsersSealed, Secret
    <3> QED
      BY <3>1, <3>2
  <2> QED
    BY <2>1, <2>5, <2>6
<1>3. ASSUME NEW s \in Account, OpenFails(s) PROVE UsersSealed'
  <2>1. /\ user' \in [Account -> Users] /\ \A t \in Account : t # s => user'[t] = user[t]
        /\ user'[s].pc = "closed" /\ user'[s].login = None /\ user'[s].name = None /\ user'[s].place = None
    BY <1>3, GoneAway DEF OpenFails
  <2>2. lodging' = lodging /\ process' = process /\ bared \subseteq bared'
    BY <1>3, Settings DEF OpenFails
  <2>3. SUFFICES ASSUME ~encryption_enabled, NEW o \in Account, user'[o].login # None,
                        Confidential(user'[o].login), user'[o].login \notin bared'
                 PROVE user'[o].login = o /\ user'[o].pc \notin {"storing", "stored"}
    BY <2>2 DEF UsersSealed, Secret, Confidential, encryption_enabled
  <2>4. user'[o].login \notin bared
    BY <2>2, <2>3
  <2>5. user'[o] = user[o] => user'[o].login = o /\ user'[o].pc \notin {"storing", "stored"}
    BY <2>3, <2>4 DEF UsersSealed, Secret
  <2> QED
    BY <2>1, <2>3, <2>5
<1>4. ASSUME NEW s \in Account, CloseSession(s) PROVE UsersSealed'
  <2>1. /\ user' \in [Account -> Users] /\ \A t \in Account : t # s => user'[t] = user[t]
        /\ user'[s].pc = "closed" /\ user'[s].login = None /\ user'[s].name = None /\ user'[s].place = None
    BY <1>4, GoneAway DEF CloseSession
  <2>2. lodging' = lodging /\ process' = process /\ bared \subseteq bared'
    BY <1>4, Settings DEF CloseSession
  <2>3. SUFFICES ASSUME ~encryption_enabled, NEW o \in Account, user'[o].login # None,
                        Confidential(user'[o].login), user'[o].login \notin bared'
                 PROVE user'[o].login = o /\ user'[o].pc \notin {"storing", "stored"}
    BY <2>2 DEF UsersSealed, Secret, Confidential, encryption_enabled
  <2>4. user'[o].login \notin bared
    BY <2>2, <2>3
  <2>5. user'[o] = user[o] => user'[o].login = o /\ user'[o].pc \notin {"storing", "stored"}
    BY <2>3, <2>4 DEF UsersSealed, Secret
  <2> QED
    BY <2>1, <2>3, <2>5
<1>5. ASSUME NEW s \in Account, NEW p \in Place, NEW kind \in {"plain", "sealed"}, OpenFrom(s, p, kind) PROVE UsersSealed'
  <2>1. /\ user' \in [Account -> Users] /\ \A t \in Account : t # s => user'[t] = user[t]
        /\ user'[s].pc = "opening" /\ user'[s].name = None /\ user'[s].place = p /\ user'[s].source = kind
        /\ kind = "plain" => user'[s].login = None
        /\ kind = "sealed" => /\ dir[p].sealed # None /\ dir[p].sealed \in SavedFiles /\ encryption_enabled
                              /\ user'[s].login = dir[p].sealed.login
    BY <1>5, OpeningFrom
  <2>2. lodging' = lodging /\ process' = process /\ bared \subseteq bared'
    BY <1>5, Settings DEF OpenFrom
  <2>3. SUFFICES ASSUME ~encryption_enabled, NEW o \in Account, user'[o].login # None,
                        Confidential(user'[o].login), user'[o].login \notin bared'
                 PROVE user'[o].login = o /\ user'[o].pc \notin {"storing", "stored"}
    BY <2>2 DEF UsersSealed, Secret, Confidential, encryption_enabled
  <2>4. user'[o].login \notin bared
    BY <2>2, <2>3
  <2>5. user'[o] = user[o] => user'[o].login = o /\ user'[o].pc \notin {"storing", "stored"}
    BY <2>3, <2>4 DEF UsersSealed, Secret
  <2>6. o # s
    BY <2>1, <2>3
  <2> QED
    BY <2>1, <2>5, <2>6
<1>6. ASSUME NEW s \in Account, NEW t \in Account, Copied(s, t) PROVE UsersSealed'
  <2>1. /\ user' \in [Account -> Users] /\ \A o \in Account : o # t => user'[o] = user[o]
        /\ user'[t].pc = "opening" /\ user'[t].login = user[s].login /\ user[s].login \in Account
        /\ user'[t].name = None /\ user'[t].place = None /\ user'[t].source = "copy"
        /\ bared' = bared \cup {user[s].login}
    BY <1>6, CopyMade
  <2>2. lodging' = lodging /\ process' = process /\ bared \subseteq bared'
    BY <1>6, Settings DEF Copied
  <2>3. SUFFICES ASSUME ~encryption_enabled, NEW o \in Account, user'[o].login # None,
                        Confidential(user'[o].login), user'[o].login \notin bared'
                 PROVE user'[o].login = o /\ user'[o].pc \notin {"storing", "stored"}
    BY <2>2 DEF UsersSealed, Secret, Confidential, encryption_enabled
  <2>4. user'[o].login \notin bared
    BY <2>2, <2>3
  <2>5. user'[o] = user[o] => user'[o].login = o /\ user'[o].pc \notin {"storing", "stored"}
    BY <2>3, <2>4 DEF UsersSealed, Secret
  <2>6. o # t
    BY <2>1, <2>3
  <2> QED
    BY <2>1, <2>5, <2>6
<1>7. ASSUME NEW s \in Account, NEW p \in Place, NEW answer \in BOOLEAN, Save(s, p, answer) PROVE UsersSealed'
  <2>1. /\ user' \in [Account -> Users] /\ \A t \in Account : t # s => user'[t] = user[t]
        /\ user'[s].login = user[s].login /\ user'[s].name = user[s].name /\ user[s].login \in Account
        /\ \/ /\ user'[s].pc = "storing" /\ user'[s].place = p /\ ~PolicyBlocks(s, p)
              /\ begun' = [begun EXCEPT ![p] = begun[p] \cup {user[s].login}]
           \/ user'[s].pc = "recording" /\ begun' = begun
    BY <1>7, Saving
  <2>2. lodging' = lodging /\ process' = process /\ bared \subseteq bared'
    BY <1>7, Settings DEF Save
  <2>3. SUFFICES ASSUME ~encryption_enabled, NEW o \in Account, user'[o].login # None,
                        Confidential(user'[o].login), user'[o].login \notin bared'
                 PROVE user'[o].login = o /\ user'[o].pc \notin {"storing", "stored"}
    BY <2>2 DEF UsersSealed, Secret, Confidential, encryption_enabled
  <2>4. user'[o].login \notin bared
    BY <2>2, <2>3
  <2>5. user'[o] = user[o] => user'[o].login = o /\ user'[o].pc \notin {"storing", "stored"}
    BY <2>3, <2>4 DEF UsersSealed, Secret
  <2>6. CASE o = s
    <3>1. user[s].login = s
      BY <2>1, <2>3, <2>4, <2>6 DEF UsersSealed, Secret
    <3>2. PolicyBlocks(s, p)
      BY <2>1, <2>3, <2>6, <3>1 DEF PolicyBlocks
    <3> QED
      BY <2>1, <2>6, <3>1, <3>2
  <2> QED
    BY <2>1, <2>5, <2>6
<1>8. ASSUME NEW s \in Account, StateStored(s) PROVE UsersSealed'
  <2>1. /\ user' \in [Account -> Users] /\ \A t \in Account : t # s => user'[t] = user[t]
        /\ user'[s].login = user[s].login /\ user[s].pc \in Living \ {"open"}
        /\ user'[s].name = user[s].name \/ (user[s].pc = "stored" /\ user'[s].name = user[s].place)
        /\ \/ user'[s].pc \in {"open", "recording"}
           \/ user'[s].pc = "stored" /\ user[s].pc = "storing" /\ user'[s].place = user[s].place
           \/ user'[s].pc = "naming" /\ user[s].pc = "stored" /\ user'[s].place = user[s].place
    BY <1>8, MovedOn
  <2>2. lodging' = lodging /\ process' = process /\ bared \subseteq bared'
    BY <1>8, Settings DEF StateStored
  <2>3. SUFFICES ASSUME ~encryption_enabled, NEW o \in Account, user'[o].login # None,
                        Confidential(user'[o].login), user'[o].login \notin bared'
                 PROVE user'[o].login = o /\ user'[o].pc \notin {"storing", "stored"}
    BY <2>2 DEF UsersSealed, Secret, Confidential, encryption_enabled
  <2>4. user'[o].login \notin bared
    BY <2>2, <2>3
  <2>5. user'[o] = user[o] => user'[o].login = o /\ user'[o].pc \notin {"storing", "stored"}
    BY <2>3, <2>4 DEF UsersSealed, Secret
  <2>6. CASE o = s
    <3>1. user[s].login = s /\ user[s].pc \notin {"storing", "stored"}
      BY <2>1, <2>3, <2>4, <2>6 DEF UsersSealed, Secret
    <3> QED
      BY <2>1, <2>6, <3>1
  <2> QED
    BY <2>1, <2>5, <2>6
<1>9. ASSUME NEW s \in Account, Sealed(s) PROVE UsersSealed'
  <2>1. /\ user' \in [Account -> Users] /\ \A t \in Account : t # s => user'[t] = user[t]
        /\ user'[s].login = user[s].login /\ user[s].pc \in Living \ {"open"}
        /\ user'[s].name = user[s].name \/ (user[s].pc = "stored" /\ user'[s].name = user[s].place)
        /\ \/ user'[s].pc \in {"open", "recording"}
           \/ user'[s].pc = "stored" /\ user[s].pc = "storing" /\ user'[s].place = user[s].place
           \/ user'[s].pc = "naming" /\ user[s].pc = "stored" /\ user'[s].place = user[s].place
    BY <1>9, MovedOn
  <2>2. lodging' = lodging /\ process' = process /\ bared \subseteq bared'
    BY <1>9, Settings DEF Sealed
  <2>3. SUFFICES ASSUME ~encryption_enabled, NEW o \in Account, user'[o].login # None,
                        Confidential(user'[o].login), user'[o].login \notin bared'
                 PROVE user'[o].login = o /\ user'[o].pc \notin {"storing", "stored"}
    BY <2>2 DEF UsersSealed, Secret, Confidential, encryption_enabled
  <2>4. user'[o].login \notin bared
    BY <2>2, <2>3
  <2>5. user'[o] = user[o] => user'[o].login = o /\ user'[o].pc \notin {"storing", "stored"}
    BY <2>3, <2>4 DEF UsersSealed, Secret
  <2>6. CASE o = s
    <3>1. user[s].login = s /\ user[s].pc \notin {"storing", "stored"}
      BY <2>1, <2>3, <2>4, <2>6 DEF UsersSealed, Secret
    <3> QED
      BY <2>1, <2>6, <3>1
  <2> QED
    BY <2>1, <2>5, <2>6
<1>10. ASSUME NEW s \in Account, SaveFails(s) PROVE UsersSealed'
  <2>1. /\ user' \in [Account -> Users] /\ \A t \in Account : t # s => user'[t] = user[t]
        /\ user'[s].login = user[s].login /\ user[s].pc \in Living \ {"open"}
        /\ user'[s].name = user[s].name \/ (user[s].pc = "stored" /\ user'[s].name = user[s].place)
        /\ \/ user'[s].pc \in {"open", "recording"}
           \/ user'[s].pc = "stored" /\ user[s].pc = "storing" /\ user'[s].place = user[s].place
           \/ user'[s].pc = "naming" /\ user[s].pc = "stored" /\ user'[s].place = user[s].place
    BY <1>10, MovedOn
  <2>2. lodging' = lodging /\ process' = process /\ bared \subseteq bared'
    BY <1>10, Settings DEF SaveFails
  <2>3. SUFFICES ASSUME ~encryption_enabled, NEW o \in Account, user'[o].login # None,
                        Confidential(user'[o].login), user'[o].login \notin bared'
                 PROVE user'[o].login = o /\ user'[o].pc \notin {"storing", "stored"}
    BY <2>2 DEF UsersSealed, Secret, Confidential, encryption_enabled
  <2>4. user'[o].login \notin bared
    BY <2>2, <2>3
  <2>5. user'[o] = user[o] => user'[o].login = o /\ user'[o].pc \notin {"storing", "stored"}
    BY <2>3, <2>4 DEF UsersSealed, Secret
  <2>6. CASE o = s
    <3>1. user[s].login = s /\ user[s].pc \notin {"storing", "stored"}
      BY <2>1, <2>3, <2>4, <2>6 DEF UsersSealed, Secret
    <3> QED
      BY <2>1, <2>6, <3>1
  <2> QED
    BY <2>1, <2>5, <2>6
<1>11. ASSUME NEW s \in Account, Named(s) PROVE UsersSealed'
  <2>1. /\ user' \in [Account -> Users] /\ \A t \in Account : t # s => user'[t] = user[t]
        /\ user'[s].login = user[s].login /\ user[s].pc \in Living \ {"open"}
        /\ user'[s].name = user[s].name \/ (user[s].pc = "stored" /\ user'[s].name = user[s].place)
        /\ \/ user'[s].pc \in {"open", "recording"}
           \/ user'[s].pc = "stored" /\ user[s].pc = "storing" /\ user'[s].place = user[s].place
           \/ user'[s].pc = "naming" /\ user[s].pc = "stored" /\ user'[s].place = user[s].place
    BY <1>11, MovedOn
  <2>2. lodging' = lodging /\ process' = process /\ bared \subseteq bared'
    BY <1>11, Settings DEF Named
  <2>3. SUFFICES ASSUME ~encryption_enabled, NEW o \in Account, user'[o].login # None,
                        Confidential(user'[o].login), user'[o].login \notin bared'
                 PROVE user'[o].login = o /\ user'[o].pc \notin {"storing", "stored"}
    BY <2>2 DEF UsersSealed, Secret, Confidential, encryption_enabled
  <2>4. user'[o].login \notin bared
    BY <2>2, <2>3
  <2>5. user'[o] = user[o] => user'[o].login = o /\ user'[o].pc \notin {"storing", "stored"}
    BY <2>3, <2>4 DEF UsersSealed, Secret
  <2>6. CASE o = s
    <3>1. user[s].login = s /\ user[s].pc \notin {"storing", "stored"}
      BY <2>1, <2>3, <2>4, <2>6 DEF UsersSealed, Secret
    <3> QED
      BY <2>1, <2>6, <3>1
  <2> QED
    BY <2>1, <2>5, <2>6
<1>12. ASSUME NEW s \in Account, NEW answer \in BOOLEAN, Recorded(s, answer) PROVE UsersSealed'
  <2>1. /\ user' \in [Account -> Users] /\ \A t \in Account : t # s => user'[t] = user[t]
        /\ user'[s].login = user[s].login /\ user[s].pc \in Living \ {"open"}
        /\ user'[s].name = user[s].name \/ (user[s].pc = "stored" /\ user'[s].name = user[s].place)
        /\ \/ user'[s].pc \in {"open", "recording"}
           \/ user'[s].pc = "stored" /\ user[s].pc = "storing" /\ user'[s].place = user[s].place
           \/ user'[s].pc = "naming" /\ user[s].pc = "stored" /\ user'[s].place = user[s].place
    BY <1>12, MovedOn
  <2>2. lodging' = lodging /\ process' = process /\ bared \subseteq bared'
    BY <1>12, Settings DEF Recorded
  <2>3. SUFFICES ASSUME ~encryption_enabled, NEW o \in Account, user'[o].login # None,
                        Confidential(user'[o].login), user'[o].login \notin bared'
                 PROVE user'[o].login = o /\ user'[o].pc \notin {"storing", "stored"}
    BY <2>2 DEF UsersSealed, Secret, Confidential, encryption_enabled
  <2>4. user'[o].login \notin bared
    BY <2>2, <2>3
  <2>5. user'[o] = user[o] => user'[o].login = o /\ user'[o].pc \notin {"storing", "stored"}
    BY <2>3, <2>4 DEF UsersSealed, Secret
  <2>6. CASE o = s
    <3>1. user[s].login = s /\ user[s].pc \notin {"storing", "stored"}
      BY <2>1, <2>3, <2>4, <2>6 DEF UsersSealed, Secret
    <3> QED
      BY <2>1, <2>6, <3>1
  <2> QED
    BY <2>1, <2>5, <2>6
<1>13. ASSUME NEW p \in AuthProfile, ReadProfile(p) PROVE UsersSealed'
  <2>1. UNCHANGED user
    BY <1>13 DEF ReadProfile
  <2>2. lodging' = lodging /\ process' = process /\ bared \subseteq bared'
    BY <1>13, Settings DEF ReadProfile
  <2>3. SUFFICES ASSUME ~encryption_enabled, NEW o \in Account, user'[o].login # None,
                        Confidential(user'[o].login), user'[o].login \notin bared'
                 PROVE user'[o].login = o /\ user'[o].pc \notin {"storing", "stored"}
    BY <2>2 DEF UsersSealed, Secret, Confidential, encryption_enabled
  <2>4. user'[o].login \notin bared
    BY <2>2, <2>3
  <2>5. user'[o] = user[o] => user'[o].login = o /\ user'[o].pc \notin {"storing", "stored"}
    BY <2>3, <2>4 DEF UsersSealed, Secret
  <2> QED
    BY <2>1, <2>5
<1>14. ASSUME NEW p \in AuthProfile, Export(p) PROVE UsersSealed'
  <2>1. UNCHANGED user
    BY <1>14 DEF Export
  <2>2. lodging' = lodging /\ process' = process /\ bared \subseteq bared'
    BY <1>14, Settings DEF Export
  <2>3. SUFFICES ASSUME ~encryption_enabled, NEW o \in Account, user'[o].login # None,
                        Confidential(user'[o].login), user'[o].login \notin bared'
                 PROVE user'[o].login = o /\ user'[o].pc \notin {"storing", "stored"}
    BY <2>2 DEF UsersSealed, Secret, Confidential, encryption_enabled
  <2>4. user'[o].login \notin bared
    BY <2>2, <2>3
  <2>5. user'[o] = user[o] => user'[o].login = o /\ user'[o].pc \notin {"storing", "stored"}
    BY <2>3, <2>4 DEF UsersSealed, Secret
  <2> QED
    BY <2>1, <2>5
<1>15. ASSUME NEW p \in AuthProfile, NEW overwrite \in BOOLEAN, ImportBegin(p, overwrite) PROVE UsersSealed'
  <2>1. /\ user' \in [Account -> Users]
        /\ \A s \in Account : \/ user'[s] = user[s]
                              \/ /\ user[s].pc = "opening" /\ user'[s].source = "gone" /\ user[s].source = "sealed"
                                 /\ user'[s].pc = "opening" /\ user'[s].login = user[s].login
                                 /\ user'[s].name = user[s].name /\ user'[s].place = user[s].place
    BY <1>15, Unpacking
  <2>2. lodging' = lodging /\ process' = process /\ bared \subseteq bared'
    BY <1>15, Settings DEF ImportBegin
  <2>3. SUFFICES ASSUME ~encryption_enabled, NEW o \in Account, user'[o].login # None,
                        Confidential(user'[o].login), user'[o].login \notin bared'
                 PROVE user'[o].login = o /\ user'[o].pc \notin {"storing", "stored"}
    BY <2>2 DEF UsersSealed, Secret, Confidential, encryption_enabled
  <2>4. user'[o].login \notin bared
    BY <2>2, <2>3
  <2>5. user'[o] = user[o] => user'[o].login = o /\ user'[o].pc \notin {"storing", "stored"}
    BY <2>3, <2>4 DEF UsersSealed, Secret
  <2>6. user'[o].login = user[o].login /\ (user'[o].pc = user[o].pc \/ user'[o].pc = "opening")
    BY <2>1
  <2>7. user[o].login = o /\ user[o].pc \notin {"storing", "stored"}
    BY <2>3, <2>4, <2>6 DEF UsersSealed, Secret
  <2> QED
    BY <2>1, <2>5, <2>7
<1>16. CASE ImportEnd
  <2>1. UNCHANGED user
    BY <1>16 DEF ImportEnd
  <2>2. lodging' = lodging /\ process' = process /\ bared \subseteq bared'
    BY <1>16, Settings DEF ImportEnd
  <2>3. SUFFICES ASSUME ~encryption_enabled, NEW o \in Account, user'[o].login # None,
                        Confidential(user'[o].login), user'[o].login \notin bared'
                 PROVE user'[o].login = o /\ user'[o].pc \notin {"storing", "stored"}
    BY <2>2 DEF UsersSealed, Secret, Confidential, encryption_enabled
  <2>4. user'[o].login \notin bared
    BY <2>2, <2>3
  <2>5. user'[o] = user[o] => user'[o].login = o /\ user'[o].pc \notin {"storing", "stored"}
    BY <2>3, <2>4 DEF UsersSealed, Secret
  <2> QED
    BY <2>1, <2>5
<1>17. CASE AnHour
  <2>1. UNCHANGED user
    BY <1>17 DEF AnHour
  <2>2. lodging' = lodging /\ process' = process /\ bared \subseteq bared'
    BY <1>17, Settings DEF AnHour
  <2>3. SUFFICES ASSUME ~encryption_enabled, NEW o \in Account, user'[o].login # None,
                        Confidential(user'[o].login), user'[o].login \notin bared'
                 PROVE user'[o].login = o /\ user'[o].pc \notin {"storing", "stored"}
    BY <2>2 DEF UsersSealed, Secret, Confidential, encryption_enabled
  <2>4. user'[o].login \notin bared
    BY <2>2, <2>3
  <2>5. user'[o] = user[o] => user'[o].login = o /\ user'[o].pc \notin {"storing", "stored"}
    BY <2>3, <2>4 DEF UsersSealed, Secret
  <2> QED
    BY <2>1, <2>5
<1>18. CASE NextProcess
  <2>1. /\ user' \in [Account -> Users]
        /\ \A s \in Account : user'[s].pc = "closed" /\ user'[s].login = None /\ user'[s].name = None /\ user'[s].place = None
    BY <1>18, NextUsers
  <2> QED
    BY <2>1 DEF UsersSealed
<1>19. CASE UNCHANGED uvars
  BY <1>19 DEF uvars, UsersSealed, Secret, Confidential, encryption_enabled
<1> QED
  BY <1>1, <1>2, <1>3, <1>4, <1>5, <1>6, <1>7, <1>8, <1>9, <1>10, <1>11, <1>12, <1>13, <1>14,
     <1>15, <1>16, <1>17, <1>18, <1>19
  DEF UNext, Fork, ShadowBrowse

\* A file, a half file and an archive that were there before hold no secret afterwards either.
LEMMA PlacesStaySealed ==
  ASSUME PlacesSealed, lodging' = lodging, bared \subseteq bared',
         \A q \in Place : dir'[q].plain = None \/ ~Secret(dir'[q].plain.login) \/ dir'[q].plain = dir[q].plain,
         \A q \in Place : encryption_enabled' \/ half'[q] = None \/ ~Secret(half'[q])
                            \/ (half'[q] = half[q] /\ ~encryption_enabled),
         \A q \in AuthProfile : \/ archive'[q] = None \/ archive'[q].plain = None \/ ~Secret(archive'[q].plain.login)
                                \/ archive'[q] = archive[q]
  PROVE PlacesSealed'
<1>1. \A q \in Place : dir'[q].plain # None => ~(Confidential(dir'[q].plain.login) /\ dir'[q].plain.login \notin bared')
  BY DEF PlacesSealed, Secret
<1>2. \A q \in Place : ~encryption_enabled' /\ half'[q] # None => ~(Confidential(half'[q]) /\ half'[q] \notin bared')
  BY DEF PlacesSealed, Secret
<1>3. \A q \in AuthProfile : archive'[q] # None /\ archive'[q].plain # None =>
        ~(Confidential(archive'[q].plain.login) /\ archive'[q].plain.login \notin bared')
  BY DEF PlacesSealed, Secret
<1> QED
  BY <1>1, <1>2, <1>3 DEF PlacesSealed, Secret, Confidential

LEMMA PlacesSealedKept ==
  UTypes /\ Equipped /\ UsersSealed /\ PlacesSealed /\ [UNext]_uvars => PlacesSealed'
<1> SUFFICES ASSUME UTypes, Equipped, UsersSealed, PlacesSealed, [UNext]_uvars PROVE PlacesSealed'
  OBVIOUS
<1>1. ASSUME NEW s \in Account, LogIn(s) PROVE PlacesSealed'
  <2>1. lodging' = lodging /\ bared \subseteq bared'
    BY <1>1, Settings DEF LogIn
  <2>2. UNCHANGED dir
    BY <1>1 DEF LogIn
  <2>3. encryption_enabled' = encryption_enabled
    BY <1>1, <2>1 DEF LogIn, encryption_enabled
  <2>4. \A o \in Place : dir'[o].plain = None \/ ~Secret(dir'[o].plain.login) \/ dir'[o].plain = dir[o].plain
    BY <2>2
  <2>5. \A o \in Place : encryption_enabled' \/ half'[o] = None \/ ~Secret(half'[o])
                            \/ (half'[o] = half[o] /\ ~encryption_enabled)
    <3>1. half' = half
      BY <1>1 DEF LogIn
    <3> QED
      BY <2>3, <3>1
  <2>6. \A o \in AuthProfile : \/ archive'[o] = None \/ archive'[o].plain = None \/ ~Secret(archive'[o].plain.login)
                                 \/ archive'[o] = archive[o]
    BY <1>1 DEF LogIn
  <2> QED
    BY <2>1, <2>4, <2>5, <2>6, PlacesStaySealed
<1>2. ASSUME NEW s \in Account, Opened(s) PROVE PlacesSealed'
  <2>1. lodging' = lodging /\ bared \subseteq bared'
    BY <1>2, Settings DEF Opened
  <2>2. UNCHANGED dir
    BY <1>2 DEF Opened
  <2>3. encryption_enabled' = encryption_enabled
    BY <1>2, <2>1 DEF Opened, encryption_enabled
  <2>4. \A o \in Place : dir'[o].plain = None \/ ~Secret(dir'[o].plain.login) \/ dir'[o].plain = dir[o].plain
    BY <2>2
  <2>5. \A o \in Place : encryption_enabled' \/ half'[o] = None \/ ~Secret(half'[o])
                            \/ (half'[o] = half[o] /\ ~encryption_enabled)
    <3>1. half' = half
      BY <1>2 DEF Opened
    <3> QED
      BY <2>3, <3>1
  <2>6. \A o \in AuthProfile : \/ archive'[o] = None \/ archive'[o].plain = None \/ ~Secret(archive'[o].plain.login)
                                 \/ archive'[o] = archive[o]
    BY <1>2 DEF Opened
  <2> QED
    BY <2>1, <2>4, <2>5, <2>6, PlacesStaySealed
<1>3. ASSUME NEW s \in Account, OpenFails(s) PROVE PlacesSealed'
  <2>1. lodging' = lodging /\ bared \subseteq bared'
    BY <1>3, Settings DEF OpenFails
  <2>2. UNCHANGED dir
    BY <1>3 DEF OpenFails
  <2>3. encryption_enabled' = encryption_enabled
    BY <1>3, <2>1 DEF OpenFails, encryption_enabled
  <2>4. \A o \in Place : dir'[o].plain = None \/ ~Secret(dir'[o].plain.login) \/ dir'[o].plain = dir[o].plain
    BY <2>2
  <2>5. \A o \in Place : encryption_enabled' \/ half'[o] = None \/ ~Secret(half'[o])
                            \/ (half'[o] = half[o] /\ ~encryption_enabled)
    <3>1. half' = half
      BY <1>3 DEF OpenFails
    <3> QED
      BY <2>3, <3>1
  <2>6. \A o \in AuthProfile : \/ archive'[o] = None \/ archive'[o].plain = None \/ ~Secret(archive'[o].plain.login)
                                 \/ archive'[o] = archive[o]
    BY <1>3 DEF OpenFails
  <2> QED
    BY <2>1, <2>4, <2>5, <2>6, PlacesStaySealed
<1>4. ASSUME NEW s \in Account, CloseSession(s) PROVE PlacesSealed'
  <2>1. lodging' = lodging /\ bared \subseteq bared'
    BY <1>4, Settings DEF CloseSession
  <2>2. UNCHANGED dir
    BY <1>4 DEF CloseSession
  <2>3. encryption_enabled' = encryption_enabled
    BY <1>4, <2>1 DEF CloseSession, encryption_enabled
  <2>4. \A o \in Place : dir'[o].plain = None \/ ~Secret(dir'[o].plain.login) \/ dir'[o].plain = dir[o].plain
    BY <2>2
  <2>5. \A o \in Place : encryption_enabled' \/ half'[o] = None \/ ~Secret(half'[o])
                            \/ (half'[o] = half[o] /\ ~encryption_enabled)
    <3>1. half' = half
      BY <1>4 DEF CloseSession
    <3> QED
      BY <2>3, <3>1
  <2>6. \A o \in AuthProfile : \/ archive'[o] = None \/ archive'[o].plain = None \/ ~Secret(archive'[o].plain.login)
                                 \/ archive'[o] = archive[o]
    BY <1>4 DEF CloseSession
  <2> QED
    BY <2>1, <2>4, <2>5, <2>6, PlacesStaySealed
<1>5. ASSUME NEW s \in Account, NEW p \in Place, NEW kind \in {"plain", "sealed"}, OpenFrom(s, p, kind) PROVE PlacesSealed'
  <2>1. lodging' = lodging /\ bared \subseteq bared'
    BY <1>5, Settings DEF OpenFrom
  <2>2. UNCHANGED dir
    BY <1>5 DEF OpenFrom
  <2>3. encryption_enabled' = encryption_enabled
    BY <1>5, <2>1 DEF OpenFrom, encryption_enabled
  <2>4. \A o \in Place : dir'[o].plain = None \/ ~Secret(dir'[o].plain.login) \/ dir'[o].plain = dir[o].plain
    BY <2>2
  <2>5. \A o \in Place : encryption_enabled' \/ half'[o] = None \/ ~Secret(half'[o])
                            \/ (half'[o] = half[o] /\ ~encryption_enabled)
    <3>1. half' = half
      BY <1>5 DEF OpenFrom
    <3> QED
      BY <2>3, <3>1
  <2>6. \A o \in AuthProfile : \/ archive'[o] = None \/ archive'[o].plain = None \/ ~Secret(archive'[o].plain.login)
                                 \/ archive'[o] = archive[o]
    BY <1>5 DEF OpenFrom
  <2> QED
    BY <2>1, <2>4, <2>5, <2>6, PlacesStaySealed
<1>6. ASSUME NEW s \in Account, NEW t \in Account, Copied(s, t) PROVE PlacesSealed'
  <2>1. lodging' = lodging /\ bared \subseteq bared'
    BY <1>6, Settings DEF Copied
  <2>2. UNCHANGED dir
    BY <1>6 DEF Copied
  <2>3. encryption_enabled' = encryption_enabled
    BY <1>6, <2>1 DEF Copied, encryption_enabled
  <2>4. \A o \in Place : dir'[o].plain = None \/ ~Secret(dir'[o].plain.login) \/ dir'[o].plain = dir[o].plain
    BY <2>2
  <2>5. \A o \in Place : encryption_enabled' \/ half'[o] = None \/ ~Secret(half'[o])
                            \/ (half'[o] = half[o] /\ ~encryption_enabled)
    <3>1. half' = half
      BY <1>6 DEF Copied
    <3> QED
      BY <2>3, <3>1
  <2>6. \A o \in AuthProfile : \/ archive'[o] = None \/ archive'[o].plain = None \/ ~Secret(archive'[o].plain.login)
                                 \/ archive'[o] = archive[o]
    BY <1>6 DEF Copied
  <2> QED
    BY <2>1, <2>4, <2>5, <2>6, PlacesStaySealed
<1>7. ASSUME NEW s \in Account, NEW p \in Place, NEW answer \in BOOLEAN, Save(s, p, answer) PROVE PlacesSealed'
  <2>1. lodging' = lodging /\ bared \subseteq bared'
    BY <1>7, Settings DEF Save
  <2>2. dir' \in [Place -> Dirs] /\ \A q \in Place : dir'[q].plain = dir[q].plain /\ dir'[q].sealed = dir[q].sealed
    BY <1>7, SameFiles
  <2>3. encryption_enabled' = encryption_enabled
    BY <1>7, <2>1 DEF Save, encryption_enabled
  <2>4. \A o \in Place : dir'[o].plain = None \/ ~Secret(dir'[o].plain.login) \/ dir'[o].plain = dir[o].plain
    BY <2>2
  <2>5. \A o \in Place : encryption_enabled' \/ half'[o] = None \/ ~Secret(half'[o])
                            \/ (half'[o] = half[o] /\ ~encryption_enabled)
    <3>1. half' = half
      BY <1>7 DEF Save
    <3> QED
      BY <2>3, <3>1
  <2>6. \A o \in AuthProfile : \/ archive'[o] = None \/ archive'[o].plain = None \/ ~Secret(archive'[o].plain.login)
                                 \/ archive'[o] = archive[o]
    BY <1>7 DEF Save
  <2> QED
    BY <2>1, <2>4, <2>5, <2>6, PlacesStaySealed
<1>8. ASSUME NEW s \in Account, StateStored(s) PROVE PlacesSealed'
  <2>1. lodging' = lodging /\ bared \subseteq bared'
    BY <1>8, Settings DEF StateStored
  <2>2. UNCHANGED dir
    BY <1>8 DEF StateStored
  <2>3. encryption_enabled' = encryption_enabled
    BY <1>8, <2>1 DEF StateStored, encryption_enabled
  <2>4. \A o \in Place : dir'[o].plain = None \/ ~Secret(dir'[o].plain.login) \/ dir'[o].plain = dir[o].plain
    BY <2>2
  <2>5. \A o \in Place : encryption_enabled' \/ half'[o] = None \/ ~Secret(half'[o])
                            \/ (half'[o] = half[o] /\ ~encryption_enabled)
    <3>1. user[s].place \in Place /\ user[s].login \in Account /\ user[s].pc = "storing"
      BY <1>8 DEF StateStored, Equipped, Living
    <3>2. \A o \in Place : half'[o] = half[o] \/ half'[o] = user[s].login
      BY <1>8, <3>1 DEF StateStored, TempOf, UTypes
    <3>3. ~encryption_enabled => ~Secret(user[s].login)
      BY <3>1, LoginsAssumption DEF UsersSealed
    <3> QED
      BY <2>3, <3>2, <3>3
  <2>6. \A o \in AuthProfile : \/ archive'[o] = None \/ archive'[o].plain = None \/ ~Secret(archive'[o].plain.login)
                                 \/ archive'[o] = archive[o]
    BY <1>8 DEF StateStored
  <2> QED
    BY <2>1, <2>4, <2>5, <2>6, PlacesStaySealed
<1>9. ASSUME NEW s \in Account, Sealed(s) PROVE PlacesSealed'
  <2>1. lodging' = lodging /\ bared \subseteq bared'
    BY <1>9, Settings DEF Sealed
  <2>2. PICK q \in Place :
          /\ q = user[s].place /\ half[q] \in Account /\ half' = [half EXCEPT ![q] = None]
          /\ dir' \in [Place -> Dirs] /\ \A o \in Place : o # q => dir'[o] = dir[o]
          /\ \/ encryption_enabled /\ dir'[q].plain = dir[q].plain /\ dir'[q].sealed.login = half[q]
             \/ ~encryption_enabled /\ dir'[q].sealed = dir[q].sealed /\ dir'[q].plain.login = half[q]
    BY <1>9, SealedFiles
  <2>3. encryption_enabled' = encryption_enabled
    BY <1>9, <2>1 DEF Sealed, encryption_enabled
  <2>4. \A o \in Place : dir'[o].plain = None \/ ~Secret(dir'[o].plain.login) \/ dir'[o].plain = dir[o].plain
    BY <2>2, LoginsAssumption DEF PlacesSealed
  <2>5. \A o \in Place : encryption_enabled' \/ half'[o] = None \/ ~Secret(half'[o])
                            \/ (half'[o] = half[o] /\ ~encryption_enabled)
    <3>1. half'[q] = None /\ \A o \in Place : o # q => half'[o] = half[o]
      BY <2>2 DEF UTypes
    <3> QED
      BY <2>3, <3>1
  <2>6. \A o \in AuthProfile : \/ archive'[o] = None \/ archive'[o].plain = None \/ ~Secret(archive'[o].plain.login)
                                 \/ archive'[o] = archive[o]
    BY <1>9 DEF Sealed
  <2> QED
    BY <2>1, <2>4, <2>5, <2>6, PlacesStaySealed
<1>10. ASSUME NEW s \in Account, SaveFails(s) PROVE PlacesSealed'
  <2>1. lodging' = lodging /\ bared \subseteq bared'
    BY <1>10, Settings DEF SaveFails
  <2>2. UNCHANGED dir
    BY <1>10 DEF SaveFails
  <2>3. encryption_enabled' = encryption_enabled
    BY <1>10, <2>1 DEF SaveFails, encryption_enabled
  <2>4. \A o \in Place : dir'[o].plain = None \/ ~Secret(dir'[o].plain.login) \/ dir'[o].plain = dir[o].plain
    BY <2>2
  <2>5. \A o \in Place : encryption_enabled' \/ half'[o] = None \/ ~Secret(half'[o])
                            \/ (half'[o] = half[o] /\ ~encryption_enabled)
    <3>1. half' = half
      BY <1>10 DEF SaveFails
    <3> QED
      BY <2>3, <3>1
  <2>6. \A o \in AuthProfile : \/ archive'[o] = None \/ archive'[o].plain = None \/ ~Secret(archive'[o].plain.login)
                                 \/ archive'[o] = archive[o]
    BY <1>10 DEF SaveFails
  <2> QED
    BY <2>1, <2>4, <2>5, <2>6, PlacesStaySealed
<1>11. ASSUME NEW s \in Account, Named(s) PROVE PlacesSealed'
  <2>1. lodging' = lodging /\ bared \subseteq bared'
    BY <1>11, Settings DEF Named
  <2>2. dir' \in [Place -> Dirs] /\ \A q \in Place : dir'[q].plain = dir[q].plain /\ dir'[q].sealed = dir[q].sealed
    <3>1. user[s].place \in Place
      BY <1>11 DEF Named, Equipped
    <3> QED
      BY <1>11, <3>1, SameFiles
  <2>3. encryption_enabled' = encryption_enabled
    BY <1>11, <2>1 DEF Named, encryption_enabled
  <2>4. \A o \in Place : dir'[o].plain = None \/ ~Secret(dir'[o].plain.login) \/ dir'[o].plain = dir[o].plain
    BY <2>2
  <2>5. \A o \in Place : encryption_enabled' \/ half'[o] = None \/ ~Secret(half'[o])
                            \/ (half'[o] = half[o] /\ ~encryption_enabled)
    <3>1. half' = half
      BY <1>11 DEF Named
    <3> QED
      BY <2>3, <3>1
  <2>6. \A o \in AuthProfile : \/ archive'[o] = None \/ archive'[o].plain = None \/ ~Secret(archive'[o].plain.login)
                                 \/ archive'[o] = archive[o]
    BY <1>11 DEF Named
  <2> QED
    BY <2>1, <2>4, <2>5, <2>6, PlacesStaySealed
<1>12. ASSUME NEW s \in Account, NEW answer \in BOOLEAN, Recorded(s, answer) PROVE PlacesSealed'
  <2>1. lodging' = lodging /\ bared \subseteq bared'
    BY <1>12, Settings DEF Recorded
  <2>2. UNCHANGED dir
    BY <1>12 DEF Recorded
  <2>3. encryption_enabled' = encryption_enabled
    BY <1>12, <2>1 DEF Recorded, encryption_enabled
  <2>4. \A o \in Place : dir'[o].plain = None \/ ~Secret(dir'[o].plain.login) \/ dir'[o].plain = dir[o].plain
    BY <2>2
  <2>5. \A o \in Place : encryption_enabled' \/ half'[o] = None \/ ~Secret(half'[o])
                            \/ (half'[o] = half[o] /\ ~encryption_enabled)
    <3>1. half' = half
      BY <1>12 DEF Recorded
    <3> QED
      BY <2>3, <3>1
  <2>6. \A o \in AuthProfile : \/ archive'[o] = None \/ archive'[o].plain = None \/ ~Secret(archive'[o].plain.login)
                                 \/ archive'[o] = archive[o]
    BY <1>12 DEF Recorded
  <2> QED
    BY <2>1, <2>4, <2>5, <2>6, PlacesStaySealed
<1>13. ASSUME NEW p \in AuthProfile, ReadProfile(p) PROVE PlacesSealed'
  <2>1. lodging' = lodging /\ bared \subseteq bared'
    BY <1>13, Settings DEF ReadProfile
  <2>2. dir' \in [Place -> Dirs] /\ \A q \in Place : dir'[q].plain = dir[q].plain /\ dir'[q].sealed = dir[q].sealed
    BY <1>13, SameFiles
  <2>3. encryption_enabled' = encryption_enabled
    BY <1>13, <2>1 DEF ReadProfile, encryption_enabled
  <2>4. \A o \in Place : dir'[o].plain = None \/ ~Secret(dir'[o].plain.login) \/ dir'[o].plain = dir[o].plain
    BY <2>2
  <2>5. \A o \in Place : encryption_enabled' \/ half'[o] = None \/ ~Secret(half'[o])
                            \/ (half'[o] = half[o] /\ ~encryption_enabled)
    <3>1. half' = half
      BY <1>13 DEF ReadProfile
    <3> QED
      BY <2>3, <3>1
  <2>6. \A o \in AuthProfile : \/ archive'[o] = None \/ archive'[o].plain = None \/ ~Secret(archive'[o].plain.login)
                                 \/ archive'[o] = archive[o]
    BY <1>13 DEF ReadProfile
  <2> QED
    BY <2>1, <2>4, <2>5, <2>6, PlacesStaySealed
<1>14. ASSUME NEW p \in AuthProfile, Export(p) PROVE PlacesSealed'
  <2>1. lodging' = lodging /\ bared \subseteq bared'
    BY <1>14, Settings DEF Export
  <2>2. UNCHANGED dir
    BY <1>14 DEF Export
  <2>3. encryption_enabled' = encryption_enabled
    BY <1>14, <2>1 DEF Export, encryption_enabled
  <2>4. \A o \in Place : dir'[o].plain = None \/ ~Secret(dir'[o].plain.login) \/ dir'[o].plain = dir[o].plain
    BY <2>2
  <2>5. \A o \in Place : encryption_enabled' \/ half'[o] = None \/ ~Secret(half'[o])
                            \/ (half'[o] = half[o] /\ ~encryption_enabled)
    <3>1. half' = half
      BY <1>14 DEF Export
    <3> QED
      BY <2>3, <3>1
  <2>6. \A o \in AuthProfile : \/ archive'[o] = None \/ archive'[o].plain = None \/ ~Secret(archive'[o].plain.login)
                                 \/ archive'[o] = archive[o]
    <3>1. \A o \in AuthProfile : archive'[o] = archive[o] \/ archive'[o] = dir[o]
      BY <1>14 DEF Export, UTypes
    <3> QED
      BY <3>1 DEF PlacesSealed, Place
  <2> QED
    BY <2>1, <2>4, <2>5, <2>6, PlacesStaySealed
<1>15. ASSUME NEW p \in AuthProfile, NEW overwrite \in BOOLEAN, ImportBegin(p, overwrite) PROVE PlacesSealed'
  <2>1. lodging' = lodging /\ bared \subseteq bared'
    BY <1>15, Settings DEF ImportBegin
  <2>2. /\ dir' \in [Place -> Dirs] /\ dir'[p].plain = None /\ dir'[p].sealed = None
        /\ \A q \in Place : q # p => dir'[q] = dir[q]
        /\ half' \in [Place -> Account \cup {None}] /\ half'[p] = None /\ \A q \in Place : q # p => half'[q] = half[q]
    BY <1>15, EmptiedPlace
  <2>3. encryption_enabled' = encryption_enabled
    BY <1>15, <2>1 DEF ImportBegin, encryption_enabled
  <2>4. \A o \in Place : dir'[o].plain = None \/ ~Secret(dir'[o].plain.login) \/ dir'[o].plain = dir[o].plain
    BY <2>2
  <2>5. \A o \in Place : encryption_enabled' \/ half'[o] = None \/ ~Secret(half'[o])
                            \/ (half'[o] = half[o] /\ ~encryption_enabled)
    BY <2>2, <2>3
  <2>6. \A o \in AuthProfile : \/ archive'[o] = None \/ archive'[o].plain = None \/ ~Secret(archive'[o].plain.login)
                                 \/ archive'[o] = archive[o]
    BY <1>15 DEF ImportBegin
  <2> QED
    BY <2>1, <2>4, <2>5, <2>6, PlacesStaySealed
<1>16. CASE ImportEnd
  <2>1. lodging' = lodging /\ bared \subseteq bared'
    BY <1>16, Settings DEF ImportEnd
  <2>2. PICK p \in AuthProfile :
          /\ archive[p] # None
          /\ dir' \in [Place -> Dirs] /\ \A q \in Place : q # p => dir'[q] = dir[q]
          /\ \/ dir'[p].plain = dir[p].plain
             \/ archive[p].plain # None /\ dir'[p].plain.login = archive[p].plain.login
          /\ \/ dir'[p].sealed = dir[p].sealed
             \/ archive[p].sealed # None /\ dir'[p].sealed.login = archive[p].sealed.login
    BY <1>16, ImportedFiles
  <2>3. encryption_enabled' = encryption_enabled
    BY <1>16, <2>1 DEF ImportEnd, encryption_enabled
  <2>4. \A o \in Place : dir'[o].plain = None \/ ~Secret(dir'[o].plain.login) \/ dir'[o].plain = dir[o].plain
    <3>1. p \in Place
      BY DEF Place
    <3> QED
      BY <2>2, <3>1 DEF PlacesSealed
  <2>5. \A o \in Place : encryption_enabled' \/ half'[o] = None \/ ~Secret(half'[o])
                            \/ (half'[o] = half[o] /\ ~encryption_enabled)
    <3>1. half' = half
      BY <1>16 DEF ImportEnd
    <3> QED
      BY <2>3, <3>1
  <2>6. \A o \in AuthProfile : \/ archive'[o] = None \/ archive'[o].plain = None \/ ~Secret(archive'[o].plain.login)
                                 \/ archive'[o] = archive[o]
    BY <1>16 DEF ImportEnd
  <2> QED
    BY <2>1, <2>4, <2>5, <2>6, PlacesStaySealed
<1>17. CASE AnHour
  <2>1. lodging' = lodging /\ bared \subseteq bared'
    BY <1>17, Settings DEF AnHour
  <2>2. UNCHANGED dir
    BY <1>17 DEF AnHour
  <2>3. encryption_enabled' = encryption_enabled
    BY <1>17, <2>1 DEF AnHour, encryption_enabled
  <2>4. \A o \in Place : dir'[o].plain = None \/ ~Secret(dir'[o].plain.login) \/ dir'[o].plain = dir[o].plain
    BY <2>2
  <2>5. \A o \in Place : encryption_enabled' \/ half'[o] = None \/ ~Secret(half'[o])
                            \/ (half'[o] = half[o] /\ ~encryption_enabled)
    <3>1. half' = half
      BY <1>17 DEF AnHour
    <3> QED
      BY <2>3, <3>1
  <2>6. \A o \in AuthProfile : \/ archive'[o] = None \/ archive'[o].plain = None \/ ~Secret(archive'[o].plain.login)
                                 \/ archive'[o] = archive[o]
    BY <1>17 DEF AnHour
  <2> QED
    BY <2>1, <2>4, <2>5, <2>6, PlacesStaySealed
<1>18. CASE NextProcess
  <2>1. lodging' = lodging /\ bared \subseteq bared'
    BY <1>18, Settings DEF NextProcess
  <2>2. UNCHANGED dir
    BY <1>18 DEF NextProcess
  <2>4. \A o \in Place : dir'[o].plain = None \/ ~Secret(dir'[o].plain.login) \/ dir'[o].plain = dir[o].plain
    BY <2>2
  <2>5. \A o \in Place : encryption_enabled' \/ half'[o] = None \/ ~Secret(half'[o])
                            \/ (half'[o] = half[o] /\ ~encryption_enabled)
    BY <1>18 DEF NextProcess
  <2>6. \A o \in AuthProfile : \/ archive'[o] = None \/ archive'[o].plain = None \/ ~Secret(archive'[o].plain.login)
                                 \/ archive'[o] = archive[o]
    BY <1>18 DEF NextProcess
  <2> QED
    BY <2>1, <2>4, <2>5, <2>6, PlacesStaySealed
<1>19. CASE UNCHANGED uvars
  BY <1>19 DEF uvars, PlacesSealed, Secret, Confidential, encryption_enabled
<1> QED
  BY <1>1, <1>2, <1>3, <1>4, <1>5, <1>6, <1>7, <1>8, <1>9, <1>10, <1>11, <1>12, <1>13, <1>14,
     <1>15, <1>16, <1>17, <1>18, <1>19
  DEF UNext, Fork, ShadowBrowse

LEMMA UInitInv == UInit => UInv
<1> SUFFICES ASSUME UInit PROVE UInv
  OBVIOUS
<1>1. /\ \A s \in Account : user[s] = Away
      /\ \A p \in Place : dir[p] = NoDir /\ half[p] = None
      /\ \A p \in AuthProfile : archive[p] = None
  BY DEF UInit
<1>2. Away \in Users /\ NoDir \in Dirs
  BY DEF Away, Users, NoDir, Dirs
<1>3. UTypes
  BY <1>2 DEF UInit, UTypes
<1>4. Equipped /\ UsersApart /\ UsersSealed
  BY <1>1 DEF Equipped, UsersApart, UsersSealed, Away, Living
<1>5. PlacesApart /\ PlacesSealed
  BY <1>1 DEF PlacesApart, PlacesSealed, NoDir
<1> QED
  BY <1>3, <1>4, <1>5 DEF UInv

LEMMA UInvariant == USpec => []UInv
<1>1. UInv /\ [UNext]_uvars => UInv'
  BY UTypesKept, EquippedKept, PlacesApartKept, UsersApartKept, UsersSealedKept, PlacesSealedKept DEF UInv
<1> QED
  BY <1>1, UInitInv, PTL DEF USpec

\* Whatever saves, openings, imports and restarts fall together, the login in a file of a profile
\* and that of a session with the profile's name was saved under that name
\* (BrowserAuthProfileService, AuthStateManager).
THEOREM LoginsApart == USpec => []ProfilesApart
<1>1. UInv => ProfilesApart
  BY DEF UInv, PlacesApart, UsersApart, ProfilesApart, Files
<1> QED
  BY <1>1, UInvariant, PTL

\* The login of a confidential session that was never copied lies in the clear in no file, in
\* whatever sessions it was loaded and with whatever key settings the controller was started.
THEOREM LoginsSealed == USpec => []ConfidentialSealed
<1>1. UInv => ConfidentialSealed
  BY DEF UInv, PlacesSealed, Secret, ConfidentialSealed
<1> QED
  BY <1>1, UInvariant, PTL

-----------------------------------------------------------------------------
(* The harness.  The file of a run agrees with the run (FileAgrees), a     *)
(* candidate comes from a run whose last attempts passed (Earned), what a  *)
(* drift check has read was staged by runs that converged (OnItsWay,       *)
(* FromConverged), the candidate is the last file a staging writes         *)
(* (CandidateLast), and a file beside a candidate that is not of its run   *)
(* is being written by a later one, or was when that was cut off (Whole).  *)

Traces == [shows : SUBSET Condition, evidence : SUBSET EvidenceKind]
Convs == [pc : {"idle", "attempt", "verify", "stage", "record", "returned", "gone"},
          asked : Nat \cup {None}, mock : (SUBSET Condition) \cup {None}, trace : Traces \cup {None},
          results : Seq(BOOLEAN),
          status : {"created", "running", "converged", "unconverged", "failed", "over_budget"}]
RunFiles == [status : {"running", "converged", "unconverged", "failed", "over_budget"}, attempts : Nat,
             candidate : Run \cup {None}]
Staging == [1..CandidateAt -> Run \cup {None}]
DriftChecks == [pc : {"idle", "verify"}, files : Staging]
DriftFiles == [status : {"healthy", "unverified", "degraded"}, files : Staging]
Converged == {r \in Run : conv[r].status = "converged"}

HTypes ==
  /\ trial \in Trials
  /\ conv \in [Run -> Convs]
  /\ file \in [Run -> RunFiles \cup {None}]
  /\ staged \in Staging /\ written \in 0..(CandidateAt - 1)
  /\ check \in [Checker -> DriftChecks]
  /\ drift \in DriftFiles \cup {None}

\* The file of a run is as the run was when it was last saved, and nothing changed since that
\* the file tells.
FileAgrees ==
  \A r \in Run :
    /\ file[r] = None <=> conv[r].pc = "idle"
    /\ conv[r].pc = "idle" => conv[r].results = <<>>
    /\ file[r] # None => file[r].status = conv[r].status /\ file[r].attempts = Len(conv[r].results)

\* Where a run is tells how it goes.
OnItsWay ==
  \A r \in Run :
    /\ conv[r].pc = "idle" => conv[r].status = "created"
    /\ conv[r].pc \in {"attempt", "verify"} => conv[r].status = "running"
    /\ conv[r].pc = "verify" => conv[r].trace # None
    /\ conv[r].pc \in {"stage", "record"} => conv[r].status = "converged"
    /\ conv[r].pc = "returned" =>
         /\ conv[r].status = "running" => DetectorMax(conv[r].asked) > trial.budget
         /\ conv[r].status = "converged" => file[r].candidate # None

\* A run that converged has earned it, whether or not its candidate was staged.
Earned ==
  \A r \in Converged :
    /\ Len(conv[r].results) >= Required
    /\ \A i \in (Len(conv[r].results) - Required + 1)..Len(conv[r].results) : conv[r].results[i]
    /\ conv[r].trace # None /\ Fulfils(conv[r].trace)

\* What is staged, was read for a check, or checked comes from runs that converged.
FromConverged ==
  /\ \A i \in 1..CandidateAt : staged[i] \in Converged \cup {None}
  /\ \A k \in Checker : check[k].pc = "verify" =>
       {check[k].files[TraceAt], check[k].files[CandidateAt]} \subseteq Converged
  /\ (drift # None /\ drift.status = "healthy") =>
       drift.files[CandidateAt] \in Converged /\ drift.files[TraceAt] = drift.files[CandidateAt]

\* One run at a time stages, and what it has written is there.
StagesAlone ==
  /\ \A r, q \in Run : {conv[r].pc, conv[q].pc} \subseteq {"stage", "record"} => r = q
  /\ \A r \in Run : conv[r].pc = "stage" => \A i \in 1..written : staged[i] = r
  /\ written # 0 => \E r \in Run : conv[r].pc = "stage"

\* The candidate is the last file of a staging.
CandidateLast == \A r \in Run : conv[r].pc = "stage" => staged[CandidateAt] # r

\* A file that is not of the run of the candidate is of another of these runs, or was cut short
\* when that one wrote it.
Beside(files, runs) ==
  files[CandidateAt] # None =>
    \A i \in 1..CandidateAt :
      files[i] = files[CandidateAt] \/ \E q \in runs \ {files[CandidateAt]} : files[i] \in {q, None}

\* The runs that were cut off after they converged, and with them the one that is staging.
WasCut == {q \in Converged : conv[q].pc = "gone"}
Staged == {q \in Converged : conv[q].pc \in {"stage", "gone"}}

Whole ==
  /\ Beside(staged, Staged)
  /\ \A k \in Checker : check[k].pc = "verify" => Beside(check[k].files, WasCut)
  /\ drift # None => Beside(drift.files, WasCut)

HInv == HTypes /\ FileAgrees /\ OnItsWay /\ Earned /\ FromConverged /\ StagesAlone
          /\ CandidateLast /\ Whole

-----------------------------------------------------------------------------

\* A set of numbers up to n that is not empty has a largest element.
LEMMA LargestNumber ==
  ASSUME NEW n \in Nat, NEW S \in SUBSET (0..n), S # {}
  PROVE Max(S) \in S /\ \A y \in S : Max(S) >= y
<1> DEFINE Below == {p \in Nat \X Nat : p[1] < p[2]}
           T == {k \in Nat : \E x \in S : k = n - x}
<1>1. IsWellFoundedOn(Below, Nat)
  BY NatLessThanWellFounded DEF OpToRel
<1>2. T \subseteq Nat /\ T # {}
  <2>1. PICK x \in S : TRUE
    OBVIOUS
  <2>2. n - x \in T
    BY <2>1
  <2> QED
    BY <2>2
<1>3. PICK k \in T : \A m \in T : ~(<<m, k>> \in Below)
  <2> HIDE DEF Below, T
  <2> QED
    BY <1>1, <1>2, WFMin
<1>4. PICK x \in S : k = n - x
  BY <1>3
<1>5. ASSUME NEW y \in S PROVE x >= y
  <2>1. n - y \in T
    OBVIOUS
  <2>2. ~(<<n - y, k>> \in Below)
    BY <1>3, <2>1
  <2> QED
    BY <1>4, <2>2
<1> QED
  BY <1>5 DEF Max

\* The smaller of two numbers.
LEMMA Smaller ==
  ASSUME NEW a \in Nat, NEW b \in Nat
  PROVE Min({a, b}) \in {a, b} /\ Min({a, b}) <= a /\ Min({a, b}) <= b
<1>1. \E x \in {a, b} : \A y \in {a, b} : x <= y
  OBVIOUS
<1> QED
  BY <1>1 DEF Min

\* The limits of a run are numbers; what is required is at least one.
LEMMA Limits ==
  ASSUME trial \in Trials
  PROVE /\ trial.budget \in Nat \ {0} /\ Required \in Nat \ {0} /\ Required <= 3
        /\ \A asked \in Nat \cup {None} :
             DetectorMax(asked) \in Nat /\ LoopMax(asked) \in {DetectorMax(asked), trial.budget}
<1>1. trial.budget \in Nat \ {0}
  BY HarnessAssumption
<1>2. Required \in Nat \ {0} /\ Required <= 3
  BY <1>1, Smaller DEF Required
<1>3. \A asked \in Nat \cup {None} : DetectorMax(asked) \in Nat
  BY <1>1 DEF DetectorMax
<1>4. \A asked \in Nat \cup {None} : LoopMax(asked) \in {DetectorMax(asked), trial.budget}
  BY <1>1, <1>3, Smaller DEF LoopMax
<1> QED
  BY <1>1, <1>2, <1>3, <1>4

\* InARow counts results at the end that all passed.
LEMMA LastPassed ==
  ASSUME NEW s \in Seq(BOOLEAN), NEW n \in Nat, InARow(s) >= n
  PROVE Len(s) >= n /\ \A i \in (Len(s) - n + 1)..Len(s) : s[i]
<1> DEFINE S == {0} \cup {i \in DOMAIN s : ~s[i]}
<1>1. Len(s) \in Nat /\ DOMAIN s = 1..Len(s)
  OBVIOUS
<1>2. S \in SUBSET (0..Len(s)) /\ S # {} /\ 0 \in S
  BY <1>1
<1>3. Max(S) \in S /\ \A y \in S : Max(S) >= y
  <2> HIDE DEF S
  <2> QED
    BY <1>1, <1>2, LargestNumber
<1>4. Max(S) \in 0..Len(s) /\ Len(s) - Max(S) >= n
  <2>1. Max(S) \in 0..Len(s)
    BY <1>2, <1>3
  <2> QED
    BY <2>1 DEF InARow
<1>5. ASSUME NEW i \in (Len(s) - n + 1)..Len(s) PROVE s[i]
  <2>1. i \in 1..Len(s) /\ i > Max(S)
    BY <1>1, <1>4
  <2>2. i \notin S
    BY <1>3, <1>4, <2>1
  <2>3. i \in DOMAIN s
    BY <1>1, <2>1
  <2> QED
    BY <2>2, <2>3, Zenon
<1> QED
  BY <1>1, <1>4, <1>5

\* A verdict of "pass" means that the contract is fulfilled, as far as the code itself looks.
LEMMA PassFulfils ==
  ASSUME trial \in Trials, NEW trace \in Traces, "pass" \in Verdicts(trace)
  PROVE Fulfils(trace)
<1>1. trial.verifier \in {"programmatic", "uv", "ensemble"}
  BY HarnessAssumption
<1>2. Programmatic(trace) = "pass" => Fulfils(trace)
  BY DEF Programmatic, Fulfils
<1>3. CASE trial.verifier = "programmatic"
  BY <1>2, <1>3 DEF Verdicts
<1>4. CASE trial.verifier = "uv"
  BY <1>4 DEF Fulfils
<1>5. CASE trial.verifier = "ensemble"
  <2>1. PICK v \in Universal : Ensemble({Programmatic(trace), v}) = "pass"
    BY <1>5 DEF Verdicts
  <2>2. Cardinality({Programmatic(trace), v}) = 1
    BY <2>1 DEF Ensemble
  <2>3. IsFiniteSet({Programmatic(trace), v})
    <3>1. IsFiniteSet({Programmatic(trace)})
      BY FS_Singleton
    <3>2. IsFiniteSet({Programmatic(trace)} \cup {v})
      BY <3>1, FS_AddElement
    <3>3. {Programmatic(trace)} \cup {v} = {Programmatic(trace), v}
      OBVIOUS
    <3> QED
      BY <3>2, <3>3
  <2>4. PICK x : {Programmatic(trace), v} = {x}
    <3> DEFINE votes == {Programmatic(trace), v}
    <3>1. IsFiniteSet(votes) /\ Cardinality(votes) = 1
      BY <2>2, <2>3
    <3> HIDE DEF votes
    <3>2. \E x : votes = {x}
      BY <3>1, FS_Singleton
    <3> QED
      BY <3>2 DEF votes
  <2>5. Ensemble({Programmatic(trace), v}) = Programmatic(trace)
    BY <2>2, <2>4 DEF Ensemble
  <2> QED
    BY <1>2, <2>1, <2>5
<1> QED
  BY <1>1, <1>3, <1>4, <1>5

\* A run that takes a new record, and the files after a save.
LEMMA RunAfter ==
  ASSUME HTypes, NEW r \in Run, NEW c \in Convs, conv' = [conv EXCEPT ![r] = c]
  PROVE conv' \in [Run -> Convs] /\ conv'[r] = c /\ \A q \in Run : q # r => conv'[q] = conv[q]
  BY DEF HTypes

LEMMA RunSaved ==
  ASSUME HTypes, NEW r \in Run, NEW c \in Convs, c.status # "created", NEW candidate \in Run \cup {None},
         SaveRun(r, c, candidate)
  PROVE /\ file' \in [Run -> RunFiles \cup {None}] /\ \A q \in Run : q # r => file'[q] = file[q]
        /\ file'[r] # None /\ file'[r].status = c.status /\ file'[r].attempts = Len(c.results)
        /\ file'[r].candidate = candidate
<1>1. [status |-> c.status, attempts |-> Len(c.results), candidate |-> candidate] \in RunFiles
  BY DEF Convs, RunFiles
<1>2. None \notin RunFiles
  BY HarnessAssumption DEF RunFiles
<1>3. file'[r] = [status |-> c.status, attempts |-> Len(c.results), candidate |-> candidate]
  BY DEF SaveRun, HTypes
<1> QED
  BY <1>1, <1>2, <1>3 DEF SaveRun, HTypes

LEMMA ConvergenceStarted ==
  ASSUME HTypes, NEW r \in Run, NEW asked \in trial.asked, NEW mock \in trial.mocked, StartConvergence(r, asked, mock)
  PROVE /\ conv' \in [Run -> Convs] /\ \A q \in Run : q # r => conv'[q] = conv[q]
        /\ conv[r].pc = "idle" /\ conv'[r].pc = "attempt" /\ conv'[r].status = "running"
        /\ file' \in [Run -> RunFiles \cup {None}] /\ \A q \in Run : q # r => file'[q] = file[q]
        /\ file'[r] # None /\ file'[r].status = conv'[r].status /\ file'[r].attempts = Len(conv'[r].results)
<1> DEFINE c == [Unrun EXCEPT !.pc = "attempt", !.asked = asked, !.mock = mock, !.status = "running"]
<1>1. asked \in Nat \cup {None} /\ mock \in (SUBSET Condition) \cup {None}
  BY HarnessAssumption DEF HTypes
<1>2. c \in Convs /\ c.pc = "attempt" /\ c.status = "running"
  <2>1. <<>> \in Seq(BOOLEAN)
    OBVIOUS
  <2>2. Unrun \in Convs
    BY <2>1 DEF Unrun, Convs
  <2> QED
    BY <1>1, <2>2 DEF Convs
<1>3. conv' = [conv EXCEPT ![r] = c] /\ SaveRun(r, c, None) /\ conv[r].pc = "idle"
  BY DEF StartConvergence
<1> HIDE DEF c
<1>4. conv' \in [Run -> Convs] /\ conv'[r] = c /\ \A q \in Run : q # r => conv'[q] = conv[q]
  BY <1>2, <1>3, RunAfter
<1>5. /\ file' \in [Run -> RunFiles \cup {None}] /\ \A q \in Run : q # r => file'[q] = file[q]
      /\ file'[r] # None /\ file'[r].status = c.status /\ file'[r].attempts = Len(c.results)
  BY <1>2, <1>3, RunSaved
<1> QED
  BY <1>2, <1>3, <1>4, <1>5

LEMMA AttemptMade ==
  ASSUME HTypes, NEW r \in Run, NEW shown \in SUBSET Condition, RunAttempt(r, shown)
  PROVE /\ conv' \in [Run -> Convs] /\ \A q \in Run : q # r => conv'[q] = conv[q]
        /\ conv[r].pc = "attempt" /\ conv'[r].pc = "verify" /\ conv'[r].trace \in Traces
        /\ conv'[r].results = conv[r].results /\ conv'[r].status = conv[r].status /\ conv'[r].asked = conv[r].asked
        /\ file' = file
<1>1. conv[r] \in Convs /\ conv[r].pc = "attempt" /\ file' = file
  BY DEF RunAttempt, HTypes
<1>2. PICK trace \in Traces : conv' = [conv EXCEPT ![r] = [conv[r] EXCEPT !.pc = "verify", !.trace = trace]]
  <2>1. AgentTrace(shown) \in Traces
    BY DEF AgentTrace, Traces, EvidenceKind
  <2>2. conv[r].mock # None => MockTrace(conv[r].mock) \in Traces
    BY <1>1 DEF MockTrace, Traces, Convs
  <2> QED
    BY <2>1, <2>2 DEF RunAttempt
<1>3. [conv[r] EXCEPT !.pc = "verify", !.trace = trace] \in Convs
  BY <1>1 DEF Convs
<1>4. /\ conv' \in [Run -> Convs] /\ conv'[r] = [conv[r] EXCEPT !.pc = "verify", !.trace = trace]
      /\ \A q \in Run : q # r => conv'[q] = conv[q]
  BY <1>2, <1>3, RunAfter
<1>5. /\ conv'[r].pc = "verify" /\ conv'[r].trace = trace
      /\ conv'[r].results = conv[r].results /\ conv'[r].status = conv[r].status /\ conv'[r].asked = conv[r].asked
  BY <1>1, <1>4 DEF Convs
<1> QED
  BY <1>1, <1>4, <1>5

LEMMA AttemptNoted ==
  ASSUME HTypes, NEW r \in Run, NEW verdict \in Universal, Attempted(r, verdict)
  PROVE /\ conv' \in [Run -> Convs] /\ \A q \in Run : q # r => conv'[q] = conv[q]
        /\ conv[r].pc = "verify" /\ conv'[r].asked = conv[r].asked
        /\ conv'[r].results = Append(conv[r].results, verdict = "pass")
        /\ conv'[r].status = Verdict(conv'[r].results, conv[r].asked)
        /\ conv'[r].status = "converged" => conv'[r].trace = conv[r].trace /\ conv'[r].pc = "stage"
        /\ conv'[r].pc \in {"attempt", "returned", "stage"}
        /\ conv'[r].pc = "attempt" => conv'[r].status = "running"
        /\ conv'[r].pc = "returned" => conv'[r].status # "converged"
        /\ conv'[r].pc = "returned" /\ conv'[r].status = "running" => Len(conv'[r].results) >= LoopMax(conv[r].asked)
        /\ conv'[r].pc = "stage" => conv'[r].status = "converged"
        /\ file' \in [Run -> RunFiles \cup {None}] /\ \A q \in Run : q # r => file'[q] = file[q]
        /\ file'[r] # None /\ file'[r].status = conv'[r].status /\ file'[r].attempts = Len(conv'[r].results)
<1>1. conv[r] \in Convs /\ conv[r].pc = "verify" /\ verdict \in Verdicts(conv[r].trace)
  BY DEF Attempted, HTypes
<1> DEFINE results == Append(conv[r].results, verdict = "pass")
           status == Verdict(results, conv[r].asked)
           goesOn == status = "running" /\ Len(results) < LoopMax(conv[r].asked)
           trace == IF status = "converged" THEN conv[r].trace ELSE None
           pc == IF goesOn THEN "attempt" ELSE IF status = "converged" THEN "stage" ELSE "returned"
           c == [conv[r] EXCEPT !.results = results, !.status = status, !.trace = trace, !.pc = pc]
<1>2. conv' = [conv EXCEPT ![r] = c] /\ SaveRun(r, c, None)
  BY DEF Attempted
<1>3. results \in Seq(BOOLEAN) /\ Len(results) \in Nat
  <2>1. PICK b \in BOOLEAN : b = (verdict = "pass")
    OBVIOUS
  <2>2. conv[r].results \in Seq(BOOLEAN)
    BY <1>1 DEF Convs
  <2> QED
    BY <2>1, <2>2
<1>4. status \in {"running", "converged", "unconverged"}
  BY DEF Verdict
<1>5. LoopMax(conv[r].asked) \in Nat
  <2>1. conv[r].asked \in Nat \cup {None} /\ trial \in Trials
    BY <1>1 DEF HTypes, Convs
  <2>2. /\ trial.budget \in Nat /\ DetectorMax(conv[r].asked) \in Nat
        /\ LoopMax(conv[r].asked) \in {DetectorMax(conv[r].asked), trial.budget}
    BY <2>1, Limits
  <2> QED
    BY <2>2
<1> HIDE DEF results, status
<1>6. /\ c \in Convs /\ c.results = results /\ c.status = status /\ c.asked = conv[r].asked
      /\ status = "converged" => c.trace = conv[r].trace /\ c.pc = "stage"
      /\ c.pc \in {"attempt", "returned", "stage"}
      /\ c.pc = "attempt" => status = "running"
      /\ c.pc = "returned" => status # "converged" /\ (status = "running" => Len(results) >= LoopMax(conv[r].asked))
      /\ c.pc = "stage" => status = "converged"
  <2>1. /\ pc \in {"attempt", "returned", "stage"} /\ (status = "converged" => pc = "stage")
        /\ pc = "attempt" => status = "running"
        /\ pc = "returned" => status # "converged" /\ (status = "running" => Len(results) >= LoopMax(conv[r].asked))
        /\ pc = "stage" => status = "converged"
    BY <1>3, <1>4, <1>5
  <2>2. trace \in Traces \cup {None} /\ (status = "converged" => trace = conv[r].trace)
    BY <1>1 DEF Convs
  <2> HIDE DEF trace, pc
  <2>3. /\ c \in Convs /\ c.results = results /\ c.status = status /\ c.asked = conv[r].asked
        /\ c.trace = trace /\ c.pc = pc
    BY <1>1, <1>3, <1>4, <2>1, <2>2 DEF Convs
  <2> QED
    BY <2>1, <2>2, <2>3
<1> HIDE DEF c, trace, pc
<1>7. conv' \in [Run -> Convs] /\ conv'[r] = c /\ \A q \in Run : q # r => conv'[q] = conv[q]
  BY <1>2, <1>6, RunAfter
<1>8. /\ file' \in [Run -> RunFiles \cup {None}] /\ \A q \in Run : q # r => file'[q] = file[q]
      /\ file'[r] # None /\ file'[r].status = c.status /\ file'[r].attempts = Len(c.results)
  BY <1>2, <1>4, <1>6, RunSaved
<1>9. c.results = Append(conv[r].results, verdict = "pass") /\ c.status = Verdict(c.results, conv[r].asked)
  BY <1>6 DEF results, status
<1> QED
  BY <1>1, <1>6, <1>7, <1>8, <1>9

LEMMA AttemptCut ==
  ASSUME HTypes, NEW r \in Run, NEW status \in {"failed", "over_budget"}, AttemptEnds(r, status)
  PROVE /\ conv' \in [Run -> Convs] /\ \A q \in Run : q # r => conv'[q] = conv[q]
        /\ conv[r].pc \in {"attempt", "verify"} /\ conv'[r].pc = "returned"
        /\ conv'[r].status \in {"failed", "over_budget"}
        /\ file' \in [Run -> RunFiles \cup {None}] /\ \A q \in Run : q # r => file'[q] = file[q]
        /\ file'[r] # None /\ file'[r].status = conv'[r].status /\ file'[r].attempts = Len(conv'[r].results)
<1>1. conv[r] \in Convs /\ conv[r].pc \in {"attempt", "verify"}
  BY DEF AttemptEnds, HTypes
<1> DEFINE c == [conv[r] EXCEPT !.status = status, !.pc = "returned", !.trace = None, !.results = Append(@, FALSE)]
<1>2. c \in Convs /\ c.pc = "returned" /\ c.status = status
  <2>1. conv[r].results \in Seq(BOOLEAN)
    BY <1>1 DEF Convs
  <2>2. Append(conv[r].results, FALSE) \in Seq(BOOLEAN)
    BY <2>1
  <2>3. c = [conv[r] EXCEPT !.status = status, !.pc = "returned", !.trace = None,
                            !.results = Append(conv[r].results, FALSE)]
    BY <1>1 DEF Convs
  <2> QED
    BY <1>1, <2>2, <2>3 DEF Convs
<1>3. conv' = [conv EXCEPT ![r] = c] /\ SaveRun(r, c, None)
  BY DEF AttemptEnds
<1> HIDE DEF c
<1>4. conv' \in [Run -> Convs] /\ conv'[r] = c /\ \A q \in Run : q # r => conv'[q] = conv[q]
  BY <1>2, <1>3, RunAfter
<1>5. /\ file' \in [Run -> RunFiles \cup {None}] /\ \A q \in Run : q # r => file'[q] = file[q]
      /\ file'[r] # None /\ file'[r].status = c.status /\ file'[r].attempts = Len(c.results)
  BY <1>2, <1>3, RunSaved
<1> QED
  BY <1>1, <1>2, <1>4, <1>5

LEMMA FileStaged ==
  ASSUME HTypes, NEW r \in Run, StageFile(r)
  PROVE /\ conv' \in [Run -> Convs] /\ \A q \in Run : q # r => conv'[q] = conv[q]
        /\ conv[r].pc = "stage" /\ conv'[r].pc = (IF written + 1 = CandidateAt THEN "record" ELSE "stage")
        /\ conv'[r].trace = conv[r].trace
        /\ conv'[r].results = conv[r].results /\ conv'[r].status = conv[r].status /\ conv'[r].asked = conv[r].asked
        /\ file' = file /\ staged' \in Staging /\ staged'[written + 1] = r
        /\ \A i \in 1..CandidateAt : i # written + 1 => staged'[i] = staged[i]
        /\ written' = IF written + 1 = CandidateAt THEN 0 ELSE written + 1
<1> DEFINE next == IF written + 1 = CandidateAt THEN "record" ELSE "stage"
<1>1. conv[r] \in Convs /\ conv[r].pc = "stage" /\ file' = file
  BY DEF StageFile, HTypes
<1>2. conv' = [conv EXCEPT ![r] = [conv[r] EXCEPT !.pc = next]] /\ staged' = [staged EXCEPT ![written + 1] = r]
      /\ written' = IF written + 1 = CandidateAt THEN 0 ELSE written + 1
  BY DEF StageFile
<1>3. next \in {"record", "stage"}
  OBVIOUS
<1> HIDE DEF next
<1>4. [conv[r] EXCEPT !.pc = next] \in Convs
  BY <1>1, <1>3 DEF Convs
<1>5. /\ conv' \in [Run -> Convs] /\ conv'[r] = [conv[r] EXCEPT !.pc = next]
      /\ \A q \in Run : q # r => conv'[q] = conv[q]
  BY <1>2, <1>4, RunAfter
<1>6. /\ conv'[r].pc = next /\ conv'[r].trace = conv[r].trace
      /\ conv'[r].results = conv[r].results /\ conv'[r].status = conv[r].status /\ conv'[r].asked = conv[r].asked
  BY <1>1, <1>5 DEF Convs
<1>7. written + 1 \in 1..CandidateAt
  BY DEF HTypes, CandidateAt
<1>8. /\ staged' \in Staging /\ staged'[written + 1] = r
      /\ \A i \in 1..CandidateAt : i # written + 1 => staged'[i] = staged[i]
  BY <1>2, <1>7 DEF HTypes, Staging
<1> QED
  BY <1>1, <1>2, <1>5, <1>6, <1>8 DEF next

LEMMA CandidateRecorded ==
  ASSUME HTypes, OnItsWay, NEW r \in Run, RecordCandidate(r)
  PROVE /\ conv' \in [Run -> Convs] /\ \A q \in Run : q # r => conv'[q] = conv[q]
        /\ conv[r].pc = "record" /\ conv'[r].pc = "returned" /\ conv'[r].trace = conv[r].trace
        /\ conv'[r].results = conv[r].results /\ conv'[r].status = conv[r].status /\ conv'[r].asked = conv[r].asked
        /\ file' \in [Run -> RunFiles \cup {None}] /\ \A q \in Run : q # r => file'[q] = file[q]
        /\ file'[r] # None /\ file'[r].status = conv'[r].status /\ file'[r].attempts = Len(conv'[r].results)
        /\ file'[r].candidate = r
<1>1. conv[r] \in Convs /\ conv[r].pc = "record"
  BY DEF RecordCandidate, HTypes
<1>2. conv' = [conv EXCEPT ![r] = [conv[r] EXCEPT !.pc = "returned"]] /\ SaveRun(r, conv[r], r)
  BY DEF RecordCandidate
<1>3. [conv[r] EXCEPT !.pc = "returned"] \in Convs
  BY <1>1 DEF Convs
<1>4. /\ conv' \in [Run -> Convs] /\ conv'[r] = [conv[r] EXCEPT !.pc = "returned"]
      /\ \A q \in Run : q # r => conv'[q] = conv[q]
  BY <1>2, <1>3, RunAfter
<1>5. /\ conv'[r].pc = "returned" /\ conv'[r].trace = conv[r].trace
      /\ conv'[r].results = conv[r].results /\ conv'[r].status = conv[r].status /\ conv'[r].asked = conv[r].asked
  BY <1>1, <1>4 DEF Convs
<1>6. conv[r].status = "converged"
  BY <1>1 DEF OnItsWay
<1>7. /\ file' \in [Run -> RunFiles \cup {None}] /\ \A q \in Run : q # r => file'[q] = file[q]
      /\ file'[r] # None /\ file'[r].status = conv[r].status /\ file'[r].attempts = Len(conv[r].results)
      /\ file'[r].candidate = r
  BY <1>1, <1>2, <1>6, RunSaved
<1> QED
  BY <1>1, <1>4, <1>5, <1>7

LEMMA RunsGone ==
  ASSUME HTypes, CutOff
  PROVE /\ conv' \in [Run -> Convs]
        /\ \A q \in Run : \/ conv'[q] = conv[q] /\ conv[q].pc \in {"idle", "returned"}
                          \/ /\ conv[q].pc \notin {"idle", "returned"} /\ conv'[q].pc = "gone"
                             /\ conv'[q].results = conv[q].results /\ conv'[q].status = conv[q].status
                             /\ conv'[q].asked = conv[q].asked /\ conv'[q].trace = conv[q].trace
        /\ file' = file
<1>1. file' = file /\ conv' = [r \in Run |-> IF conv[r].pc \in {"idle", "returned"} THEN conv[r]
                                             ELSE [conv[r] EXCEPT !.pc = "gone"]]
  BY DEF CutOff
<1>2. \A q \in Run : conv[q] \in Convs
  BY DEF HTypes
<1>3. \A q \in Run : conv'[q] = IF conv[q].pc \in {"idle", "returned"} THEN conv[q] ELSE [conv[q] EXCEPT !.pc = "gone"]
  BY <1>1
<1>4. ASSUME NEW q \in Run
      PROVE /\ conv'[q] \in Convs
            /\ \/ conv'[q] = conv[q] /\ conv[q].pc \in {"idle", "returned"}
               \/ /\ conv[q].pc \notin {"idle", "returned"} /\ conv'[q].pc = "gone"
                  /\ conv'[q].results = conv[q].results /\ conv'[q].status = conv[q].status
                  /\ conv'[q].asked = conv[q].asked /\ conv'[q].trace = conv[q].trace
  <2>1. [conv[q] EXCEPT !.pc = "gone"] \in Convs
    BY <1>2 DEF Convs
  <2>2. CASE conv[q].pc \in {"idle", "returned"}
    BY <1>2, <1>3, <2>2
  <2>3. CASE conv[q].pc \notin {"idle", "returned"}
    <3>1. conv'[q] = [conv[q] EXCEPT !.pc = "gone"]
      BY <1>3, <2>3
    <3> QED
      BY <1>2, <2>1, <2>3, <3>1 DEF Convs
  <2> QED
    BY <2>2, <2>3
<1>5. conv' = [q \in Run |-> conv'[q]]
  BY <1>1
<1> QED
  BY <1>1, <1>4, <1>5

LEMMA HTypesKept ==
  HTypes /\ OnItsWay /\ FromConverged /\ [HNext]_hvars => HTypes'
<1> SUFFICES ASSUME HTypes, OnItsWay, FromConverged, [HNext]_hvars PROVE HTypes'
  OBVIOUS
<1>1. ASSUME NEW r \in Run, NEW asked \in trial.asked, NEW mock \in trial.mocked, StartConvergence(r, asked, mock) PROVE HTypes'
  <2>1. /\ conv' \in [Run -> Convs] /\ \A q \in Run : q # r => conv'[q] = conv[q]
        /\ conv[r].pc = "idle" /\ conv'[r].pc = "attempt" /\ conv'[r].status = "running"
        /\ file' \in [Run -> RunFiles \cup {None}] /\ \A q \in Run : q # r => file'[q] = file[q]
        /\ file'[r] # None /\ file'[r].status = conv'[r].status /\ file'[r].attempts = Len(conv'[r].results)
    BY <1>1, ConvergenceStarted
  <2>2. trial' = trial
    BY <1>1 DEF StartConvergence
  <2>3. staged' \in Staging /\ written' \in 0..(CandidateAt - 1)
    BY <1>1 DEF StartConvergence, HTypes
  <2>4. check' \in [Checker -> DriftChecks]
    BY <1>1 DEF StartConvergence, HTypes
  <2>5. drift' \in DriftFiles \cup {None}
    BY <1>1 DEF StartConvergence, HTypes
  <2> QED
    BY <2>1, <2>2, <2>3, <2>4, <2>5 DEF HTypes
<1>2. ASSUME NEW r \in Run, NEW shown \in SUBSET Condition, RunAttempt(r, shown) PROVE HTypes'
  <2>1. /\ conv' \in [Run -> Convs] /\ \A q \in Run : q # r => conv'[q] = conv[q]
        /\ conv[r].pc = "attempt" /\ conv'[r].pc = "verify" /\ conv'[r].trace \in Traces
        /\ conv'[r].results = conv[r].results /\ conv'[r].status = conv[r].status /\ conv'[r].asked = conv[r].asked
        /\ file' = file
    BY <1>2, AttemptMade
  <2>2. trial' = trial
    BY <1>2 DEF RunAttempt
  <2>3. staged' \in Staging /\ written' \in 0..(CandidateAt - 1)
    BY <1>2 DEF RunAttempt, HTypes
  <2>4. check' \in [Checker -> DriftChecks]
    BY <1>2 DEF RunAttempt, HTypes
  <2>5. drift' \in DriftFiles \cup {None}
    BY <1>2 DEF RunAttempt, HTypes
  <2> QED
    BY <2>1, <2>2, <2>3, <2>4, <2>5 DEF HTypes
<1>3. ASSUME NEW r \in Run, NEW verdict \in Universal, Attempted(r, verdict) PROVE HTypes'
  <2>1. /\ conv' \in [Run -> Convs] /\ \A q \in Run : q # r => conv'[q] = conv[q]
        /\ conv[r].pc = "verify" /\ conv'[r].asked = conv[r].asked
        /\ conv'[r].results = Append(conv[r].results, verdict = "pass")
        /\ conv'[r].status = Verdict(conv'[r].results, conv[r].asked)
        /\ conv'[r].status = "converged" => conv'[r].trace = conv[r].trace /\ conv'[r].pc = "stage"
        /\ conv'[r].pc \in {"attempt", "returned", "stage"}
        /\ conv'[r].pc = "attempt" => conv'[r].status = "running"
        /\ conv'[r].pc = "returned" => conv'[r].status # "converged"
        /\ conv'[r].pc = "returned" /\ conv'[r].status = "running" => Len(conv'[r].results) >= LoopMax(conv[r].asked)
        /\ conv'[r].pc = "stage" => conv'[r].status = "converged"
        /\ file' \in [Run -> RunFiles \cup {None}] /\ \A q \in Run : q # r => file'[q] = file[q]
        /\ file'[r] # None /\ file'[r].status = conv'[r].status /\ file'[r].attempts = Len(conv'[r].results)
    BY <1>3, AttemptNoted
  <2>2. trial' = trial
    BY <1>3 DEF Attempted
  <2>3. staged' \in Staging /\ written' \in 0..(CandidateAt - 1)
    BY <1>3 DEF Attempted, HTypes
  <2>4. check' \in [Checker -> DriftChecks]
    BY <1>3 DEF Attempted, HTypes
  <2>5. drift' \in DriftFiles \cup {None}
    BY <1>3 DEF Attempted, HTypes
  <2> QED
    BY <2>1, <2>2, <2>3, <2>4, <2>5 DEF HTypes
<1>4. ASSUME NEW r \in Run, NEW status \in {"failed", "over_budget"}, AttemptEnds(r, status) PROVE HTypes'
  <2>1. /\ conv' \in [Run -> Convs] /\ \A q \in Run : q # r => conv'[q] = conv[q]
        /\ conv[r].pc \in {"attempt", "verify"} /\ conv'[r].pc = "returned"
        /\ conv'[r].status \in {"failed", "over_budget"}
        /\ file' \in [Run -> RunFiles \cup {None}] /\ \A q \in Run : q # r => file'[q] = file[q]
        /\ file'[r] # None /\ file'[r].status = conv'[r].status /\ file'[r].attempts = Len(conv'[r].results)
    BY <1>4, AttemptCut
  <2>2. trial' = trial
    BY <1>4 DEF AttemptEnds
  <2>3. staged' \in Staging /\ written' \in 0..(CandidateAt - 1)
    BY <1>4 DEF AttemptEnds, HTypes
  <2>4. check' \in [Checker -> DriftChecks]
    BY <1>4 DEF AttemptEnds, HTypes
  <2>5. drift' \in DriftFiles \cup {None}
    BY <1>4 DEF AttemptEnds, HTypes
  <2> QED
    BY <2>1, <2>2, <2>3, <2>4, <2>5 DEF HTypes
<1>5. ASSUME NEW r \in Run, StageFile(r) PROVE HTypes'
  <2>1. /\ conv' \in [Run -> Convs] /\ \A q \in Run : q # r => conv'[q] = conv[q]
        /\ conv[r].pc = "stage" /\ conv'[r].pc = (IF written + 1 = CandidateAt THEN "record" ELSE "stage")
        /\ conv'[r].trace = conv[r].trace
        /\ conv'[r].results = conv[r].results /\ conv'[r].status = conv[r].status /\ conv'[r].asked = conv[r].asked
        /\ file' = file /\ staged' \in Staging /\ staged'[written + 1] = r
        /\ \A i \in 1..CandidateAt : i # written + 1 => staged'[i] = staged[i]
        /\ written' = IF written + 1 = CandidateAt THEN 0 ELSE written + 1
    BY <1>5, FileStaged
  <2>2. trial' = trial
    BY <1>5 DEF StageFile
  <2>3. staged' \in Staging /\ written' \in 0..(CandidateAt - 1)
    BY <2>1 DEF HTypes, CandidateAt
  <2>4. check' \in [Checker -> DriftChecks]
    BY <1>5 DEF StageFile, HTypes
  <2>5. drift' \in DriftFiles \cup {None}
    BY <1>5 DEF StageFile, HTypes
  <2> QED
    BY <2>1, <2>2, <2>3, <2>4, <2>5 DEF HTypes
<1>6. ASSUME NEW k \in Checker, ReadInVain(k) PROVE HTypes'
  <2>1. UNCHANGED <<trial, conv, file, staged, written, check>>
    BY <1>6 DEF ReadInVain
  <2>2. drift' \in DriftFiles
    BY <1>6 DEF ReadInVain, HTypes, DriftFiles
  <2> QED
    BY <2>1, <2>2 DEF HTypes
<1>7. ASSUME NEW r \in Run, RecordCandidate(r) PROVE HTypes'
  <2>1. /\ conv' \in [Run -> Convs] /\ \A q \in Run : q # r => conv'[q] = conv[q]
        /\ conv[r].pc = "record" /\ conv'[r].pc = "returned" /\ conv'[r].trace = conv[r].trace
        /\ conv'[r].results = conv[r].results /\ conv'[r].status = conv[r].status /\ conv'[r].asked = conv[r].asked
        /\ file' \in [Run -> RunFiles \cup {None}] /\ \A q \in Run : q # r => file'[q] = file[q]
        /\ file'[r] # None /\ file'[r].status = conv'[r].status /\ file'[r].attempts = Len(conv'[r].results)
        /\ file'[r].candidate = r
    BY <1>7, CandidateRecorded
  <2>2. trial' = trial
    BY <1>7 DEF RecordCandidate
  <2>3. staged' \in Staging /\ written' \in 0..(CandidateAt - 1)
    BY <1>7 DEF RecordCandidate, HTypes
  <2>4. check' \in [Checker -> DriftChecks]
    BY <1>7 DEF RecordCandidate, HTypes
  <2>5. drift' \in DriftFiles \cup {None}
    BY <1>7 DEF RecordCandidate, HTypes
  <2> QED
    BY <2>1, <2>2, <2>3, <2>4, <2>5 DEF HTypes
<1>8. ASSUME NEW k \in Checker, ReadSkill(k) PROVE HTypes'
  <2>1. conv' = conv /\ file' = file
    BY <1>8 DEF ReadSkill
  <2>2. trial' = trial
    BY <1>8 DEF ReadSkill
  <2>3. staged' \in Staging /\ written' \in 0..(CandidateAt - 1)
    BY <1>8 DEF ReadSkill, HTypes
  <2>4. check' \in [Checker -> DriftChecks]
    BY <1>8 DEF ReadSkill, HTypes, DriftChecks
  <2>5. drift' \in DriftFiles \cup {None}
    BY <1>8 DEF ReadSkill, HTypes
  <2> QED
    BY <2>1, <2>2, <2>3, <2>4, <2>5 DEF HTypes
<1>9. ASSUME NEW k \in Checker, NEW verdict \in Universal, WriteDrift(k, verdict) PROVE HTypes'
  <2>1. conv' = conv /\ file' = file
    BY <1>9 DEF WriteDrift
  <2>2. trial' = trial
    BY <1>9 DEF WriteDrift
  <2>3. staged' \in Staging /\ written' \in 0..(CandidateAt - 1)
    BY <1>9 DEF WriteDrift, HTypes
  <2>4. check' \in [Checker -> DriftChecks]
    <3>1. Unchecked \in DriftChecks
      BY DEF Unchecked, Unstaged, DriftChecks, Staging
    <3> QED
      BY <1>9, <3>1 DEF WriteDrift, HTypes
  <2>5. drift' \in DriftFiles \cup {None}
    <3>1. check[k].files \in Staging
      BY DEF HTypes, DriftChecks
    <3>2. DriftStatus(check[k].files, verdict) \in {"healthy", "unverified", "degraded"}
      BY DEF DriftStatus
    <3> QED
      BY <1>9, <3>1, <3>2 DEF WriteDrift, DriftFiles
  <2> QED
    BY <2>1, <2>2, <2>3, <2>4, <2>5 DEF HTypes
<1>10. CASE CutOff
  <2>1. /\ conv' \in [Run -> Convs]
        /\ \A q \in Run : \/ conv'[q] = conv[q] /\ conv[q].pc \in {"idle", "returned"}
                          \/ /\ conv[q].pc \notin {"idle", "returned"} /\ conv'[q].pc = "gone"
                             /\ conv'[q].results = conv[q].results /\ conv'[q].status = conv[q].status
                             /\ conv'[q].asked = conv[q].asked /\ conv'[q].trace = conv[q].trace
        /\ file' = file
    BY <1>10, RunsGone
  <2>2. trial' = trial
    BY <1>10 DEF CutOff
  <2>3. staged' \in Staging /\ written' \in 0..(CandidateAt - 1)
    BY <1>10 DEF CutOff, HTypes, Staging, CandidateAt
  <2>4. check' \in [Checker -> DriftChecks]
    <3>1. Unchecked \in DriftChecks
      BY DEF Unchecked, Unstaged, DriftChecks, Staging
    <3> QED
      BY <1>10, <3>1 DEF CutOff, HTypes
  <2>5. drift' \in DriftFiles \cup {None}
    BY <1>10 DEF CutOff, HTypes
  <2> QED
    BY <2>1, <2>2, <2>3, <2>4, <2>5 DEF HTypes
<1>11. CASE UNCHANGED hvars
  BY <1>11 DEF hvars, HTypes
<1> QED
  BY <1>1, <1>2, <1>3, <1>4, <1>5, <1>6, <1>7, <1>8, <1>9, <1>10, <1>11
  DEF HNext

LEMMA FileAgreesKept ==
  HTypes /\ OnItsWay /\ FileAgrees /\ [HNext]_hvars => FileAgrees'
<1> SUFFICES ASSUME HTypes, OnItsWay, FileAgrees, [HNext]_hvars PROVE FileAgrees'
  OBVIOUS
<1>1. ASSUME NEW r \in Run, NEW asked \in trial.asked, NEW mock \in trial.mocked, StartConvergence(r, asked, mock) PROVE FileAgrees'
  <2>1. /\ conv' \in [Run -> Convs] /\ \A q \in Run : q # r => conv'[q] = conv[q]
        /\ conv[r].pc = "idle" /\ conv'[r].pc = "attempt" /\ conv'[r].status = "running"
        /\ file' \in [Run -> RunFiles \cup {None}] /\ \A q \in Run : q # r => file'[q] = file[q]
        /\ file'[r] # None /\ file'[r].status = conv'[r].status /\ file'[r].attempts = Len(conv'[r].results)
    BY <1>1, ConvergenceStarted
  <2> QED
    BY <2>1 DEF FileAgrees
<1>2. ASSUME NEW r \in Run, NEW shown \in SUBSET Condition, RunAttempt(r, shown) PROVE FileAgrees'
  <2>1. /\ conv' \in [Run -> Convs] /\ \A q \in Run : q # r => conv'[q] = conv[q]
        /\ conv[r].pc = "attempt" /\ conv'[r].pc = "verify" /\ conv'[r].trace \in Traces
        /\ conv'[r].results = conv[r].results /\ conv'[r].status = conv[r].status /\ conv'[r].asked = conv[r].asked
        /\ file' = file
    BY <1>2, AttemptMade
  <2> QED
    BY <2>1 DEF FileAgrees
<1>3. ASSUME NEW r \in Run, NEW verdict \in Universal, Attempted(r, verdict) PROVE FileAgrees'
  <2>1. /\ conv' \in [Run -> Convs] /\ \A q \in Run : q # r => conv'[q] = conv[q]
        /\ conv[r].pc = "verify" /\ conv'[r].asked = conv[r].asked
        /\ conv'[r].results = Append(conv[r].results, verdict = "pass")
        /\ conv'[r].status = Verdict(conv'[r].results, conv[r].asked)
        /\ conv'[r].status = "converged" => conv'[r].trace = conv[r].trace /\ conv'[r].pc = "stage"
        /\ conv'[r].pc \in {"attempt", "returned", "stage"}
        /\ conv'[r].pc = "attempt" => conv'[r].status = "running"
        /\ conv'[r].pc = "returned" => conv'[r].status # "converged"
        /\ conv'[r].pc = "returned" /\ conv'[r].status = "running" => Len(conv'[r].results) >= LoopMax(conv[r].asked)
        /\ conv'[r].pc = "stage" => conv'[r].status = "converged"
        /\ file' \in [Run -> RunFiles \cup {None}] /\ \A q \in Run : q # r => file'[q] = file[q]
        /\ file'[r] # None /\ file'[r].status = conv'[r].status /\ file'[r].attempts = Len(conv'[r].results)
    BY <1>3, AttemptNoted
  <2> QED
    BY <2>1 DEF FileAgrees
<1>4. ASSUME NEW r \in Run, NEW status \in {"failed", "over_budget"}, AttemptEnds(r, status) PROVE FileAgrees'
  <2>1. /\ conv' \in [Run -> Convs] /\ \A q \in Run : q # r => conv'[q] = conv[q]
        /\ conv[r].pc \in {"attempt", "verify"} /\ conv'[r].pc = "returned"
        /\ conv'[r].status \in {"failed", "over_budget"}
        /\ file' \in [Run -> RunFiles \cup {None}] /\ \A q \in Run : q # r => file'[q] = file[q]
        /\ file'[r] # None /\ file'[r].status = conv'[r].status /\ file'[r].attempts = Len(conv'[r].results)
    BY <1>4, AttemptCut
  <2> QED
    BY <2>1 DEF FileAgrees
<1>5. ASSUME NEW r \in Run, StageFile(r) PROVE FileAgrees'
  <2>1. /\ conv' \in [Run -> Convs] /\ \A q \in Run : q # r => conv'[q] = conv[q]
        /\ conv[r].pc = "stage" /\ conv'[r].pc = (IF written + 1 = CandidateAt THEN "record" ELSE "stage")
        /\ conv'[r].trace = conv[r].trace
        /\ conv'[r].results = conv[r].results /\ conv'[r].status = conv[r].status /\ conv'[r].asked = conv[r].asked
        /\ file' = file /\ staged' \in Staging /\ staged'[written + 1] = r
        /\ \A i \in 1..CandidateAt : i # written + 1 => staged'[i] = staged[i]
        /\ written' = IF written + 1 = CandidateAt THEN 0 ELSE written + 1
    BY <1>5, FileStaged
  <2> QED
    BY <2>1 DEF FileAgrees
<1>6. ASSUME NEW k \in Checker, ReadInVain(k) PROVE FileAgrees'
  BY <1>6 DEF ReadInVain, FileAgrees
<1>7. ASSUME NEW r \in Run, RecordCandidate(r) PROVE FileAgrees'
  <2>1. /\ conv' \in [Run -> Convs] /\ \A q \in Run : q # r => conv'[q] = conv[q]
        /\ conv[r].pc = "record" /\ conv'[r].pc = "returned" /\ conv'[r].trace = conv[r].trace
        /\ conv'[r].results = conv[r].results /\ conv'[r].status = conv[r].status /\ conv'[r].asked = conv[r].asked
        /\ file' \in [Run -> RunFiles \cup {None}] /\ \A q \in Run : q # r => file'[q] = file[q]
        /\ file'[r] # None /\ file'[r].status = conv'[r].status /\ file'[r].attempts = Len(conv'[r].results)
        /\ file'[r].candidate = r
    BY <1>7, CandidateRecorded
  <2> QED
    BY <2>1 DEF FileAgrees
<1>8. ASSUME NEW k \in Checker, ReadSkill(k) PROVE FileAgrees'
  <2>1. conv' = conv /\ file' = file
    BY <1>8 DEF ReadSkill
  <2> QED
    BY <2>1 DEF FileAgrees
<1>9. ASSUME NEW k \in Checker, NEW verdict \in Universal, WriteDrift(k, verdict) PROVE FileAgrees'
  <2>1. conv' = conv /\ file' = file
    BY <1>9 DEF WriteDrift
  <2> QED
    BY <2>1 DEF FileAgrees
<1>10. CASE CutOff
  <2>1. /\ conv' \in [Run -> Convs]
        /\ \A q \in Run : \/ conv'[q] = conv[q] /\ conv[q].pc \in {"idle", "returned"}
                          \/ /\ conv[q].pc \notin {"idle", "returned"} /\ conv'[q].pc = "gone"
                             /\ conv'[q].results = conv[q].results /\ conv'[q].status = conv[q].status
                             /\ conv'[q].asked = conv[q].asked /\ conv'[q].trace = conv[q].trace
        /\ file' = file
    BY <1>10, RunsGone
  <2> QED
    BY <2>1 DEF FileAgrees
<1>11. CASE UNCHANGED hvars
  BY <1>11 DEF hvars, FileAgrees
<1> QED
  BY <1>1, <1>2, <1>3, <1>4, <1>5, <1>6, <1>7, <1>8, <1>9, <1>10, <1>11
  DEF HNext

LEMMA OnItsWayKept ==
  HTypes /\ OnItsWay /\ [HNext]_hvars => OnItsWay'
<1> SUFFICES ASSUME HTypes, OnItsWay, [HNext]_hvars PROVE OnItsWay'
  OBVIOUS
<1>1. ASSUME NEW r \in Run, NEW asked \in trial.asked, NEW mock \in trial.mocked, StartConvergence(r, asked, mock) PROVE OnItsWay'
  <2>1. /\ conv' \in [Run -> Convs] /\ \A q \in Run : q # r => conv'[q] = conv[q]
        /\ conv[r].pc = "idle" /\ conv'[r].pc = "attempt" /\ conv'[r].status = "running"
        /\ file' \in [Run -> RunFiles \cup {None}] /\ \A q \in Run : q # r => file'[q] = file[q]
        /\ file'[r] # None /\ file'[r].status = conv'[r].status /\ file'[r].attempts = Len(conv'[r].results)
    BY <1>1, ConvergenceStarted
  <2>2. trial' = trial
    BY <1>1 DEF StartConvergence
  <2> QED
    BY <2>1, <2>2 DEF OnItsWay, DetectorMax
<1>2. ASSUME NEW r \in Run, NEW shown \in SUBSET Condition, RunAttempt(r, shown) PROVE OnItsWay'
  <2>1. /\ conv' \in [Run -> Convs] /\ \A q \in Run : q # r => conv'[q] = conv[q]
        /\ conv[r].pc = "attempt" /\ conv'[r].pc = "verify" /\ conv'[r].trace \in Traces
        /\ conv'[r].results = conv[r].results /\ conv'[r].status = conv[r].status /\ conv'[r].asked = conv[r].asked
        /\ file' = file
    BY <1>2, AttemptMade
  <2>2. trial' = trial
    BY <1>2 DEF RunAttempt
  <2>4. conv'[r].trace # None
    BY <2>1, HarnessAssumption DEF Traces
  <2> QED
    BY <2>1, <2>2, <2>4 DEF OnItsWay, DetectorMax
<1>3. ASSUME NEW r \in Run, NEW verdict \in Universal, Attempted(r, verdict) PROVE OnItsWay'
  <2>1. /\ conv' \in [Run -> Convs] /\ \A q \in Run : q # r => conv'[q] = conv[q]
        /\ conv[r].pc = "verify" /\ conv'[r].asked = conv[r].asked
        /\ conv'[r].results = Append(conv[r].results, verdict = "pass")
        /\ conv'[r].status = Verdict(conv'[r].results, conv[r].asked)
        /\ conv'[r].status = "converged" => conv'[r].trace = conv[r].trace /\ conv'[r].pc = "stage"
        /\ conv'[r].pc \in {"attempt", "returned", "stage"}
        /\ conv'[r].pc = "attempt" => conv'[r].status = "running"
        /\ conv'[r].pc = "returned" => conv'[r].status # "converged"
        /\ conv'[r].pc = "returned" /\ conv'[r].status = "running" => Len(conv'[r].results) >= LoopMax(conv[r].asked)
        /\ conv'[r].pc = "stage" => conv'[r].status = "converged"
        /\ file' \in [Run -> RunFiles \cup {None}] /\ \A q \in Run : q # r => file'[q] = file[q]
        /\ file'[r] # None /\ file'[r].status = conv'[r].status /\ file'[r].attempts = Len(conv'[r].results)
    BY <1>3, AttemptNoted
  <2>2. trial' = trial
    BY <1>3 DEF Attempted
  <2>4. conv'[r].pc = "returned" /\ conv'[r].status = "running" => DetectorMax(conv[r].asked) > trial.budget
    <3>1. conv[r].asked \in Nat \cup {None} /\ Len(conv'[r].results) \in Nat
      BY <2>1 DEF HTypes, Convs
    <3>2. /\ trial.budget \in Nat /\ DetectorMax(conv[r].asked) \in Nat
          /\ LoopMax(conv[r].asked) \in {DetectorMax(conv[r].asked), trial.budget}
      BY <3>1, Limits DEF HTypes
    <3>3. conv'[r].status = "running" => ~(Len(conv'[r].results) >= DetectorMax(conv[r].asked))
      BY <2>1 DEF Verdict
    <3> QED
      BY <2>1, <3>1, <3>2, <3>3
  <2> QED
    BY <2>1, <2>2, <2>4 DEF OnItsWay, DetectorMax
<1>4. ASSUME NEW r \in Run, NEW status \in {"failed", "over_budget"}, AttemptEnds(r, status) PROVE OnItsWay'
  <2>1. /\ conv' \in [Run -> Convs] /\ \A q \in Run : q # r => conv'[q] = conv[q]
        /\ conv[r].pc \in {"attempt", "verify"} /\ conv'[r].pc = "returned"
        /\ conv'[r].status \in {"failed", "over_budget"}
        /\ file' \in [Run -> RunFiles \cup {None}] /\ \A q \in Run : q # r => file'[q] = file[q]
        /\ file'[r] # None /\ file'[r].status = conv'[r].status /\ file'[r].attempts = Len(conv'[r].results)
    BY <1>4, AttemptCut
  <2>2. trial' = trial
    BY <1>4 DEF AttemptEnds
  <2> QED
    BY <2>1, <2>2 DEF OnItsWay, DetectorMax
<1>5. ASSUME NEW r \in Run, StageFile(r) PROVE OnItsWay'
  <2>1. /\ conv' \in [Run -> Convs] /\ \A q \in Run : q # r => conv'[q] = conv[q]
        /\ conv[r].pc = "stage" /\ conv'[r].pc = (IF written + 1 = CandidateAt THEN "record" ELSE "stage")
        /\ conv'[r].trace = conv[r].trace
        /\ conv'[r].results = conv[r].results /\ conv'[r].status = conv[r].status /\ conv'[r].asked = conv[r].asked
        /\ file' = file /\ staged' \in Staging /\ staged'[written + 1] = r
        /\ \A i \in 1..CandidateAt : i # written + 1 => staged'[i] = staged[i]
        /\ written' = IF written + 1 = CandidateAt THEN 0 ELSE written + 1
    BY <1>5, FileStaged
  <2>2. trial' = trial
    BY <1>5 DEF StageFile
  <2> QED
    BY <2>1, <2>2 DEF OnItsWay, DetectorMax
<1>6. ASSUME NEW k \in Checker, ReadInVain(k) PROVE OnItsWay'
  BY <1>6 DEF ReadInVain, OnItsWay, DetectorMax
<1>7. ASSUME NEW r \in Run, RecordCandidate(r) PROVE OnItsWay'
  <2>1. /\ conv' \in [Run -> Convs] /\ \A q \in Run : q # r => conv'[q] = conv[q]
        /\ conv[r].pc = "record" /\ conv'[r].pc = "returned" /\ conv'[r].trace = conv[r].trace
        /\ conv'[r].results = conv[r].results /\ conv'[r].status = conv[r].status /\ conv'[r].asked = conv[r].asked
        /\ file' \in [Run -> RunFiles \cup {None}] /\ \A q \in Run : q # r => file'[q] = file[q]
        /\ file'[r] # None /\ file'[r].status = conv'[r].status /\ file'[r].attempts = Len(conv'[r].results)
        /\ file'[r].candidate = r
    BY <1>7, CandidateRecorded
  <2>2. trial' = trial
    BY <1>7 DEF RecordCandidate
  <2> QED
    BY <2>1, <2>2, HarnessAssumption DEF OnItsWay, DetectorMax
<1>8. ASSUME NEW k \in Checker, ReadSkill(k) PROVE OnItsWay'
  <2>1. conv' = conv /\ file' = file
    BY <1>8 DEF ReadSkill
  <2>2. trial' = trial
    BY <1>8 DEF ReadSkill
  <2> QED
    BY <2>1, <2>2 DEF OnItsWay, DetectorMax
<1>9. ASSUME NEW k \in Checker, NEW verdict \in Universal, WriteDrift(k, verdict) PROVE OnItsWay'
  <2>1. conv' = conv /\ file' = file
    BY <1>9 DEF WriteDrift
  <2>2. trial' = trial
    BY <1>9 DEF WriteDrift
  <2> QED
    BY <2>1, <2>2 DEF OnItsWay, DetectorMax
<1>10. CASE CutOff
  <2>1. /\ conv' \in [Run -> Convs]
        /\ \A q \in Run : \/ conv'[q] = conv[q] /\ conv[q].pc \in {"idle", "returned"}
                          \/ /\ conv[q].pc \notin {"idle", "returned"} /\ conv'[q].pc = "gone"
                             /\ conv'[q].results = conv[q].results /\ conv'[q].status = conv[q].status
                             /\ conv'[q].asked = conv[q].asked /\ conv'[q].trace = conv[q].trace
        /\ file' = file
    BY <1>10, RunsGone
  <2>2. trial' = trial
    BY <1>10 DEF CutOff
  <2> QED
    BY <2>1, <2>2 DEF OnItsWay, DetectorMax
<1>11. CASE UNCHANGED hvars
  BY <1>11 DEF hvars, OnItsWay, DetectorMax
<1> QED
  BY <1>1, <1>2, <1>3, <1>4, <1>5, <1>6, <1>7, <1>8, <1>9, <1>10, <1>11
  DEF HNext

\* What converged stays earned; so do other runs than one that moves.
LEMMA StaysEarned ==
  ASSUME Earned, trial' = trial,
         \A q \in Converged' : /\ q \in Converged
                               /\ conv'[q].results = conv[q].results /\ conv'[q].trace = conv[q].trace
  PROVE Earned'
<1> SUFFICES ASSUME NEW q \in Converged'
             PROVE /\ Len(conv'[q].results) >= Required'
                   /\ \A i \in (Len(conv'[q].results) - Required' + 1)..Len(conv'[q].results) : conv'[q].results[i]
                   /\ conv'[q].trace # None /\ Fulfils(conv[q].trace)'
  BY DEF Earned
<1>1. Required' = Required
  BY DEF Required
<1>2. Fulfils(conv[q].trace)' <=> Fulfils(conv[q].trace)
  BY DEF Fulfils
<1>3. /\ Len(conv[q].results) >= Required
      /\ \A i \in (Len(conv[q].results) - Required + 1)..Len(conv[q].results) : conv[q].results[i]
      /\ conv[q].trace # None /\ Fulfils(conv[q].trace)
  BY DEF Earned
<1> QED
  BY <1>1, <1>2, <1>3, Zenon

LEMMA OthersEarned ==
  ASSUME Earned, trial' = trial, NEW r \in Run, \A q \in Run : q # r => conv'[q] = conv[q],
         r \in Converged' =>
           /\ Len(conv'[r].results) >= Required'
           /\ \A i \in (Len(conv'[r].results) - Required' + 1)..Len(conv'[r].results) : conv'[r].results[i]
           /\ conv'[r].trace # None /\ Fulfils(conv[r].trace)'
  PROVE Earned'
<1> SUFFICES ASSUME NEW q \in Converged', q # r
             PROVE /\ Len(conv'[q].results) >= Required'
                   /\ \A i \in (Len(conv'[q].results) - Required' + 1)..Len(conv'[q].results) : conv'[q].results[i]
                   /\ conv'[q].trace # None /\ Fulfils(conv[q].trace)'
  BY DEF Earned
<1>1. Required' = Required
  BY DEF Required
<1>2. conv'[q] = conv[q] /\ q \in Converged
  BY DEF Converged
<1>3. Fulfils(conv[q].trace)' <=> Fulfils(conv[q].trace)
  BY <1>2 DEF Fulfils
<1>4. /\ Len(conv[q].results) >= Required
      /\ \A i \in (Len(conv[q].results) - Required + 1)..Len(conv[q].results) : conv[q].results[i]
      /\ conv[q].trace # None /\ Fulfils(conv[q].trace)
  BY <1>2 DEF Earned
<1> QED
  BY <1>1, <1>2, <1>3, <1>4, Zenon

LEMMA EarnedKept ==
  HTypes /\ OnItsWay /\ Earned /\ [HNext]_hvars => Earned'
<1> SUFFICES ASSUME HTypes, OnItsWay, Earned, [HNext]_hvars PROVE Earned'
  OBVIOUS
<1>1. ASSUME NEW r \in Run, NEW asked \in trial.asked, NEW mock \in trial.mocked, StartConvergence(r, asked, mock) PROVE Earned'
  <2>1. /\ conv' \in [Run -> Convs] /\ \A q \in Run : q # r => conv'[q] = conv[q]
        /\ conv[r].pc = "idle" /\ conv'[r].pc = "attempt" /\ conv'[r].status = "running"
        /\ file' \in [Run -> RunFiles \cup {None}] /\ \A q \in Run : q # r => file'[q] = file[q]
        /\ file'[r] # None /\ file'[r].status = conv'[r].status /\ file'[r].attempts = Len(conv'[r].results)
    BY <1>1, ConvergenceStarted
  <2>2. trial' = trial
    BY <1>1 DEF StartConvergence
  <2>3. r \notin Converged'
    BY <2>1 DEF Converged, OnItsWay
  <2>4. \A q \in Converged' : /\ q \in Converged
                              /\ conv'[q].results = conv[q].results /\ conv'[q].trace = conv[q].trace
    BY <2>1, <2>3 DEF Converged
  <2> QED
    BY <2>2, <2>4, StaysEarned
<1>2. ASSUME NEW r \in Run, NEW shown \in SUBSET Condition, RunAttempt(r, shown) PROVE Earned'
  <2>1. /\ conv' \in [Run -> Convs] /\ \A q \in Run : q # r => conv'[q] = conv[q]
        /\ conv[r].pc = "attempt" /\ conv'[r].pc = "verify" /\ conv'[r].trace \in Traces
        /\ conv'[r].results = conv[r].results /\ conv'[r].status = conv[r].status /\ conv'[r].asked = conv[r].asked
        /\ file' = file
    BY <1>2, AttemptMade
  <2>2. trial' = trial
    BY <1>2 DEF RunAttempt
  <2>3. r \notin Converged'
    BY <2>1 DEF Converged, OnItsWay
  <2>4. \A q \in Converged' : /\ q \in Converged
                              /\ conv'[q].results = conv[q].results /\ conv'[q].trace = conv[q].trace
    BY <2>1, <2>3 DEF Converged
  <2> QED
    BY <2>2, <2>4, StaysEarned
<1>3. ASSUME NEW r \in Run, NEW verdict \in Universal, Attempted(r, verdict) PROVE Earned'
  <2>1. /\ conv' \in [Run -> Convs] /\ \A q \in Run : q # r => conv'[q] = conv[q]
        /\ conv[r].pc = "verify" /\ conv'[r].asked = conv[r].asked
        /\ conv'[r].results = Append(conv[r].results, verdict = "pass")
        /\ conv'[r].status = Verdict(conv'[r].results, conv[r].asked)
        /\ conv'[r].status = "converged" => conv'[r].trace = conv[r].trace /\ conv'[r].pc = "stage"
        /\ conv'[r].pc \in {"attempt", "returned", "stage"}
        /\ conv'[r].pc = "attempt" => conv'[r].status = "running"
        /\ conv'[r].pc = "returned" => conv'[r].status # "converged"
        /\ conv'[r].pc = "returned" /\ conv'[r].status = "running" => Len(conv'[r].results) >= LoopMax(conv[r].asked)
        /\ conv'[r].pc = "stage" => conv'[r].status = "converged"
        /\ file' \in [Run -> RunFiles \cup {None}] /\ \A q \in Run : q # r => file'[q] = file[q]
        /\ file'[r] # None /\ file'[r].status = conv'[r].status /\ file'[r].attempts = Len(conv'[r].results)
    BY <1>3, AttemptNoted
  <2>2. trial' = trial
    BY <1>3 DEF Attempted
  <2>3. CASE r \in Converged'
    <3>1. conv'[r].status = "converged" /\ conv'[r].results \in Seq(BOOLEAN) /\ conv[r].results \in Seq(BOOLEAN)
      BY <2>1, <2>3 DEF Converged, HTypes, Convs
    <3>2. Required \in Nat \ {0}
      BY Limits DEF HTypes
    <3>3. InARow(conv'[r].results) >= Required
      BY <2>1, <3>1 DEF Verdict
    <3>4. /\ Len(conv'[r].results) >= Required
          /\ \A i \in (Len(conv'[r].results) - Required + 1)..Len(conv'[r].results) : conv'[r].results[i]
      BY <3>1, <3>2, <3>3, LastPassed
    <3>5. verdict = "pass"
      <4>1. Len(conv'[r].results) = Len(conv[r].results) + 1 /\ Len(conv[r].results) \in Nat
        BY <2>1, <3>1
      <4>2. conv'[r].results[Len(conv[r].results) + 1]
        <5>1. Len(conv[r].results) + 1 \in (Len(conv'[r].results) - Required + 1)..Len(conv'[r].results)
          BY <3>2, <4>1
        <5> QED
          BY <3>4, <5>1, Zenon
      <4>3. conv'[r].results[Len(conv[r].results) + 1] = (verdict = "pass")
        BY <2>1, <3>1
      <4> QED
        BY <4>2, <4>3, Zenon
    <3>6. conv'[r].trace = conv[r].trace /\ conv[r].trace \in Traces
      BY <2>1, <3>1 DEF OnItsWay, HTypes, Convs
    <3>7. Fulfils(conv[r].trace)
      BY <1>3, <3>5, <3>6, PassFulfils DEF Attempted, HTypes
    <3>8. Len(conv'[r].results) >= Required'
      BY <2>2, <3>4 DEF Required
    <3>9. \A i \in (Len(conv'[r].results) - Required' + 1)..Len(conv'[r].results) : conv'[r].results[i]
      BY <2>2, <3>4, Zenon DEF Required
    <3>10. conv'[r].trace # None /\ Fulfils(conv[r].trace)'
      BY <2>1, <2>2, <3>1, <3>6, <3>7 DEF Fulfils, OnItsWay
    <3> QED
      BY <2>1, <2>2, <3>8, <3>9, <3>10, OthersEarned
  <2>4. CASE r \notin Converged'
    BY <2>1, <2>2, <2>4, OthersEarned
  <2> QED
    BY <2>3, <2>4
<1>4. ASSUME NEW r \in Run, NEW status \in {"failed", "over_budget"}, AttemptEnds(r, status) PROVE Earned'
  <2>1. /\ conv' \in [Run -> Convs] /\ \A q \in Run : q # r => conv'[q] = conv[q]
        /\ conv[r].pc \in {"attempt", "verify"} /\ conv'[r].pc = "returned"
        /\ conv'[r].status \in {"failed", "over_budget"}
        /\ file' \in [Run -> RunFiles \cup {None}] /\ \A q \in Run : q # r => file'[q] = file[q]
        /\ file'[r] # None /\ file'[r].status = conv'[r].status /\ file'[r].attempts = Len(conv'[r].results)
    BY <1>4, AttemptCut
  <2>2. trial' = trial
    BY <1>4 DEF AttemptEnds
  <2>3. r \notin Converged'
    BY <2>1 DEF Converged, OnItsWay
  <2>4. \A q \in Converged' : /\ q \in Converged
                              /\ conv'[q].results = conv[q].results /\ conv'[q].trace = conv[q].trace
    BY <2>1, <2>3 DEF Converged
  <2> QED
    BY <2>2, <2>4, StaysEarned
<1>5. ASSUME NEW r \in Run, StageFile(r) PROVE Earned'
  <2>1. /\ conv' \in [Run -> Convs] /\ \A q \in Run : q # r => conv'[q] = conv[q]
        /\ conv[r].pc = "stage" /\ conv'[r].pc = (IF written + 1 = CandidateAt THEN "record" ELSE "stage")
        /\ conv'[r].trace = conv[r].trace
        /\ conv'[r].results = conv[r].results /\ conv'[r].status = conv[r].status /\ conv'[r].asked = conv[r].asked
        /\ file' = file /\ staged' \in Staging /\ staged'[written + 1] = r
        /\ \A i \in 1..CandidateAt : i # written + 1 => staged'[i] = staged[i]
        /\ written' = IF written + 1 = CandidateAt THEN 0 ELSE written + 1
    BY <1>5, FileStaged
  <2>2. trial' = trial
    BY <1>5 DEF StageFile
  <2>3. \A q \in Converged' : /\ q \in Converged
                              /\ conv'[q].results = conv[q].results /\ conv'[q].trace = conv[q].trace
    BY <2>1 DEF Converged
  <2> QED
    BY <2>2, <2>3, StaysEarned
<1>6. ASSUME NEW k \in Checker, ReadInVain(k) PROVE Earned'
  <2>1. trial' = trial /\ conv' = conv
    BY <1>6 DEF ReadInVain
  <2> QED
    BY <2>1, StaysEarned DEF Converged
<1>7. ASSUME NEW r \in Run, RecordCandidate(r) PROVE Earned'
  <2>1. /\ conv' \in [Run -> Convs] /\ \A q \in Run : q # r => conv'[q] = conv[q]
        /\ conv[r].pc = "record" /\ conv'[r].pc = "returned" /\ conv'[r].trace = conv[r].trace
        /\ conv'[r].results = conv[r].results /\ conv'[r].status = conv[r].status /\ conv'[r].asked = conv[r].asked
        /\ file' \in [Run -> RunFiles \cup {None}] /\ \A q \in Run : q # r => file'[q] = file[q]
        /\ file'[r] # None /\ file'[r].status = conv'[r].status /\ file'[r].attempts = Len(conv'[r].results)
        /\ file'[r].candidate = r
    BY <1>7, CandidateRecorded
  <2>2. trial' = trial
    BY <1>7 DEF RecordCandidate
  <2>3. \A q \in Converged' : /\ q \in Converged
                              /\ conv'[q].results = conv[q].results /\ conv'[q].trace = conv[q].trace
    BY <2>1 DEF Converged
  <2> QED
    BY <2>2, <2>3, StaysEarned
<1>8. ASSUME NEW k \in Checker, ReadSkill(k) PROVE Earned'
  <2>1. conv' = conv /\ file' = file
    BY <1>8 DEF ReadSkill
  <2>2. trial' = trial
    BY <1>8 DEF ReadSkill
  <2>3. \A q \in Converged' : /\ q \in Converged
                              /\ conv'[q].results = conv[q].results /\ conv'[q].trace = conv[q].trace
    BY <2>1 DEF Converged
  <2> QED
    BY <2>2, <2>3, StaysEarned
<1>9. ASSUME NEW k \in Checker, NEW verdict \in Universal, WriteDrift(k, verdict) PROVE Earned'
  <2>1. conv' = conv /\ file' = file
    BY <1>9 DEF WriteDrift
  <2>2. trial' = trial
    BY <1>9 DEF WriteDrift
  <2>3. \A q \in Converged' : /\ q \in Converged
                              /\ conv'[q].results = conv[q].results /\ conv'[q].trace = conv[q].trace
    BY <2>1 DEF Converged
  <2> QED
    BY <2>2, <2>3, StaysEarned
<1>10. CASE CutOff
  <2>1. /\ conv' \in [Run -> Convs]
        /\ \A q \in Run : \/ conv'[q] = conv[q] /\ conv[q].pc \in {"idle", "returned"}
                          \/ /\ conv[q].pc \notin {"idle", "returned"} /\ conv'[q].pc = "gone"
                             /\ conv'[q].results = conv[q].results /\ conv'[q].status = conv[q].status
                             /\ conv'[q].asked = conv[q].asked /\ conv'[q].trace = conv[q].trace
        /\ file' = file
    BY <1>10, RunsGone
  <2>2. trial' = trial
    BY <1>10 DEF CutOff
  <2>3. \A q \in Converged' : /\ q \in Converged
                              /\ conv'[q].results = conv[q].results /\ conv'[q].trace = conv[q].trace
    BY <2>1 DEF Converged
  <2> QED
    BY <2>2, <2>3, StaysEarned
<1>11. CASE UNCHANGED hvars
  <2>1. trial' = trial /\ conv' = conv
    BY <1>11 DEF hvars
  <2> QED
    BY <2>1, StaysEarned DEF Converged
<1> QED
  BY <1>1, <1>2, <1>3, <1>4, <1>5, <1>6, <1>7, <1>8, <1>9, <1>10, <1>11
  DEF HNext

LEMMA FromConvergedKept ==
  HTypes /\ OnItsWay /\ FromConverged /\ [HNext]_hvars => FromConverged'
<1> SUFFICES ASSUME HTypes, OnItsWay, FromConverged, [HNext]_hvars PROVE FromConverged'
  OBVIOUS
<1>1. ASSUME NEW r \in Run, NEW asked \in trial.asked, NEW mock \in trial.mocked, StartConvergence(r, asked, mock) PROVE FromConverged'
  <2>1. /\ conv' \in [Run -> Convs] /\ \A q \in Run : q # r => conv'[q] = conv[q]
        /\ conv[r].pc = "idle" /\ conv'[r].pc = "attempt" /\ conv'[r].status = "running"
        /\ file' \in [Run -> RunFiles \cup {None}] /\ \A q \in Run : q # r => file'[q] = file[q]
        /\ file'[r] # None /\ file'[r].status = conv'[r].status /\ file'[r].attempts = Len(conv'[r].results)
    BY <1>1, ConvergenceStarted
  <2>2. Converged \subseteq Converged'
    BY <2>1 DEF Converged, OnItsWay
  <2>3. staged' = staged /\ check' = check /\ drift' = drift
    BY <1>1 DEF StartConvergence
  <2> QED
    BY <2>2, <2>3 DEF FromConverged
<1>2. ASSUME NEW r \in Run, NEW shown \in SUBSET Condition, RunAttempt(r, shown) PROVE FromConverged'
  <2>1. /\ conv' \in [Run -> Convs] /\ \A q \in Run : q # r => conv'[q] = conv[q]
        /\ conv[r].pc = "attempt" /\ conv'[r].pc = "verify" /\ conv'[r].trace \in Traces
        /\ conv'[r].results = conv[r].results /\ conv'[r].status = conv[r].status /\ conv'[r].asked = conv[r].asked
        /\ file' = file
    BY <1>2, AttemptMade
  <2>2. Converged \subseteq Converged'
    BY <2>1 DEF Converged, OnItsWay
  <2>3. staged' = staged /\ check' = check /\ drift' = drift
    BY <1>2 DEF RunAttempt
  <2> QED
    BY <2>2, <2>3 DEF FromConverged
<1>3. ASSUME NEW r \in Run, NEW verdict \in Universal, Attempted(r, verdict) PROVE FromConverged'
  <2>1. /\ conv' \in [Run -> Convs] /\ \A q \in Run : q # r => conv'[q] = conv[q]
        /\ conv[r].pc = "verify" /\ conv'[r].asked = conv[r].asked
        /\ conv'[r].results = Append(conv[r].results, verdict = "pass")
        /\ conv'[r].status = Verdict(conv'[r].results, conv[r].asked)
        /\ conv'[r].status = "converged" => conv'[r].trace = conv[r].trace /\ conv'[r].pc = "stage"
        /\ conv'[r].pc \in {"attempt", "returned", "stage"}
        /\ conv'[r].pc = "attempt" => conv'[r].status = "running"
        /\ conv'[r].pc = "returned" => conv'[r].status # "converged"
        /\ conv'[r].pc = "returned" /\ conv'[r].status = "running" => Len(conv'[r].results) >= LoopMax(conv[r].asked)
        /\ conv'[r].pc = "stage" => conv'[r].status = "converged"
        /\ file' \in [Run -> RunFiles \cup {None}] /\ \A q \in Run : q # r => file'[q] = file[q]
        /\ file'[r] # None /\ file'[r].status = conv'[r].status /\ file'[r].attempts = Len(conv'[r].results)
    BY <1>3, AttemptNoted
  <2>2. Converged \subseteq Converged'
    BY <2>1 DEF Converged, OnItsWay
  <2>3. staged' = staged /\ check' = check /\ drift' = drift
    BY <1>3 DEF Attempted
  <2> QED
    BY <2>2, <2>3 DEF FromConverged
<1>4. ASSUME NEW r \in Run, NEW status \in {"failed", "over_budget"}, AttemptEnds(r, status) PROVE FromConverged'
  <2>1. /\ conv' \in [Run -> Convs] /\ \A q \in Run : q # r => conv'[q] = conv[q]
        /\ conv[r].pc \in {"attempt", "verify"} /\ conv'[r].pc = "returned"
        /\ conv'[r].status \in {"failed", "over_budget"}
        /\ file' \in [Run -> RunFiles \cup {None}] /\ \A q \in Run : q # r => file'[q] = file[q]
        /\ file'[r] # None /\ file'[r].status = conv'[r].status /\ file'[r].attempts = Len(conv'[r].results)
    BY <1>4, AttemptCut
  <2>2. Converged \subseteq Converged'
    BY <2>1 DEF Converged, OnItsWay
  <2>3. staged' = staged /\ check' = check /\ drift' = drift
    BY <1>4 DEF AttemptEnds
  <2> QED
    BY <2>2, <2>3 DEF FromConverged
<1>5. ASSUME NEW r \in Run, StageFile(r) PROVE FromConverged'
  <2>1. /\ conv' \in [Run -> Convs] /\ \A q \in Run : q # r => conv'[q] = conv[q]
        /\ conv[r].pc = "stage" /\ conv'[r].pc = (IF written + 1 = CandidateAt THEN "record" ELSE "stage")
        /\ conv'[r].trace = conv[r].trace
        /\ conv'[r].results = conv[r].results /\ conv'[r].status = conv[r].status /\ conv'[r].asked = conv[r].asked
        /\ file' = file /\ staged' \in Staging /\ staged'[written + 1] = r
        /\ \A i \in 1..CandidateAt : i # written + 1 => staged'[i] = staged[i]
        /\ written' = IF written + 1 = CandidateAt THEN 0 ELSE written + 1
    BY <1>5, FileStaged
  <2>2. Converged \subseteq Converged'
    BY <2>1 DEF Converged
  <2>3. r \in Converged' /\ check' = check /\ drift' = drift
    BY <1>5, <2>1 DEF StageFile, OnItsWay, Converged
  <2>4. \A i \in 1..CandidateAt : staged'[i] \in Converged' \cup {None}
    BY <2>1, <2>2, <2>3 DEF FromConverged
  <2> QED
    BY <2>2, <2>3, <2>4 DEF FromConverged
<1>6. ASSUME NEW k \in Checker, ReadInVain(k) PROVE FromConverged'
  <2>1. UNCHANGED <<conv, staged, check>> /\ drift'.status # "healthy"
    BY <1>6 DEF ReadInVain
  <2> QED
    BY <2>1 DEF FromConverged, Converged
<1>7. ASSUME NEW r \in Run, RecordCandidate(r) PROVE FromConverged'
  <2>1. /\ conv' \in [Run -> Convs] /\ \A q \in Run : q # r => conv'[q] = conv[q]
        /\ conv[r].pc = "record" /\ conv'[r].pc = "returned" /\ conv'[r].trace = conv[r].trace
        /\ conv'[r].results = conv[r].results /\ conv'[r].status = conv[r].status /\ conv'[r].asked = conv[r].asked
        /\ file' \in [Run -> RunFiles \cup {None}] /\ \A q \in Run : q # r => file'[q] = file[q]
        /\ file'[r] # None /\ file'[r].status = conv'[r].status /\ file'[r].attempts = Len(conv'[r].results)
        /\ file'[r].candidate = r
    BY <1>7, CandidateRecorded
  <2>2. Converged \subseteq Converged'
    BY <2>1 DEF Converged
  <2>3. staged' = staged /\ check' = check /\ drift' = drift
    BY <1>7 DEF RecordCandidate
  <2> QED
    BY <2>2, <2>3 DEF FromConverged
<1>8. ASSUME NEW k \in Checker, ReadSkill(k) PROVE FromConverged'
  <2>1. conv' = conv /\ file' = file
    BY <1>8 DEF ReadSkill
  <2>2. Converged \subseteq Converged'
    BY <2>1 DEF Converged
  <2>3. staged' = staged /\ drift' = drift
    BY <1>8 DEF ReadSkill
  <2>4. {staged[TraceAt], staged[CandidateAt]} \subseteq Converged
    BY <1>8 DEF ReadSkill, CheckReadable, FromConverged, TraceAt, CandidateAt
  <2>5. \A l \in Checker : l # k => check'[l] = check[l]
    BY <1>8 DEF ReadSkill, HTypes
  <2>6. check'[k].files = staged
    BY <1>8 DEF ReadSkill, HTypes
  <2>7. ASSUME NEW l \in Checker, check'[l].pc = "verify"
        PROVE  {check'[l].files[TraceAt], check'[l].files[CandidateAt]} \subseteq Converged'
    <3>1. CASE l = k
      BY <2>2, <2>4, <2>6, <3>1
    <3>2. CASE l # k
      BY <2>2, <2>5, <2>7, <3>2 DEF FromConverged
    <3> QED
      BY <3>1, <3>2
  <2> QED
    BY <2>2, <2>3, <2>7 DEF FromConverged
<1>9. ASSUME NEW k \in Checker, NEW verdict \in Universal, WriteDrift(k, verdict) PROVE FromConverged'
  <2>1. conv' = conv /\ file' = file
    BY <1>9 DEF WriteDrift
  <2>2. Converged \subseteq Converged'
    BY <2>1 DEF Converged
  <2>3. staged' = staged /\ check[k].pc = "verify"
    BY <1>9 DEF WriteDrift
  <2>4. \A l \in Checker : check'[l].pc = "verify" => check'[l] = check[l]
    BY <1>9 DEF WriteDrift, HTypes, Unchecked
  <2>5. drift'.files = check[k].files /\ drift'.status = DriftStatus(check[k].files, verdict)
    BY <1>9 DEF WriteDrift
  <2>6. drift'.status = "healthy" => check[k].files[TraceAt] = check[k].files[CandidateAt]
    BY <2>5 DEF DriftStatus
  <2>7. check[k].files[CandidateAt] \in Converged
    BY <2>3 DEF FromConverged
  <2> QED
    BY <2>2, <2>3, <2>4, <2>5, <2>6, <2>7 DEF FromConverged
<1>10. CASE CutOff
  <2>1. /\ conv' \in [Run -> Convs]
        /\ \A q \in Run : \/ conv'[q] = conv[q] /\ conv[q].pc \in {"idle", "returned"}
                          \/ /\ conv[q].pc \notin {"idle", "returned"} /\ conv'[q].pc = "gone"
                             /\ conv'[q].results = conv[q].results /\ conv'[q].status = conv[q].status
                             /\ conv'[q].asked = conv[q].asked /\ conv'[q].trace = conv[q].trace
        /\ file' = file
    BY <1>10, RunsGone
  <2>2. Converged \subseteq Converged'
    BY <2>1 DEF Converged
  <2>3. drift' = drift /\ \A k \in Checker : check'[k].pc = "idle"
    BY <1>10 DEF CutOff, Unchecked
  <2>4. \A i \in 1..CandidateAt : staged'[i] \in {staged[i], None}
    BY <1>10 DEF CutOff, HTypes, Staging
  <2> QED
    BY <2>2, <2>3, <2>4 DEF FromConverged
<1>11. CASE UNCHANGED hvars
  BY <1>11 DEF hvars, FromConverged, Converged
<1> QED
  BY <1>1, <1>2, <1>3, <1>4, <1>5, <1>6, <1>7, <1>8, <1>9, <1>10, <1>11
  DEF HNext

LEMMA StagesAloneKept == HTypes /\ StagesAlone /\ [HNext]_hvars => StagesAlone'
<1> SUFFICES ASSUME HTypes, StagesAlone, [HNext]_hvars PROVE StagesAlone'
  OBVIOUS
<1>1. ASSUME LoopFree, UNCHANGED <<staged, written>>, NEW r \in Run, \A q \in Run : q # r => conv'[q] = conv[q]
      PROVE  StagesAlone'
  <2>1. written = 0 /\ written' = 0 /\ \A q \in Run : q # r => conv'[q].pc \notin {"stage", "record"}
    BY <1>1 DEF StagesAlone, LoopFree
  <2>2. \A i \in 1..written' : FALSE
    BY <2>1
  <2> QED
    BY <2>1, <2>2 DEF StagesAlone
<1>2. ASSUME NEW r \in Run, NEW asked \in trial.asked, NEW mock \in trial.mocked, StartConvergence(r, asked, mock)
      PROVE  StagesAlone'
  BY <1>1, <1>2, ConvergenceStarted DEF StartConvergence
<1>3. ASSUME NEW r \in Run, NEW shown \in SUBSET Condition, RunAttempt(r, shown) PROVE StagesAlone'
  BY <1>1, <1>3, AttemptMade DEF RunAttempt
<1>4. ASSUME NEW r \in Run, NEW verdict \in Universal, Attempted(r, verdict) PROVE StagesAlone'
  BY <1>1, <1>4, AttemptNoted DEF Attempted
<1>5. ASSUME NEW r \in Run, NEW status \in {"failed", "over_budget"}, AttemptEnds(r, status) PROVE StagesAlone'
  BY <1>1, <1>5, AttemptCut DEF AttemptEnds
<1>6. ASSUME NEW r \in Run, StageFile(r) PROVE StagesAlone'
  <2>1. /\ \A q \in Run : q # r => conv'[q] = conv[q]
        /\ conv[r].pc = "stage" /\ conv'[r].pc = (IF written + 1 = CandidateAt THEN "record" ELSE "stage")
        /\ staged'[written + 1] = r /\ \A i \in 1..CandidateAt : i # written + 1 => staged'[i] = staged[i]
        /\ written' = IF written + 1 = CandidateAt THEN 0 ELSE written + 1
    BY <1>6, FileStaged
  <2>2. \A q \in Run : q # r => conv'[q].pc \notin {"stage", "record"}
    BY <2>1 DEF StagesAlone
  <2>3. ASSUME conv'[r].pc = "stage", NEW i \in 1..written' PROVE staged'[i] = r
    <3>1. written' = written + 1 /\ written \in 0..(CandidateAt - 1) /\ CandidateAt = 8
      BY <2>1, <2>3 DEF HTypes, CandidateAt
    <3>2. i \in 1..CandidateAt /\ (i # written + 1 => i \in 1..written)
      BY <3>1
    <3> QED
      BY <2>1, <3>2 DEF StagesAlone
  <2>4. written' # 0 => conv'[r].pc = "stage"
    BY <2>1
  <2> QED
    BY <2>2, <2>3, <2>4 DEF StagesAlone
<1>7. ASSUME NEW r \in Run, RecordCandidate(r) PROVE StagesAlone'
  <2>1. /\ \A q \in Run : q # r => conv'[q] = conv[q]
        /\ conv[r].pc = "record" /\ conv'[r].pc = "returned" /\ UNCHANGED <<staged, written>>
    BY <1>7 DEF RecordCandidate, HTypes
  <2>2. written = 0 /\ \A q \in Run : conv'[q].pc \notin {"stage", "record"}
    BY <2>1 DEF StagesAlone
  <2> QED
    BY <2>1, <2>2 DEF StagesAlone
<1>8. ASSUME NEW k \in Checker,
             ReadSkill(k) \/ ReadInVain(k) \/ \E verdict \in Universal : WriteDrift(k, verdict)
      PROVE  StagesAlone'
  BY <1>8 DEF ReadSkill, ReadInVain, WriteDrift, StagesAlone
<1>9. CASE CutOff
  <2>1. \A q \in Run : conv'[q].pc \notin {"stage", "record"}
    BY <1>9, RunsGone
  <2>2. written' = 0
    BY <1>9 DEF CutOff
  <2> QED
    BY <2>1, <2>2 DEF StagesAlone
<1>10. CASE UNCHANGED hvars
  BY <1>10 DEF hvars, StagesAlone
<1> QED
  BY <1>2, <1>3, <1>4, <1>5, <1>6, <1>7, <1>8, <1>9, <1>10 DEF HNext

LEMMA CandidateLastKept ==
  HTypes /\ OnItsWay /\ FromConverged /\ StagesAlone /\ CandidateLast /\ [HNext]_hvars => CandidateLast'
<1> SUFFICES ASSUME HTypes, OnItsWay, FromConverged, StagesAlone, CandidateLast, [HNext]_hvars
             PROVE  CandidateLast'
  OBVIOUS
<1>1. ASSUME staged' = staged, NEW r \in Run, \A q \in Run : q # r => conv'[q] = conv[q],
             conv'[r].pc = "stage" => conv[r].pc = "verify"
      PROVE  CandidateLast'
  <2>1. conv[r].pc = "verify" => r \notin Converged
    BY DEF OnItsWay, Converged
  <2>2. staged[CandidateAt] \in Converged \cup {None} /\ None \notin Run
    BY HarnessAssumption DEF FromConverged, CandidateAt
  <2> QED
    BY <1>1, <2>1, <2>2 DEF CandidateLast
<1>2. ASSUME NEW r \in Run, NEW asked \in trial.asked, NEW mock \in trial.mocked, StartConvergence(r, asked, mock)
      PROVE  CandidateLast'
  BY <1>1, <1>2, ConvergenceStarted DEF StartConvergence
<1>3. ASSUME NEW r \in Run, NEW shown \in SUBSET Condition, RunAttempt(r, shown) PROVE CandidateLast'
  BY <1>1, <1>3, AttemptMade DEF RunAttempt
<1>4. ASSUME NEW r \in Run, NEW verdict \in Universal, Attempted(r, verdict) PROVE CandidateLast'
  BY <1>1, <1>4, AttemptNoted DEF Attempted
<1>5. ASSUME NEW r \in Run, NEW status \in {"failed", "over_budget"}, AttemptEnds(r, status) PROVE CandidateLast'
  BY <1>1, <1>5, AttemptCut DEF AttemptEnds
<1>6. ASSUME NEW r \in Run, StageFile(r) PROVE CandidateLast'
  <2>1. /\ \A q \in Run : q # r => conv'[q] = conv[q]
        /\ conv[r].pc = "stage" /\ conv'[r].pc = (IF written + 1 = CandidateAt THEN "record" ELSE "stage")
        /\ \A i \in 1..CandidateAt : i # written + 1 => staged'[i] = staged[i]
    BY <1>6, FileStaged
  <2>2. \A q \in Run : q # r => conv'[q].pc # "stage"
    BY <2>1 DEF StagesAlone
  <2>3. conv'[r].pc = "stage" => staged'[CandidateAt] = staged[CandidateAt]
    BY <2>1 DEF CandidateAt
  <2> QED
    BY <2>1, <2>2, <2>3 DEF CandidateLast
<1>7. ASSUME NEW r \in Run, RecordCandidate(r) PROVE CandidateLast'
  <2>1. \A q \in Run : q # r => conv'[q] = conv[q]
    BY <1>7 DEF RecordCandidate, HTypes
  <2>2. conv'[r].pc = "returned" /\ staged' = staged
    BY <1>7 DEF RecordCandidate, HTypes
  <2> QED
    BY <1>1, <2>1, <2>2
<1>8. ASSUME NEW k \in Checker,
             ReadSkill(k) \/ ReadInVain(k) \/ \E verdict \in Universal : WriteDrift(k, verdict)
      PROVE  CandidateLast'
  BY <1>8 DEF ReadSkill, ReadInVain, WriteDrift, CandidateLast
<1>9. CASE CutOff
  BY <1>9, RunsGone DEF CandidateLast
<1>10. CASE UNCHANGED hvars
  BY <1>10 DEF hvars, CandidateLast
<1> QED
  BY <1>2, <1>3, <1>4, <1>5, <1>6, <1>7, <1>8, <1>9, <1>10 DEF HNext

LEMMA MoreBeside ==
  ASSUME NEW files, NEW runs, NEW more, runs \subseteq more, Beside(files, runs)
  PROVE  Beside(files, more)
BY DEF Beside

LEMMA WholeKept ==
  HTypes /\ OnItsWay /\ StagesAlone /\ CandidateLast /\ Whole /\ [HNext]_hvars => Whole'
<1> SUFFICES ASSUME HTypes, OnItsWay, StagesAlone, CandidateLast, Whole, [HNext]_hvars PROVE Whole'
  OBVIOUS
<1>1. ASSUME UNCHANGED <<staged, check, drift>>, NEW r \in Run, \A q \in Run : q # r => conv'[q] = conv[q],
             conv[r].pc \in {"idle", "attempt", "verify", "record"}
      PROVE  Whole'
  <2>1. Staged \subseteq Staged' /\ WasCut \subseteq WasCut'
    BY <1>1 DEF Staged, WasCut, Converged
  <2>2. Beside(staged, Staged')
    BY <2>1, MoreBeside DEF Whole
  <2>3. \A k \in Checker : check[k].pc = "verify" => Beside(check[k].files, WasCut')
    BY <2>1, MoreBeside DEF Whole
  <2>4. drift # None => Beside(drift.files, WasCut')
    BY <2>1, MoreBeside DEF Whole
  <2> QED
    BY <1>1, <2>2, <2>3, <2>4 DEF Whole
<1>2. ASSUME NEW r \in Run, NEW asked \in trial.asked, NEW mock \in trial.mocked, StartConvergence(r, asked, mock)
      PROVE  Whole'
  BY <1>1, <1>2, ConvergenceStarted DEF StartConvergence
<1>3. ASSUME NEW r \in Run, NEW shown \in SUBSET Condition, RunAttempt(r, shown) PROVE Whole'
  BY <1>1, <1>3, AttemptMade DEF RunAttempt
<1>4. ASSUME NEW r \in Run, NEW verdict \in Universal, Attempted(r, verdict) PROVE Whole'
  BY <1>1, <1>4, AttemptNoted DEF Attempted
<1>5. ASSUME NEW r \in Run, NEW status \in {"failed", "over_budget"}, AttemptEnds(r, status) PROVE Whole'
  BY <1>1, <1>5, AttemptCut DEF AttemptEnds
<1>6. ASSUME NEW r \in Run, StageFile(r) PROVE Whole'
  <2>1. /\ \A q \in Run : q # r => conv'[q] = conv[q]
        /\ conv[r].pc = "stage" /\ conv'[r].pc = (IF written + 1 = CandidateAt THEN "record" ELSE "stage")
        /\ conv'[r].status = conv[r].status
        /\ staged'[written + 1] = r /\ \A i \in 1..CandidateAt : i # written + 1 => staged'[i] = staged[i]
    BY <1>6, FileStaged
  <2>2. written \in 0..(CandidateAt - 1) /\ CandidateAt \in 1..CandidateAt
    BY DEF HTypes, CandidateAt
  <2>3. WasCut \subseteq WasCut' /\ r \in Converged'
    BY <2>1 DEF WasCut, Converged, OnItsWay
  <2>4. Beside(staged', Staged')
    <3>1. CASE written + 1 = CandidateAt
      <4>1. ASSUME NEW i \in 1..CandidateAt, i # written + 1 PROVE staged'[i] = r
        <5>1. i \in 1..written
          BY <2>2, <3>1, <4>1 DEF CandidateAt
        <5> QED
          BY <2>1, <4>1, <5>1 DEF StagesAlone
      <4>2. \A i \in 1..CandidateAt : staged'[i] = r
        BY <2>1, <4>1
      <4> QED
        BY <2>2, <4>2 DEF Beside
    <3>2. CASE written + 1 # CandidateAt
      <4>1. Staged \subseteq Staged' /\ r \in Staged'
        BY <2>1, <2>3, <3>2 DEF Staged, Converged
      <4>2. staged'[CandidateAt] = staged[CandidateAt]
        BY <2>1, <2>2, <3>2
      <4>3. Beside(staged, Staged')
        BY <4>1, MoreBeside DEF Whole
      <4>4. ASSUME NEW i \in 1..CandidateAt, staged'[CandidateAt] # None
            PROVE  \/ staged'[i] = staged'[CandidateAt]
                   \/ \E q \in Staged' \ {staged'[CandidateAt]} : staged'[i] \in {q, None}
        <5>1. CASE i = written + 1
          BY <2>1, <4>1, <4>2, <5>1 DEF CandidateLast
        <5>2. CASE i # written + 1
          BY <2>1, <4>2, <4>3, <4>4, <5>2 DEF Beside
        <5> QED
          BY <5>1, <5>2
      <4> QED
        BY <4>4 DEF Beside
    <3> QED
      BY <3>1, <3>2
  <2>5. check' = check /\ drift' = drift
    BY <1>6 DEF StageFile
  <2>6. \A k \in Checker : check[k].pc = "verify" => Beside(check[k].files, WasCut')
    BY <2>3, MoreBeside DEF Whole
  <2>7. drift # None => Beside(drift.files, WasCut')
    BY <2>3, MoreBeside DEF Whole
  <2> QED
    BY <2>4, <2>5, <2>6, <2>7 DEF Whole
<1>7. ASSUME NEW r \in Run, RecordCandidate(r) PROVE Whole'
  <2>1. /\ \A q \in Run : q # r => conv'[q] = conv[q]
        /\ conv[r].pc = "record" /\ UNCHANGED <<staged, check, drift>>
    BY <1>7 DEF RecordCandidate, HTypes
  <2> QED
    BY <1>1, <2>1
<1>8. ASSUME NEW k \in Checker, ReadSkill(k) \/ ReadInVain(k) \/ \E verdict \in Universal : WriteDrift(k, verdict)
      PROVE  Whole'
  <2>1. conv' = conv /\ staged' = staged /\ LoopFree
    BY <1>8 DEF ReadSkill, ReadInVain, WriteDrift
  <2>2. Staged' = Staged /\ WasCut' = WasCut
    BY <2>1 DEF Staged, WasCut, Converged
  <2>3. Staged = WasCut
    BY <2>1 DEF Staged, WasCut, Converged, LoopFree
  <2>4. \A l \in Checker : check'[l].pc = "verify" => check'[l] = check[l] \/ check'[l].files = staged
    BY <1>8 DEF ReadSkill, ReadInVain, WriteDrift, HTypes, Unchecked
  <2>5. drift' = drift \/ drift'.files = staged \/ (check[k].pc = "verify" /\ drift'.files = check[k].files)
    BY <1>8 DEF ReadSkill, ReadInVain, WriteDrift
  <2>6. \A l \in Checker : check'[l].pc = "verify" => Beside(check'[l].files, WasCut)
    BY <2>3, <2>4 DEF Whole
  <2>7. drift' # None => Beside(drift'.files, WasCut)
    BY <2>3, <2>5 DEF Whole
  <2> QED
    BY <2>1, <2>2, <2>6, <2>7 DEF Whole
<1>9. CASE CutOff
  <2>1. \A q \in Run : \/ conv'[q] = conv[q] /\ conv[q].pc \in {"idle", "returned"}
                       \/ conv'[q].pc = "gone" /\ conv'[q].status = conv[q].status
    BY <1>9, RunsGone
  <2>2. Staged \subseteq WasCut' /\ WasCut \subseteq WasCut' /\ WasCut' \subseteq Staged'
    BY <2>1 DEF Staged, WasCut, Converged
  <2>3. /\ drift' = drift /\ \A k \in Checker : check'[k].pc = "idle"
        /\ \/ staged' = staged
           \/ /\ \E r \in Run : conv[r].pc = "stage"
              /\ staged' = [staged EXCEPT ![written + 1] = None]
    BY <1>9 DEF CutOff, Unchecked
  <2>4. Beside(staged, Staged')
    BY <2>2, MoreBeside DEF Whole
  <2>5. ASSUME NEW r \in Run, conv[r].pc = "stage", staged' = [staged EXCEPT ![written + 1] = None]
        PROVE  Beside(staged', Staged')
    <3>1. r \in Staged'
      BY <2>2, <2>5 DEF Staged, OnItsWay, Converged
    <3>2. \A i \in 1..CandidateAt : staged'[i] = IF i = written + 1 THEN None ELSE staged[i]
      BY <2>5 DEF HTypes, Staging
    <3>3. CandidateAt \in 1..CandidateAt
      BY DEF CandidateAt
    <3>4. staged[CandidateAt] # r
      BY <2>5 DEF CandidateLast
    <3> QED
      BY <2>4, <3>1, <3>2, <3>3, <3>4 DEF Beside
  <2>6. drift # None => Beside(drift.files, WasCut')
    BY <2>2, MoreBeside DEF Whole
  <2> QED
    BY <2>3, <2>4, <2>5, <2>6 DEF Whole
<1>10. CASE UNCHANGED hvars
  BY <1>10 DEF hvars, Whole, Staged, WasCut, Converged
<1> QED
  BY <1>2, <1>3, <1>4, <1>5, <1>6, <1>7, <1>8, <1>9, <1>10 DEF HNext

LEMMA HInitInv == HInit => HInv
<1> SUFFICES ASSUME HInit PROVE HInv
  OBVIOUS
<1>1. Unrun \in Convs /\ Unchecked \in DriftChecks
  <2>1. <<>> \in Seq(BOOLEAN)
    OBVIOUS
  <2> QED
    BY <2>1 DEF Unrun, Unchecked, Unstaged, Staging, Convs, DriftChecks
<1>2. /\ trial \in Trials /\ conv = [r \in Run |-> Unrun] /\ file = [r \in Run |-> None]
      /\ staged = Unstaged /\ staged \in Staging /\ written = 0 /\ 0 \in 0..(CandidateAt - 1)
      /\ check = [k \in Checker |-> Unchecked] /\ drift = None
  BY DEF HInit, Staging, Unstaged, CandidateAt
<1>3. \A r \in Run : conv[r].pc = "idle" /\ conv[r].results = <<>> /\ conv[r].status = "created"
  BY <1>2 DEF Unrun
<1>4. Converged = {}
  BY <1>3 DEF Converged
<1>5. HTypes
  BY <1>1, <1>2 DEF HTypes
<1>6. FileAgrees
  BY <1>2, <1>3 DEF FileAgrees
<1>7. OnItsWay
  BY <1>3 DEF OnItsWay
<1>8. Earned
  BY <1>4 DEF Earned
<1>9. FromConverged
  BY <1>2 DEF FromConverged, Unchecked, Unstaged
<1>10. StagesAlone
  BY <1>2, <1>3 DEF StagesAlone
<1>11. CandidateLast
  BY <1>3 DEF CandidateLast
<1>12. Whole
  <2>1. staged[CandidateAt] = None
    BY <1>2 DEF Unstaged, CandidateAt
  <2> QED
    BY <1>2, <2>1 DEF Whole, Beside, Unchecked
<1> QED
  BY <1>5, <1>6, <1>7, <1>8, <1>9, <1>10, <1>11, <1>12 DEF HInv

LEMMA HInvariant == HSpec => []HInv
<1>1. HInv /\ [HNext]_hvars => HInv'
  BY HTypesKept, FileAgreesKept, OnItsWayKept, EarnedKept, FromConvergedKept, StagesAloneKept,
     CandidateLastKept, WholeKept DEF HInv
<1> QED
  BY <1>1, HInitInv, PTL DEF HSpec

\* What graduate hands out is earned, for any number of runs that share the staging directory and
\* with crashes anywhere: the last attempts of the run, as many as are required, all passed, the
\* trace of the last fulfils the contract, and the file tells how the run ended
\* (HarnessService.start_convergence, ConvergenceDetector.decide, the verifiers).
THEOREM CandidatesEarned == HSpec => []CandidateEarned
<1>1. HInv => CandidateEarned
  <2> SUFFICES ASSUME HInv, NEW r \in Run
               PROVE LET results == conv[r].results IN
                     /\ Graduates(r) =>
                          /\ Len(results) >= Required
                          /\ \A i \in (Len(results) - Required + 1)..Len(results) : results[i]
                          /\ Fulfils(conv[r].trace)
                     /\ conv[r].pc = "returned" =>
                          /\ file[r].status = "running" => DetectorMax(conv[r].asked) > trial.budget
                          /\ file[r].status = "converged" => Graduates(r)
                     /\ file[r] # None => file[r].attempts = Len(results)
    BY DEF CandidateEarned
  <2>1. Graduates(r) => r \in Converged
    BY DEF Graduates, HInv, FileAgrees, Converged
  <2>2. Graduates(r) => /\ Len(conv[r].results) >= Required
                        /\ \A i \in (Len(conv[r].results) - Required + 1)..Len(conv[r].results) : conv[r].results[i]
                        /\ Fulfils(conv[r].trace)
    BY <2>1, Zenon DEF HInv, Earned
  <2>3. conv[r].pc = "returned" => /\ file[r] # None /\ file[r].status = conv[r].status
    BY DEF HInv, FileAgrees
  <2>4. conv[r].pc = "returned" =>
          /\ file[r].status = "running" => DetectorMax(conv[r].asked) > trial.budget
          /\ file[r].status = "converged" => Graduates(r)
    BY <2>3 DEF HInv, OnItsWay, Graduates
  <2>5. file[r] # None => file[r].attempts = Len(conv[r].results)
    BY DEF HInv, FileAgrees
  <2> QED
    BY <2>2, <2>4, <2>5, Zenon
<1> QED
  BY <1>1, HInvariant, PTL

\* Of a skill that a drift check called healthy, trace and candidate are of one run, which converged
\* and fulfilled the contract; and whatever other file is not of that run is of another one that a
\* crash cut off while it staged over it, or was cut short by that crash, for any number of runs, checks
\* and crashes (SkillInducer.induce, SkillDriftMonitor.check_candidate).
THEOREM HealthyWhole == HSpec => []HealthySkill
<1>1. HInv => HealthySkill
  <2> DEFINE r == drift.files[CandidateAt]
  <2> SUFFICES ASSUME HInv, drift # None, drift.status = "healthy"
               PROVE /\ drift.files[TraceAt] = r
                     /\ file[r].status = "converged" /\ Fulfils(conv[r].trace)
                     /\ \A i \in 1..CandidateAt :
                          \/ drift.files[i] = r
                          \/ \E q \in Run \ {r} : /\ conv[q].pc = "gone" /\ file[q].status = "converged"
                                            /\ drift.files[i] \in {q, None}
    BY DEF HealthySkill
  <2>1. drift.files[TraceAt] = r /\ r \in Converged
    BY DEF HInv, FromConverged
  <2>2. Fulfils(conv[r].trace)
    BY <2>1 DEF HInv, Earned
  <2>3. \A q \in Converged : q \in Run /\ file[q].status = "converged"
    BY DEF HInv, OnItsWay, FileAgrees, Converged
  <2>4. r # None
    BY <2>1, HarnessAssumption DEF Converged
  <2>5. \A i \in 1..CandidateAt : drift.files[i] = r \/ \E q \in WasCut \ {r} : drift.files[i] \in {q, None}
    BY <2>4 DEF HInv, Whole, Beside
  <2>6. \A q \in WasCut : q \in Converged /\ conv[q].pc = "gone"
    BY DEF WasCut
  <2> QED
    BY <2>1, <2>2, <2>3, <2>5, <2>6
<1> QED
  BY <1>1, HInvariant, PTL

-----------------------------------------------------------------------------
(* Sessions of MCP clients.  What was confirmed to a client is in memory and in*)
(* the store, and what only memory has is counted as unsaved (Confirmed).  *)

McpObjects == [ready : BOOLEAN, subs : SUBSET Resource, at : Nat]
McpClients == [state : {"none", "hello", "ready", "ended"}, subs : SUBSET Resource]

PTypes ==
  /\ setup \in [stored : BOOLEAN, fails : Nat, starts : Nat]
  /\ known \subseteq McpId
  /\ obj \in [McpId -> McpObjects \cup {None}] /\ \A p \in known : obj[p] # None
  /\ saved \in [McpId -> McpObjects \cup {None}]
  /\ client \in [McpId -> McpClients] /\ \A p \in McpId : client[p].state = "none" => client[p].subs = {}

\* A client that did its handshake is known, and has in memory and in the file what was confirmed
\* to it; one that ended its session is nowhere; and what memory has and the file has not is
\* counted as unsaved.
Lasting(p) == client[p].state \in {"hello", "ready"} /\ p \notin dropped /\ <<p, "ended">> \notin unsaved
Confirmed ==
  setup.stored =>
    \A p \in McpId :
      /\ Lasting(p) =>
           /\ p \in known /\ saved[p] # None
           /\ client[p].state = "ready" => obj[p].ready /\ saved[p].ready
           /\ \A u \in client[p].subs : <<p, u>> \in unsaved \/ (u \in obj[p].subs /\ u \in saved[p].subs)
      /\ client[p].state = "ended" => p \notin known /\ saved[p] = None
      /\ obj[p] # None /\ saved[p] # None =>
           \A u \in obj[p].subs : u \in saved[p].subs \/ <<p, u>> \in unsaved

PInv == PTypes /\ Confirmed

-----------------------------------------------------------------------------

\* Finitely many numbers have a bound.
LEMMA NumbersBounded ==
  ASSUME NEW n \in Nat, NEW g, \A i \in 1..n : g[i] \in Nat
  PROVE  \E b \in Nat : \A i \in 1..n : g[i] <= b
<1> DEFINE Before == {p \in Nat \X Nat : p[1] < p[2]}
           Bounded(k) == \E b \in Nat : \A i \in 1..k : g[i] <= b
           T == {k \in Nat : k <= n /\ ~ Bounded(k)}
<1>1. IsWellFoundedOn(Before, Nat)
  BY NatLessThanWellFounded DEF OpToRel
<1>2. ASSUME NEW k \in Nat, k < n, Bounded(k) PROVE Bounded(k + 1)
  <2>1. PICK b \in Nat : \A i \in 1..k : g[i] <= b
    BY <1>2
  <2>2. g[k + 1] \in Nat
    BY <1>2
  <2>3. PICK c \in Nat : b <= c /\ g[k + 1] <= c
    BY <2>2
  <2>4. \A i \in 1..(k + 1) : g[i] <= c
    <3> SUFFICES ASSUME NEW i \in 1..(k + 1) PROVE g[i] <= c
      OBVIOUS
    <3>1. CASE i = k + 1
      BY <2>3, <3>1
    <3>2. CASE i # k + 1
      <4>1. i \in 1..k /\ i \in 1..n
        BY <1>2, <3>2
      <4> QED
        BY <2>1, <2>3, <4>1
    <3> QED
      BY <3>1, <3>2
  <2> QED
    BY <2>4
<1>3. Bounded(0)
  OBVIOUS
<1>4. T = {}
  <2> SUFFICES ASSUME T # {} PROVE FALSE
    OBVIOUS
  <2>1. PICK k \in T : \A m \in T : <<m, k>> \notin Before
    <3>1. T \subseteq Nat
      OBVIOUS
    <3> HIDE DEF T, Before
    <3> QED
      BY <1>1, <3>1, WFMin
  <2>2. k \in Nat /\ k <= n /\ ~ Bounded(k) /\ k # 0
    BY <1>3
  <2>3. k - 1 \in Nat /\ k - 1 < n /\ k - 1 \notin T
    <3>1. k - 1 \in Nat /\ k - 1 < n /\ k - 1 < k
      BY <2>2
    <3>2. <<k - 1, k>> \in Before
      BY <2>2, <3>1
    <3> QED
      BY <2>1, <3>1, <3>2
  <2>4. Bounded(k - 1)
    BY <2>2, <2>3
  <2>5. Bounded((k - 1) + 1)
    <3> HIDE DEF Bounded
    <3> QED
      BY <1>2, <2>3, <2>4
  <2>6. (k - 1) + 1 = k
    BY <2>2
  <2> HIDE DEF Bounded
  <2> QED
    BY <2>2, <2>5, <2>6
<1> QED
  <2>1. n \notin T
    BY <1>4
  <2> QED
    BY <2>1

\* The largest creation time of the sessions in memory is a number.
LEMMA LatestCreation ==
  ASSUME PTypes
  PROVE  Max({0} \cup {obj[q].at : q \in {q \in McpId : obj[q] # None}}) \in Nat
<1> DEFINE held == {q \in McpId : obj[q] # None}
           S == {0} \cup {obj[q].at : q \in held}
<1>0. PICK n \in Nat : ExistsSurjection(1..n, McpId)
  BY FS_NatSurjection, McpAssumption
<1>1. PICK f \in [1..n -> McpId] : \A q \in McpId : \E i \in 1..n : f[i] = q
  BY <1>0 DEF ExistsSurjection, Surjection
<1>2. \A q \in held : obj[q].at \in Nat
  BY DEF PTypes, McpObjects
<1> DEFINE g == [i \in 1..n |-> IF f[i] \in held THEN obj[f[i]].at ELSE 0]
<1>3. \A i \in 1..n : g[i] \in Nat
  BY <1>2
<1>4. PICK b \in Nat : \A i \in 1..n : g[i] <= b
  <2> HIDE DEF g
  <2> QED
    BY <1>3, NumbersBounded
<1>5. S \in SUBSET (0..b)
  <2> SUFFICES ASSUME NEW q \in held PROVE obj[q].at \in 0..b
    OBVIOUS
  <2>1. PICK i \in 1..n : f[i] = q
    BY <1>1
  <2>2. g[i] = obj[q].at /\ g[i] <= b
    BY <1>4, <2>1
  <2> QED
    BY <1>2, <2>2
<1>6. Max(S) \in S
  <2>1. S # {}
    OBVIOUS
  <2> HIDE DEF S
  <2> QED
    BY <1>5, <2>1, LargestNumber
<1>7. Max(S) \in Nat
  <2>1. S \subseteq Nat
    BY <1>2
  <2> HIDE DEF S
  <2> QED
    BY <1>6, <2>1
<1> QED
  BY <1>7

\* What _persist_sessions and the answer do.
LEMMA PersistDoes ==
  ASSUME PTypes, NEW ids, NEW objects, NEW told, NEW change, Persist(ids, objects, told, change)
  PROVE  /\ obj' = objects /\ known' \subseteq ids /\ ids \ known' \subseteq dropped'
         /\ dropped \subseteq dropped' /\ unsaved \subseteq unsaved' /\ setup'.stored = setup.stored
         /\ ~ setup.stored => saved' = saved /\ client' = told
         /\ setup.stored =>
              \/ client' = told /\ saved' = [p \in McpId |-> IF p \in known' THEN objects[p] ELSE None]
              \/ client' = client /\ saved' = saved /\ change \in unsaved'
<1>1. CASE ~ setup.stored
  BY <1>1 DEF Persist
<1>2. CASE setup.stored
  <2>1. PICK kept \in Survivors(ids, objects) :
          /\ known' = kept /\ dropped' = dropped \cup (ids \ kept)
          /\ \/ /\ saved' = [p \in McpId |-> IF p \in kept THEN objects[p] ELSE None]
                /\ client' = told /\ setup' = setup /\ unsaved' = unsaved
             \/ /\ setup' = [setup EXCEPT !.fails = @ - 1]
                /\ unsaved' = unsaved \cup {change} /\ saved' = saved /\ client' = client
    BY <1>2 DEF Persist
  <2>2. kept \subseteq ids
    BY DEF Survivors
  <2>3. setup'.stored = setup.stored
    <3>1. setup' = setup \/ setup' = [setup EXCEPT !.fails = setup.fails - 1]
      BY <1>2 DEF Persist
    <3> QED
      BY <3>1 DEF PTypes
  <2>4. obj' = objects
    BY DEF Persist
  <2> QED
    BY <1>2, <2>1, <2>2, <2>3, <2>4
<1> QED
  BY <1>1, <1>2

\* The setup is one all the time.
LEMMA SetupKept == ASSUME PTypes, [PNext]_pvars PROVE setup' \in [stored : BOOLEAN, fails : Nat, starts : Nat]
<1> DEFINE S == [stored : BOOLEAN, fails : Nat, starts : Nat]
<1>1. \/ setup' = setup
      \/ setup.fails > 0 /\ setup' = [setup EXCEPT !.fails = @ - 1]
      \/ setup.starts > 0 /\ setup' = [setup EXCEPT !.starts = @ - 1]
  <2>1. ASSUME NEW ids, NEW objects, NEW told, NEW change, Persist(ids, objects, told, change)
        PROVE setup' = setup \/ (setup.fails > 0 /\ setup' = [setup EXCEPT !.fails = @ - 1])
    BY <2>1 DEF Persist
  <2> DEFINE Counted == \/ setup' = setup
                        \/ setup.fails > 0 /\ setup' = [setup EXCEPT !.fails = @ - 1]
                        \/ setup.starts > 0 /\ setup' = [setup EXCEPT !.starts = @ - 1]
                    <2>2. ASSUME NEW p \in McpId, Initialize(p) \/ Initialized(p) \/ EndSession(p) PROVE Counted
    BY <2>1, <2>2 DEF Initialize, Initialized, EndSession
  <2>3. ASSUME NEW p \in McpId, NEW u \in Resource, Subscribe(p, u) \/ Unsubscribe(p, u) PROVE Counted
    BY <2>1, <2>3 DEF Subscribe, Unsubscribe
  <2>4. CASE Browse
    BY <2>4 DEF Browse
  <2>6. CASE RestartMcp
    BY <2>6 DEF RestartMcp
  <2>7. CASE UNCHANGED pvars
    BY <2>7 DEF pvars
  <2> QED
    BY <2>2, <2>3, <2>4, <2>6, <2>7, Zenon DEF PNext
<1>2. setup \in S
  BY DEF PTypes
<1> HIDE DEF S
<1>3. setup.fails \in Nat /\ setup.starts \in Nat
  BY <1>2 DEF S
<1>4. setup' \in S
  BY <1>1, <1>2, <1>3 DEF S
<1> QED
  BY <1>4 DEF S

\* What the session of one client and what it was told become; all else is as it was.
Change(p, ids, objects, told, change) ==
  /\ ids \in SUBSET McpId /\ objects \in [McpId -> McpObjects \cup {None}] /\ told \in [McpId -> McpClients]
  /\ \A q \in McpId : q # p => objects[q] = obj[q] /\ told[q] = client[q] /\ (q \in ids <=> q \in known)
  /\ p \in ids => objects[p] # None
  /\ told[p].state # "none"
  /\ Persist(ids, objects, told, change)

\* A step that persists keeps the types.
LEMMA PersistTypes ==
  ASSUME PTypes, NEW p \in McpId, NEW ids, NEW objects, NEW told, NEW change, Change(p, ids, objects, told, change)
  PROVE  /\ known' \subseteq McpId /\ obj' \in [McpId -> McpObjects \cup {None}] /\ \A q \in known' : obj'[q] # None
         /\ saved' \in [McpId -> McpObjects \cup {None}]
         /\ client' \in [McpId -> McpClients] /\ \A q \in McpId : client'[q].state = "none" => client'[q].subs = {}
<1>1. obj' = objects /\ known' \subseteq ids
  BY PersistDoes DEF Change
<1>2. saved' = saved \/ saved' = [q \in McpId |-> IF q \in known' THEN objects[q] ELSE None]
  BY PersistDoes DEF Change
<1>3. client' \in {client, told}
  BY PersistDoes DEF Change
<1>4. saved' \in [McpId -> McpObjects \cup {None}]
  BY <1>2 DEF PTypes, Change
<1>5. client' \in [McpId -> McpClients] /\ \A q \in McpId : client'[q].state = "none" => client'[q].subs = {}
  BY <1>3 DEF PTypes, Change
<1>6. \A q \in ids : objects[q] # None
  <2> SUFFICES ASSUME NEW q \in ids PROVE objects[q] # None
    OBVIOUS
  <2>1. CASE q = p
    BY <2>1 DEF Change
  <2>2. CASE q # p
    BY <2>2 DEF Change, PTypes
  <2> QED
    BY <2>1, <2>2
<1> QED
  BY <1>1, <1>4, <1>5, <1>6 DEF Change

\* What is confirmed of one session.
ConfirmedOf(p) ==
  /\ Lasting(p) =>
       /\ p \in known /\ saved[p] # None
       /\ client[p].state = "ready" => obj[p].ready /\ saved[p].ready
       /\ \A u \in client[p].subs : <<p, u>> \in unsaved \/ (u \in obj[p].subs /\ u \in saved[p].subs)
  /\ client[p].state = "ended" => p \notin known /\ saved[p] = None
  /\ obj[p] # None /\ saved[p] # None =>
       \A u \in obj[p].subs : u \in saved[p].subs \/ <<p, u>> \in unsaved

\* A step that persists keeps what was confirmed to the others; to its own client it confirms
\* what it saved.
LEMMA PersistConfirms ==
  ASSUME PTypes, Confirmed, NEW p \in McpId, NEW ids, NEW objects, NEW told, NEW change,
         Change(p, ids, objects, told, change),
         setup.stored /\ told[p].state # "ended" /\ <<p, "ended">> \notin unsaved /\ p \notin dropped =>
           /\ p \in ids /\ (told[p].state = "ready" => objects[p].ready)
           /\ \A u \in told[p].subs : <<p, u>> \in unsaved \/ u \in objects[p].subs,
         told[p].state = "ended" => p \notin ids,
         setup.stored /\ change # <<p, "ended">> /\ Lasting(p) =>
           /\ p \in ids /\ (client[p].state = "ready" => objects[p].ready)
           /\ \A u \in client[p].subs : <<p, u>> \in unsaved \cup {change} \/ u \in objects[p].subs,
         setup.stored /\ client[p].state = "ended" => p \notin ids,
         objects[p] # None => \A u \in objects[p].subs : <<p, u>> = change \/ (obj[p] # None /\ u \in obj[p].subs)
  PROVE  Confirmed'
<1>1. /\ obj' = objects /\ known' \subseteq ids /\ ids \ known' \subseteq dropped'
      /\ dropped \subseteq dropped' /\ unsaved \subseteq unsaved' /\ setup'.stored = setup.stored
      /\ setup.stored =>
           \/ client' = told /\ saved' = [q \in McpId |-> IF q \in known' THEN objects[q] ELSE None]
           \/ client' = client /\ saved' = saved /\ change \in unsaved'
  BY PersistDoes DEF Change
<1>2. ASSUME setup.stored, NEW q \in McpId PROVE ConfirmedOf(q)'
  <2>0. ConfirmedOf(q) /\ ConfirmedOf(p)
    BY <1>2 DEF Confirmed, ConfirmedOf
  <2>1. CASE q # p
    <3>1. objects[q] = obj[q] /\ told[q] = client[q] /\ (q \in ids <=> q \in known)
      BY <2>1 DEF Change
    <3>2. client'[q] = client[q] /\ obj'[q] = obj[q]
      BY <1>1, <1>2, <3>1
    <3>3. Lasting(q)' => Lasting(q) /\ q \in known'
      BY <1>1, <2>0, <3>1, <3>2 DEF Lasting, ConfirmedOf
    <3>4. saved'[q] = saved[q] \/ saved'[q] = IF q \in known' THEN obj[q] ELSE None
      BY <1>1, <1>2, <3>1
    <3>5. q \in known' => obj[q] # None /\ q \in known
      BY <1>1, <3>1 DEF PTypes
    <3> QED
      BY <1>1, <2>0, <3>2, <3>3, <3>4, <3>5 DEF ConfirmedOf
  <2>2. CASE q = p /\ client' = told /\ saved' = [x \in McpId |-> IF x \in known' THEN objects[x] ELSE None]
    <3>1. obj'[p] = objects[p] /\ client'[p] = told[p] /\ saved'[p] = IF p \in known' THEN objects[p] ELSE None
      BY <1>1, <2>2
    <3>2. p \in known' => objects[p] # None
      BY <1>1 DEF Change
    <3>3. Lasting(p)' => <<p, "ended">> \notin unsaved /\ p \notin dropped /\ p \notin dropped' /\ told[p].state # "ended"
      BY <1>1, <3>1 DEF Lasting
    <3>4. Lasting(p)' => p \in known'
      BY <1>1, <1>2, <3>3
    <3>5. Lasting(p)' =>
            /\ told[p].state = "ready" => objects[p].ready
            /\ \A u \in told[p].subs : <<p, u>> \in unsaved' \/ u \in objects[p].subs
      BY <1>1, <1>2, <3>3
    <3>6. told[p].state = "ended" => p \notin known'
      BY <1>1
    <3> QED
      BY <2>2, <3>1, <3>2, <3>4, <3>5, <3>6 DEF ConfirmedOf
  <2>3. CASE q = p /\ client' = client /\ saved' = saved /\ change \in unsaved'
    <3>1. Lasting(p)' => Lasting(p) /\ change # <<p, "ended">> /\ p \notin dropped'
      BY <1>1, <2>3 DEF Lasting
    <3>2. Lasting(p)' =>
            /\ p \in known' /\ (client[p].state = "ready" => objects[p].ready)
            /\ \A u \in client[p].subs : <<p, u>> \in unsaved' \/ u \in objects[p].subs
      BY <1>1, <1>2, <2>3, <3>1
    <3>3. client[p].state = "ended" => p \notin known'
      BY <1>1, <1>2
    <3>4. objects[p] # None /\ saved[p] # None =>
            \A u \in objects[p].subs : u \in saved[p].subs \/ <<p, u>> \in unsaved'
      BY <1>1, <2>0, <2>3 DEF ConfirmedOf
    <3> QED
      BY <1>1, <2>0, <2>3, <3>1, <3>2, <3>3, <3>4 DEF ConfirmedOf
  <2> QED
    BY <1>1, <1>2, <2>1, <2>2, <2>3
<1> QED
  BY <1>1, <1>2 DEF Confirmed, ConfirmedOf

LEMMA NoneNoObject == None \notin McpObjects
BY McpAssumption DEF McpObjects

LEMMA InitializeChanges ==
  ASSUME PTypes, NEW p \in McpId, Initialize(p)
  PROVE  \E objects, told :
           /\ Change(p, known \cup {p}, objects, told, <<p, "new">>)
           /\ objects[p] # None /\ objects[p].subs = {} /\ told[p].state = "hello" /\ told[p].subs = {}
<1> DEFINE latest == Max({0} \cup {obj[q].at : q \in {q \in McpId : obj[q] # None}})
           Made(at) == [ready |-> FALSE, subs |-> {}, at |-> at]
           heard == [client[p] EXCEPT !.state = "hello"]
           told == [client EXCEPT ![p] = heard]
<1>1. latest \in Nat
  BY LatestCreation
<1>2. PICK at \in {latest, latest + 1} :
        Persist(known \cup {p}, [obj EXCEPT ![p] = Made(at)], [client EXCEPT ![p].state = "hello"], <<p, "new">>)
  BY DEF Initialize
<1>3. at \in Nat
  BY <1>1
<1> HIDE DEF latest
<1> DEFINE new == Made(at)
           objects == [obj EXCEPT ![p] = new]
<1>4. new \in McpObjects /\ new.subs = {} /\ new # None
  <2>1. {} \in SUBSET Resource /\ FALSE \in BOOLEAN
    OBVIOUS
  <2>2. new \in McpObjects
    BY <1>3, <2>1 DEF McpObjects
  <2>3. new.subs = {}
    OBVIOUS
  <2> QED
    BY <2>2, <2>3, NoneNoObject
<1>5. objects \in [McpId -> McpObjects \cup {None}] /\ objects[p] = new /\ \A q \in McpId : q # p => objects[q] = obj[q]
  BY <1>4 DEF PTypes
<1>6. /\ told \in [McpId -> McpClients] /\ \A q \in McpId : q # p => told[q] = client[q]
      /\ told[p].state = "hello" /\ told[p].subs = client[p].subs
  <2>1. client[p] \in McpClients
    BY DEF PTypes
  <2>2. heard \in McpClients /\ heard.state = "hello" /\ heard.subs = client[p].subs
    BY <2>1 DEF McpClients
  <2> HIDE DEF heard
  <2> QED
    BY <2>2 DEF PTypes
<1>7. client[p].subs = {}
  BY DEF Initialize, PTypes
<1>8. known \cup {p} \in SUBSET McpId
  BY DEF PTypes
<1>0. Persist(known \cup {p}, objects, told, <<p, "new">>)
  BY <1>2
<1> HIDE DEF new, objects, heard, told
<1>9. Change(p, known \cup {p}, objects, told, <<p, "new">>)
  BY <1>0, <1>4, <1>5, <1>6, <1>8 DEF Change
<1> QED
  BY <1>4, <1>5, <1>6, <1>7, <1>9

LEMMA InitializedChanges ==
  ASSUME PTypes, NEW p \in McpId, Initialized(p)
  PROVE  \E objects, told :
           /\ Change(p, known, objects, told, <<p, "ready">>)
           /\ objects[p] # None /\ objects[p].subs = obj[p].subs /\ objects[p].ready
           /\ told[p].state = "ready" /\ told[p].subs = client[p].subs
<1> DEFINE new == [obj[p] EXCEPT !.ready = TRUE]
           objects == [obj EXCEPT ![p] = new]
           heard == [client[p] EXCEPT !.state = "ready"]
           told == [client EXCEPT ![p] = heard]
<1>1. obj[p] \in McpObjects /\ client[p] \in McpClients /\ known \in SUBSET McpId
  BY DEF PTypes, Initialized
<1>2. new \in McpObjects /\ new.subs = obj[p].subs /\ new.ready /\ new # None
  BY <1>1, NoneNoObject DEF McpObjects
<1>3. heard \in McpClients /\ heard.state = "ready" /\ heard.subs = client[p].subs
  BY <1>1 DEF McpClients
<1>4. Persist(known, objects, told, <<p, "ready">>)
  BY DEF Initialized
<1> HIDE DEF new, heard
<1>5. objects \in [McpId -> McpObjects \cup {None}] /\ objects[p] = new /\ \A q \in McpId : q # p => objects[q] = obj[q]
  BY <1>2 DEF PTypes
<1>6. told \in [McpId -> McpClients] /\ told[p] = heard /\ \A q \in McpId : q # p => told[q] = client[q]
  BY <1>3 DEF PTypes
<1> HIDE DEF objects, told
<1>7. Change(p, known, objects, told, <<p, "ready">>)
  BY <1>1, <1>2, <1>3, <1>4, <1>5, <1>6 DEF Change
<1> QED
  BY <1>2, <1>3, <1>5, <1>6, <1>7

LEMMA EndSessionChanges ==
  ASSUME PTypes, NEW p \in McpId, EndSession(p)
  PROVE  \E told :
           /\ Change(p, known \ {p}, obj, told, <<p, "ended">>)
           /\ told[p].state = "ended"
<1> DEFINE heard == [state |-> "ended", subs |-> {}]
           told == [client EXCEPT ![p] = heard]
<1>1. known \ {p} \in SUBSET McpId /\ heard \in McpClients /\ heard.state = "ended"
  BY DEF PTypes, McpClients
<1>2. Persist(known \ {p}, obj, told, <<p, "ended">>)
  BY DEF EndSession
<1> HIDE DEF heard
<1>3. told \in [McpId -> McpClients] /\ told[p] = heard /\ \A q \in McpId : q # p => told[q] = client[q]
  BY <1>1 DEF PTypes
<1> HIDE DEF told
<1>4. Change(p, known \ {p}, obj, told, <<p, "ended">>)
  BY <1>1, <1>2, <1>3 DEF Change, PTypes
<1> QED
  BY <1>1, <1>3, <1>4

LEMMA SubscribeChanges ==
  ASSUME PTypes, NEW p \in McpId, NEW u \in Resource, Subscribe(p, u)
  PROVE  \/ \E objects, told :
              /\ Change(p, known, objects, told, <<p, u>>)
              /\ objects[p] # None /\ objects[p].subs = obj[p].subs \cup {u} /\ objects[p].ready = obj[p].ready
              /\ told[p].state = "ready" /\ told[p].subs = client[p].subs \cup {u}
         \/ /\ u \in obj[p].subs /\ UNCHANGED <<setup, known, obj, saved, dropped, unsaved>>
            /\ client' \in [McpId -> McpClients] /\ \A q \in McpId : q # p => client'[q] = client[q]
            /\ client'[p].state = "ready" /\ client'[p].subs = client[p].subs \cup {u}
<1> DEFINE new == [obj[p] EXCEPT !.subs = obj[p].subs \cup {u}]
           objects == [obj EXCEPT ![p] = new]
           heard == [client[p] EXCEPT !.subs = client[p].subs \cup {u}]
           told == [client EXCEPT ![p] = heard]
<1>1. obj[p] \in McpObjects /\ client[p] \in McpClients /\ client[p].state = "ready" /\ known \in SUBSET McpId
  BY DEF PTypes, Subscribe, MayAsk
<1>2. new \in McpObjects /\ new.subs = obj[p].subs \cup {u} /\ new.ready = obj[p].ready /\ new # None
  BY <1>1, NoneNoObject DEF McpObjects
<1>3. heard \in McpClients /\ heard.state = "ready" /\ heard.subs = client[p].subs \cup {u}
  BY <1>1 DEF McpClients
<1>4. \/ Persist(known, objects, told, <<p, u>>)
      \/ u \in obj[p].subs /\ client' = told /\ UNCHANGED <<setup, known, obj, saved, dropped, unsaved>>
  BY DEF Subscribe, Subscribed
<1> HIDE DEF new, heard
<1>5. objects \in [McpId -> McpObjects \cup {None}] /\ objects[p] = new /\ \A q \in McpId : q # p => objects[q] = obj[q]
  BY <1>2 DEF PTypes
<1>6. told \in [McpId -> McpClients] /\ told[p] = heard /\ \A q \in McpId : q # p => told[q] = client[q]
  BY <1>3 DEF PTypes
<1> HIDE DEF objects, told
<1>7. CASE Persist(known, objects, told, <<p, u>>)
  <2>1. Change(p, known, objects, told, <<p, u>>)
    BY <1>1, <1>2, <1>3, <1>5, <1>6, <1>7 DEF Change
  <2> QED
    BY <1>2, <1>3, <1>5, <1>6, <2>1
<1>8. CASE u \in obj[p].subs /\ client' = told /\ UNCHANGED <<setup, known, obj, saved, dropped, unsaved>>
  BY <1>3, <1>6, <1>8
<1> QED
  BY <1>4, <1>7, <1>8

LEMMA UnsubscribeChanges ==
  ASSUME PTypes, NEW p \in McpId, NEW u \in Resource, Unsubscribe(p, u)
  PROVE  \E objects, told :
           /\ Change(p, known, objects, told, <<p, u>>)
           /\ objects[p] # None /\ objects[p].subs = obj[p].subs \ {u} /\ objects[p].ready = obj[p].ready
           /\ told[p].state = "ready" /\ told[p].subs = client[p].subs \ {u}
<1> DEFINE new == [obj[p] EXCEPT !.subs = obj[p].subs \ {u}]
           objects == [obj EXCEPT ![p] = new]
           heard == [client[p] EXCEPT !.subs = client[p].subs \ {u}]
           told == [client EXCEPT ![p] = heard]
<1>1. obj[p] \in McpObjects /\ client[p] \in McpClients /\ client[p].state = "ready" /\ known \in SUBSET McpId
  BY DEF PTypes, Unsubscribe, MayAsk
<1>2. new \in McpObjects /\ new.subs = obj[p].subs \ {u} /\ new.ready = obj[p].ready /\ new # None
  BY <1>1, NoneNoObject DEF McpObjects
<1>3. heard \in McpClients /\ heard.state = "ready" /\ heard.subs = client[p].subs \ {u}
  BY <1>1 DEF McpClients
<1>4. Persist(known, objects, told, <<p, u>>)
  BY DEF Unsubscribe
<1> HIDE DEF new, heard
<1>5. objects \in [McpId -> McpObjects \cup {None}] /\ objects[p] = new /\ \A q \in McpId : q # p => objects[q] = obj[q]
  BY <1>2 DEF PTypes
<1>6. told \in [McpId -> McpClients] /\ told[p] = heard /\ \A q \in McpId : q # p => told[q] = client[q]
  BY <1>3 DEF PTypes
<1> HIDE DEF objects, told
<1>7. Change(p, known, objects, told, <<p, u>>)
  BY <1>1, <1>2, <1>3, <1>4, <1>5, <1>6 DEF Change
<1> QED
  BY <1>2, <1>3, <1>5, <1>6, <1>7

LEMMA PTypesKept == PTypes /\ [PNext]_pvars => PTypes'
<1> SUFFICES ASSUME PTypes, [PNext]_pvars PROVE PTypes'
  OBVIOUS
<1> DEFINE Sessions(p) == \E ids, objects, told, change : Change(p, ids, objects, told, change)
<1>0. setup' \in [stored : BOOLEAN, fails : Nat, starts : Nat]
  BY SetupKept
<1>1. ASSUME NEW p \in McpId, Sessions(p) PROVE PTypes'
  BY <1>0, <1>1, PersistTypes DEF PTypes
<1>2. ASSUME NEW p \in McpId, Initialize(p) PROVE PTypes'
  BY <1>1, <1>2, InitializeChanges DEF Initialize, PTypes
<1>3. ASSUME NEW p \in McpId, Initialized(p) PROVE PTypes'
  BY <1>1, <1>3, InitializedChanges DEF Initialized, PTypes
<1>4. ASSUME NEW p \in McpId, EndSession(p) PROVE PTypes'
  BY <1>1, <1>4, EndSessionChanges DEF EndSession, PTypes
<1>5. ASSUME NEW p \in McpId, NEW u \in Resource, Subscribe(p, u) PROVE PTypes'
  <2>1. CASE \E objects, told : Change(p, known, objects, told, <<p, u>>)
    BY <1>1, <2>1
  <2>2. CASE /\ u \in obj[p].subs /\ UNCHANGED <<setup, known, obj, saved, dropped, unsaved>>
             /\ client' \in [McpId -> McpClients] /\ \A q \in McpId : q # p => client'[q] = client[q]
             /\ client'[p].state = "ready" /\ client'[p].subs = client[p].subs \cup {u}
    BY <1>0, <2>2 DEF PTypes
  <2> QED
    BY <1>5, <2>1, <2>2, SubscribeChanges
<1>6. ASSUME NEW p \in McpId, NEW u \in Resource, Unsubscribe(p, u) PROVE PTypes'
  BY <1>1, <1>6, UnsubscribeChanges
<1>7. CASE Browse
  BY <1>0, <1>7 DEF Browse, PTypes
<1>8. CASE RestartMcp
  BY <1>0, <1>8 DEF RestartMcp, PTypes
<1>9. CASE UNCHANGED pvars
  BY <1>9 DEF pvars, PTypes
<1> QED
  BY <1>2, <1>3, <1>4, <1>5, <1>6, <1>7, <1>8, <1>9 DEF PNext

LEMMA ConfirmedKept == PTypes /\ Confirmed /\ [PNext]_pvars => Confirmed'
<1> SUFFICES ASSUME PTypes, Confirmed, [PNext]_pvars PROVE Confirmed'
  OBVIOUS
<1> DEFINE Held == UNCHANGED <<setup, known, obj, saved, client, dropped, unsaved>>
<1>0. \A p \in McpId : setup.stored => ConfirmedOf(p)
  BY DEF Confirmed, ConfirmedOf
<1>1. Held => Confirmed'
  BY DEF Confirmed, Lasting
<1>2. ASSUME NEW p \in McpId, Initialize(p) PROVE Confirmed'
  <2>1. PICK objects, told :
           /\ Change(p, known \cup {p}, objects, told, <<p, "new">>)
           /\ objects[p] # None /\ objects[p].subs = {} /\ told[p].state = "hello" /\ told[p].subs = {}
    BY <1>2, InitializeChanges
  <2>2. client[p].state = "none"
    BY <1>2 DEF Initialize
  <2> QED
    BY <2>1, <2>2, PersistConfirms DEF Lasting
<1>3. ASSUME NEW p \in McpId, Initialized(p) PROVE Confirmed'
  <2>1. PICK objects, told :
           /\ Change(p, known, objects, told, <<p, "ready">>)
           /\ objects[p] # None /\ objects[p].subs = obj[p].subs /\ objects[p].ready
           /\ told[p].state = "ready" /\ told[p].subs = client[p].subs
    BY <1>3, InitializedChanges
  <2>2. p \in known /\ client[p].state # "none" /\ obj[p] # None
    BY <1>3 DEF Initialized, PTypes
  <2>3. setup.stored => client[p].state \in {"hello", "ready"}
    BY <1>0, <2>2 DEF ConfirmedOf, PTypes, McpClients
  <2>4. setup.stored /\ <<p, "ended">> \notin unsaved /\ p \notin dropped =>
          \A u \in client[p].subs : <<p, u>> \in unsaved \/ u \in obj[p].subs
    BY <1>0, <2>3 DEF ConfirmedOf, Lasting
  <2> QED
    BY <1>0, <2>1, <2>2, <2>3, <2>4, PersistConfirms DEF Lasting
<1>4. ASSUME NEW p \in McpId, EndSession(p) PROVE Confirmed'
  <2>1. PICK told : Change(p, known \ {p}, obj, told, <<p, "ended">>) /\ told[p].state = "ended"
    BY <1>4, EndSessionChanges
  <2> QED
    BY <2>1, PersistConfirms
<1>5. CASE Browse
  BY <1>1, <1>5 DEF Browse
<1>6. ASSUME NEW p \in McpId, NEW u \in Resource, Subscribe(p, u) PROVE Confirmed'
  <2>0. p \in known /\ client[p].state = "ready" /\ obj[p].ready /\ obj[p] # None
    BY <1>6 DEF Subscribe, MayAsk, PTypes
  <2>1. setup.stored /\ <<p, "ended">> \notin unsaved /\ p \notin dropped =>
          Lasting(p) /\ \A v \in client[p].subs : <<p, v>> \in unsaved \/ v \in obj[p].subs
    BY <1>0, <2>0 DEF ConfirmedOf, Lasting
  <2>2. ASSUME NEW objects, NEW told, Change(p, known, objects, told, <<p, u>>),
               objects[p] # None, objects[p].subs = obj[p].subs \cup {u}, objects[p].ready = obj[p].ready,
               told[p].state = "ready", told[p].subs = client[p].subs \cup {u}
        PROVE  Confirmed'
    <3>1. setup.stored /\ <<p, "ended">> \notin unsaved /\ p \notin dropped =>
            \A v \in told[p].subs : <<p, v>> \in unsaved \/ v \in objects[p].subs
      BY <2>1, <2>2
    <3>2. setup.stored /\ Lasting(p) =>
            \A v \in client[p].subs : <<p, v>> \in unsaved \cup {<<p, u>>} \/ v \in objects[p].subs
      BY <2>1, <2>2 DEF Lasting
    <3> QED
      BY <2>0, <2>2, <3>1, <3>2, PersistConfirms
  <2>3. CASE /\ u \in obj[p].subs /\ UNCHANGED <<setup, known, obj, saved, dropped, unsaved>>
             /\ client' \in [McpId -> McpClients] /\ \A q \in McpId : q # p => client'[q] = client[q]
             /\ client'[p].state = "ready" /\ client'[p].subs = client[p].subs \cup {u}
    <3>1. ASSUME setup.stored, NEW q \in McpId PROVE ConfirmedOf(q)'
      <4>1. ConfirmedOf(q)
        BY <1>0, <3>1
      <4>2. CASE q # p
        BY <2>3, <4>1, <4>2 DEF ConfirmedOf, Lasting
      <4>3. CASE q = p
        BY <2>0, <2>3, <4>1, <4>3 DEF ConfirmedOf, Lasting
      <4> QED
        BY <4>2, <4>3
    <3> QED
      BY <2>3, <3>1 DEF Confirmed, ConfirmedOf
  <2> QED
    BY <1>6, <2>2, <2>3, SubscribeChanges
<1>7. ASSUME NEW p \in McpId, NEW u \in Resource, Unsubscribe(p, u) PROVE Confirmed'
  <2>0. p \in known /\ client[p].state = "ready" /\ obj[p].ready /\ obj[p] # None
    BY <1>7 DEF Unsubscribe, MayAsk, PTypes
  <2>1. setup.stored /\ <<p, "ended">> \notin unsaved /\ p \notin dropped =>
          Lasting(p) /\ \A v \in client[p].subs : <<p, v>> \in unsaved \/ v \in obj[p].subs
    BY <1>0, <2>0 DEF ConfirmedOf, Lasting
  <2>2. PICK objects, told :
           /\ Change(p, known, objects, told, <<p, u>>)
           /\ objects[p] # None /\ objects[p].subs = obj[p].subs \ {u} /\ objects[p].ready = obj[p].ready
           /\ told[p].state = "ready" /\ told[p].subs = client[p].subs \ {u}
    BY <1>7, UnsubscribeChanges
  <2>3. Lasting(p) => <<p, "ended">> \notin unsaved /\ p \notin dropped
    BY DEF Lasting
  <2>4. setup.stored /\ Lasting(p) => \A v \in client[p].subs : <<p, v>> \in unsaved \cup {<<p, u>>} \/ v \in objects[p].subs
    BY <2>1, <2>2, <2>3
  <2> QED
    BY <2>0, <2>1, <2>2, <2>4, PersistConfirms
<1>8. CASE RestartMcp
  <2>1. setup'.stored = setup.stored /\ UNCHANGED <<saved, client, dropped, unsaved>>
        /\ obj' = saved /\ \A p \in McpId : p \in known' <=> saved[p] # None
    BY <1>8 DEF RestartMcp, PTypes
  <2>2. ASSUME setup.stored, NEW p \in McpId PROVE ConfirmedOf(p)'
    <3>1. ConfirmedOf(p)
      BY <1>0, <2>2
    <3> QED
      BY <2>1, <3>1 DEF ConfirmedOf, Lasting
  <2> QED
    BY <2>1, <2>2 DEF Confirmed, ConfirmedOf
<1>9. CASE UNCHANGED pvars
  BY <1>1, <1>9 DEF pvars
<1> QED
  BY <1>2, <1>3, <1>4, <1>5, <1>6, <1>7, <1>8, <1>9 DEF PNext

LEMMA PInitInv == PInit => PInv
<1> SUFFICES ASSUME PInit PROVE PInv
  OBVIOUS
<1>1. Stranger \in McpClients /\ Stranger.state = "none" /\ Stranger.subs = {}
  BY DEF Stranger, McpClients
<1>2. PTypes
  BY <1>1, McpAssumption DEF PInit, PTypes, Nothing
<1>3. Confirmed
  BY <1>1 DEF PInit, Nothing, Confirmed, Lasting
<1> QED
  BY <1>2, <1>3 DEF PInv

LEMMA PInvariant == PSpec => []PInv
<1>1. PInv /\ [PNext]_pvars => PInv'
  BY PTypesKept, ConfirmedKept DEF PInv
<1> QED
  BY <1>1, PInitInv, PTL DEF PSpec

\* However requests, failing saves and restarts fall together, a session that a client was told of
\* is in the store as it was confirmed, and one that was ended is not, unless it was dropped for the
\* limit or a save of just this failed (McpHttpTransport._persist_sessions, _load_sessions).
THEOREM SessionsLast == PSpec => []DurableSessions
<1>1. PInv => DurableSessions
  <2> SUFFICES ASSUME PInv, setup.stored, NEW p \in McpId \ dropped
               PROVE LET c == client[p] IN
                     /\ (c.state \in {"hello", "ready"} /\ <<p, "ended">> \notin unsaved) =>
                          /\ saved[p] # None
                          /\ c.state = "ready" => saved[p].ready
                          /\ \A u \in c.subs : u \in saved[p].subs \/ <<p, u>> \in unsaved
                     /\ c.state = "ended" => saved[p] = None
    BY DEF DurableSessions
  <2> QED
    BY DEF PInv, Confirmed, Lasting
<1> QED
  BY <1>1, PInvariant, PTL
=============================================================================
