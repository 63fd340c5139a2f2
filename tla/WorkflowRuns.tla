---------------------------- MODULE WorkflowRuns ----------------------------
(***************************************************************************)
(* WorkflowEngine.run: the steps of one workflow, in dependency order, one *)
(* at a time, each with retries and a timeout, the run saved to its file   *)
(* on the way.                                                             *)
(*                                                                         *)
(* The engine waits only for a handler and for a backoff; a cancellation   *)
(* or the end of the process meets it there.                               *)
(***************************************************************************)
EXTENDS Naturals, Sequences, ServiceValues

CONSTANTS Plan,     \* the workflows: [order, needs, known, retries]: the steps as they are
                    \* listed, what each depends on, the steps whose action has a handler,
                    \* and retry_max
          MaxLosses \* bound of the cancellations and restarts

ASSUME WorkflowAssumption ==
  /\ MaxLosses \in Nat
  /\ \A p \in Plan : p.order \in Seq(DOMAIN p.needs) /\ None \notin DOMAIN p.needs

VARIABLES plan,
          flow,     \* the run in memory: [pc, status, steps, step, attempt, final]
          disk,     \* <run_id>.json: [status, steps, final], or None
          losses,
          calls,    \* history: how often the handler of a step was called
          effects   \* history: steps whose handler did its work to the end

fvars == <<plan, flow, disk, losses, calls, effects>>

Steps == {plan.order[i] : i \in DOMAIN plan.order}
Written == [status |-> flow'.status, steps |-> flow'.steps, final |-> flow'.final]
Settled == {"completed", "failed"}

FInit ==
  /\ plan \in Plan
  /\ flow = [pc |-> "idle", status |-> "pending", steps |-> [s \in Steps |-> "pending"],
             step |-> None, attempt |-> 0, final |-> FALSE]
  /\ disk = None /\ losses = 0
  /\ calls = [s \in Steps |-> 0] /\ effects = {}

\* run: the record is saved before anything is done.
StartFlow ==
  /\ flow.pc = "idle"
  /\ flow' = [flow EXCEPT !.pc = "choose", !.status = "running"]
  /\ disk' = Written
  /\ UNCHANGED <<plan, losses, calls, effects>>

-----------------------------------------------------------------------------
(* _execute.                                                               *)

HasFailed(statuses, s) == \E d \in plan.needs[s] : d \in Steps /\ statuses[d] = "failed"

IsReady(statuses, s) == \A d \in plan.needs[s] : d \in Steps /\ statuses[d] = "completed"

\* One turn of the for loop: a step with a failed dependency fails, a ready one is next.
Consider(look, s) ==
  IF look.next # None \/ look.steps[s] \in Settled THEN look
  ELSE IF HasFailed(look.steps, s) THEN [look EXCEPT !.steps[s] = "failed", !.moved = TRUE]
  ELSE IF IsReady(look.steps, s) THEN [look EXCEPT !.next = s, !.moved = TRUE]
  ELSE look

\* One pass of it, until a step is ready.
Looked[i \in 0 .. Len(plan.order)] ==
  IF i = 0 THEN [steps |-> flow.steps, next |-> None, moved |-> FALSE]
  ELSE Consider(Looked[i - 1], plan.order[i])
Scan == Looked[Len(plan.order)]

AllSettled(statuses) == \A s \in Steps : statuses[s] \in Settled

\* A ready step that has a handler begins: it is saved as running and its handler is called.
BeginStep ==
  /\ flow.pc = "choose" /\ ~AllSettled(flow.steps)
  /\ Scan.next # None /\ Scan.next \in plan.known
  /\ flow' = [flow EXCEPT !.pc = "handler", !.step = Scan.next, !.attempt = 0,
                          !.steps = [Scan.steps EXCEPT ![Scan.next] = "running"]]
  /\ calls' = [calls EXCEPT ![Scan.next] = @ + 1]
  /\ disk' = Written
  /\ UNCHANGED <<plan, losses, effects>>

\* One without a handler is saved as running, raises, and is failed in memory.
NoHandler ==
  /\ flow.pc = "choose" /\ ~AllSettled(flow.steps)
  /\ Scan.next # None /\ Scan.next \notin plan.known
  /\ flow' = [flow EXCEPT !.steps = [Scan.steps EXCEPT ![Scan.next] = "failed"]]
  /\ disk' = [status |-> "running", steps |-> [Scan.steps EXCEPT ![Scan.next] = "running"],
              final |-> FALSE]
  /\ UNCHANGED <<plan, losses, calls, effects>>

\* A pass that runs no step: dependencies failed, or nothing moved and the rest is given up.
Propagate ==
  /\ flow.pc = "choose" /\ ~AllSettled(flow.steps)
  /\ Scan.next = None
  /\ flow' = [flow EXCEPT !.steps =
                IF Scan.moved THEN Scan.steps
                ELSE [s \in Steps |-> IF flow.steps[s] \in Settled THEN flow.steps[s] ELSE "failed"]]
  /\ UNCHANGED <<plan, disk, losses, calls, effects>>

\* Mutant: a run in which some step was completed is completed.
EndLenient ==
  /\ flow.pc = "choose" /\ AllSettled(flow.steps)
  /\ flow' = [flow EXCEPT !.pc = "returned", !.final = TRUE,
                          !.status = IF \A s \in Steps : flow.steps[s] = "failed"
                                     THEN "failed" ELSE "completed"]
  /\ disk' = Written
  /\ UNCHANGED <<plan, losses, calls, effects>>

\* The end of _execute, and of run: completed if no step failed; saved with the end.
EndFlow ==
  /\ flow.pc = "choose" /\ AllSettled(flow.steps)
  /\ flow' = [flow EXCEPT !.pc = "returned", !.final = TRUE,
                          !.status = IF \E s \in Steps : flow.steps[s] = "failed"
                                     THEN "failed" ELSE "completed"]
  /\ disk' = Written
  /\ UNCHANGED <<plan, losses, calls, effects>>

-----------------------------------------------------------------------------
(* _run_step.                                                              *)

\* The handler returns in time: the result goes to the context, and to the file.
StepDone ==
  /\ flow.pc = "handler"
  /\ effects' = effects \cup {flow.step}
  /\ flow' = [flow EXCEPT !.pc = "choose", !.steps[flow.step] = "completed"]
  /\ disk' = Written
  /\ UNCHANGED <<plan, losses, calls>>

\* It raises, or is cancelled by the timeout, which may come after its work was done.
StepRaised ==
  /\ flow.pc = "handler"
  /\ \/ UNCHANGED effects
     \/ effects' = effects \cup {flow.step}
  /\ flow' = IF flow.attempt < plan.retries
             THEN [flow EXCEPT !.pc = "backoff"]
             ELSE [flow EXCEPT !.pc = "choose", !.steps[flow.step] = "failed"]
  /\ UNCHANGED <<plan, disk, losses, calls>>

\* After the backoff the handler is called again.
Retry ==
  /\ flow.pc = "backoff"
  /\ flow' = [flow EXCEPT !.pc = "handler", !.attempt = @ + 1]
  /\ calls' = [calls EXCEPT ![flow.step] = @ + 1]
  /\ UNCHANGED <<plan, disk, losses, effects>>

\* A cancellation is no Exception: only the finally clause runs, and saves the run as it is.
CancelFlow ==
  /\ flow.pc \in {"handler", "backoff"} /\ losses < MaxLosses
  /\ losses' = losses + 1
  /\ flow' = [flow EXCEPT !.pc = "returned", !.final = TRUE]
  /\ disk' = Written
  /\ UNCHANGED <<plan, calls, effects>>

\* The process ends; nothing takes the run up again, its file stays as it is.
CrashFlow ==
  /\ flow.pc \in {"choose", "handler", "backoff"} /\ losses < MaxLosses
  /\ losses' = losses + 1
  /\ flow' = [flow EXCEPT !.pc = "gone"]
  /\ UNCHANGED <<plan, disk, calls, effects>>

FNext ==
  \/ StartFlow \/ BeginStep \/ NoHandler \/ Propagate \/ EndFlow
  \/ StepDone \/ StepRaised \/ Retry
  \/ CancelFlow \/ CrashFlow

FSpec == FInit /\ [][FNext]_fvars

-----------------------------------------------------------------------------

\* What the file of a run says is so, whenever the process ends or the run is cancelled: a
\* step is completed there only after its handler did its work and its dependencies are
\* completed there too; nothing depends on a step that failed and was run; a run that is
\* completed has completed all its steps, and one that failed has settled all of them and has
\* one that failed; only a run that was cut off stays "running" once it has ended.
FlowFileTruthful ==
  disk # None =>
    /\ \A s \in Steps :
         /\ disk.steps[s] = "completed" => /\ s \in effects
                                           /\ \A d \in plan.needs[s] : disk.steps[d] = "completed"
         /\ disk.steps[s] = "pending" => calls[s] = 0
    /\ disk.status = "completed" => \A s \in Steps : disk.steps[s] = "completed"
    /\ disk.status = "failed" => /\ AllSettled(disk.steps)
                                 /\ \E s \in Steps : disk.steps[s] = "failed"
    /\ (disk.final /\ losses = 0) => disk.status \in Settled
=============================================================================
