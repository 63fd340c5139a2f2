# A verification project for Baybayin Language and its auto-browser controller

The repository holds two programs.

1. **Baybayin Language (BBL)**: a small contract language. `compiler/` turns a
   program into a syntax tree, checks names and types, and emits bytecode (or
   Python, JavaScript, Solidity); `runtime/vm/bbvm.py` runs the bytecode;
   `cli/`, `web/`, `api/` and `ai/` are front ends.
2. **auto-browser** (`auto-browser/controller`): a server that lets agents
   drive browser sessions. Its core logic is in asynchronous Python: a durable
   job queue, approvals, rate limits, hash-chained logs, cron jobs, sessions.

The project models the parts with a logic of their own that is hard to test. Of
the language these are the front end (parser, analyzer), the compiler and the
machine, where a wrong jump or an unbalanced stack shows up far from its cause.
Of the controller these are its job queue and thirteen services, where clients,
workers, cancellations, threads, failures and restarts interleave.

## Inventory

| Component | State | Operations | Interacts with | Hard behaviour | What makes it correct |
|---|---|---|---|---|---|
| Lexer, parser (`compiler/lexer.py`, `parser.py`) | position in the tokens | one rule per precedence | compiler | optional semicolons and parentheses, grouping | the tree is the one the text was written from |
| Semantic analyzer (`compiler/semantic.py`) | scope stack, contracts | declare, lookup, type rules | syntax tree | it judges apart from the machine | what it accepts runs to its end, what it resolves is what runs |
| Bytecode compiler (`compiler/vm_compiler.py`) | instruction list, fields of the contract | one visitor per node | syntax tree, BBVM | patched absolute jumps, implicit `self`, the last return | its code means what the source means and keeps the stack |
| BBVM (`runtime/vm/bbvm.py`) | frames, globals, objects, output | one opcode per turn of `execute` | bytecode of the compiler or a `.bbv` file | calls across frames, constructors, shared objects, exceptions | types, no underflow for compiled code |
| Agent job queue (`app/agent_jobs.py`) | a file per job, bounded queue, tasks | enqueue, resume, discard, cancel, startup, shutdown | orchestrator, REST, MCP, cron | cancellation at every await, threads that outlive their task, restart, full queue | no job lost, none executed twice, every job ends |
| Orchestrator, providers (`orchestrator.py`, `providers/`, codex host bridge) | steps of a run, threads of the bridge | step, run, HTTP, CLI and bridge calls | page, approvals, logs, jobs | retries, loop guard, an action that fails after it was done | the steps tell what happened to the page |
| Approvals, actions (`approvals.py`, `browser/services/actions.py`, `actions/pipeline.py`) | approval records, context of the session, receipts | create or reuse, decide, require, execute, mark | orchestrator, gateway, page, Witness | checked before, marked after; verdicts, expiry, cancelled writes meanwhile | nothing risky without a grant of just that |
| Tool gateway (`tool_gateway/`) | none of its own | list, call | approvals, every service | several calls on one approval | governed calls are approved and answered once |
| Rate limiter (`rate_limits.py`, `middleware/http.py`) | times per client | evaluate | every request | window, eviction at capacity | never more than the limit, honest retry time |
| Witness and audit (`witness.py`, `audit.py`) | chained lines, heads; file and table of events | append, verify, trim, list | every action | cancelled append, restart, lost counts | the chain verifies, the newest events are listed |
| Cron (`cron_service.py`) | job file, scheduler | create, update, delete, run | sessions, job queue | partial failure of a run, failing reads | counts, the scheduler agrees with the file |
| Sessions (`browser_manager.py`, `sessions.py`, `session_isolation.py`, `session_tunnel.py`, `takeover.py`) | live sessions, containers, tunnels, ports, records | create, close, takeover, shadow, shutdown, startup | Docker, ssh, store | each of many awaits may fail or be cancelled | nothing left without a session, true records, the limit |
| Saved logins (`auth_profiles.py`, `auth_state.py`) | state files in the clear or encrypted | save, load, fork, shadow browse, export, import | sessions, Witness | shared temporary files, changed keys, ageing, copies | no login under another's name, confidential ones sealed |
| Network inspector (`network_inspector.py`) | pending and logged requests | handlers of page events, detach | page | handlers that wait while entries move | the log tells how each request ended |
| Mesh (`mesh/delegation.py`, `policy.py`, `peers.py`) | peers, nonces, budgets | delegate, receive | tool gateway, approvals | copies, late envelopes, restarts | once, within the grant, an honest answer |
| Workflows (`workflow/engine.py`) | run and its file | run, cancel | handlers | retries, timeouts, cut-offs | the file is true |
| Harness (`harness/`) | runs, traces, staged candidates, drift | attempt, verify, stage, check | orchestrator, verifiers | crash between saves and between the staged files, runs that share a directory | a candidate is earned, a healthy one of one run |
| MCP transport (`mcp_transport.py`, `events.py`) | sessions, subscriptions, streams | initialize, subscribe, stream, delete | gateway, event bus | failing saves, eviction, full queues | what was confirmed survives |
| Transpilers, command line, playground, AI agents, routes, settings | none that survives a call | | | | not modelled, see below |

## Plan

The order of work was: values and machine, the compiler and its reference
meaning, stack certificates and the proofs about the machine; the job queue and
its abstract specification; approvals, logs and limits; sessions, cron, mesh,
workflows, harness, MCP; the front end; agent steps, tool calls, saved logins,
the network log.

The proofs followed the same order: the machine and its stacks, the job queue,
then the services, from the approvals on.

What would come next: abstract specifications of the other services, with a
refinement as `AgentJobs` and `ApprovedActions` have one; a session of several
actors composed from `ApprovedActions`, `ToolCalls` and `BrowserSessions`; the
transpilers, once there is a meaning of their output to compare with.

## Modules

| Module | Models | Remarks |
|---|---|---|
| `BBLValues` | Python values on the stack, `+ - * //`, comparisons, truth, `str` | A text is the sequence of the pieces it was put together from; the order of two different texts is left open (both outcomes) |
| `BBVM` | `BBVM.execute` | one action per opcode (arithmetic is one action), `EndOfFrame`, `NoFrames` for the loop's own exits, `Raise` for every exception |
| `StackHeights` | when bytecode keeps its operand stacks | a certificate is a height per instruction; the machine does not read it |
| `BBLSyntax` | node classes of `compiler/ast.py` | records with a `kind` |
| `BBLParser` | `Lexer.tokenize` over lexemes, `Parser` | a rule takes a position and gives a node and a position |
| `BBLText` | how a tree is written down | the reference for the parser, from precedence alone |
| `BBLTypes` | `SemanticAnalyzer`: which programs are accepted | an error is a type |
| `VMCompiler` | `BBLVMCompiler` | recursive operators over the tree; jump targets computed from the position of the code instead of patched |
| `BBLMeaning` | what a program means, with the scopes of `SemanticAnalyzer.lookup` | big-step evaluator without instructions; the reference for the compiler |
| `JobLifecycle` | what the queue promises of a job: worked on at most once | abstract |
| `AgentJobs` | `AgentJobStore` and `AgentJobQueue` | one action per stretch of code between two awaits |
| `AgentSteps` | a step or run of the orchestrator, the three transports of the providers, the host bridge | the page is the list of what was done to it |
| `ApprovedActions` | approvals and the action pipeline of one session | store operations in two steps, under the store's lock; a cancelled request leaves its thread |
| `ApprovalLife` | what the approval queue promises: who acts was let in with a grant for just that, a spent approval is spent | abstract |
| `ToolCalls` | the tool gateway, its profiles and governed calls | store operations in one step |
| `RequestLimits` | middlewares and the limiter | an evaluation is one step: it awaits nothing under its lock |
| `ReceiptLogs` | one Witness scope, the audit file and table | a cancelled append leaves its thread |
| `CronJobs` | the cron service | sessions and queue are how many there are |
| `BrowserSessions` | sessions with containers, tunnels, ports, records | every await may fail where the code lets it, or be cancelled |
| `SavedLogins` | auth profiles and login states | a login is named after the session it was made in |
| `NetworkLog` | the network inspector | a listener starts a task; tasks run in their order |
| `MeshDelegation` | both ends of a delegation | envelopes late, copied, lost; restarts |
| `WorkflowRuns` | one workflow run | a step's handler and backoff are where it waits |
| `HarnessRuns` | convergence runs of one contract, verifiers, staging, drift | one action a staged file; between them only a crash cuts in |
| `McpSessions` | MCP sessions, their store, handshake, subscriptions | a request is one step |
| `ServiceValues` | `None` | shared by the services |
| `BBLValues_proofs`, `BBVM_proofs`, `StackHeights_proofs` | theorems about the machine | see Proofs |
| `AgentJobs_proofs` | theorems about the job queue, its refinement of `JobLifecycle` | |
| `Governance_proofs` | theorems about `ApprovedActions`, `ReceiptLogs`, `RequestLimits`, the refinement of `ApprovalLife` | what stands before an action, and what is recorded of it |
| `Browsing_proofs` | theorems about `BrowserSessions`, `AgentSteps`, `NetworkLog` | what happens to a session and in it |
| `CallServices_proofs` | theorems about `MeshDelegation`, `ToolCalls`, `WorkflowRuns` | what is called |
| `RecordServices_proofs` | theorems about `CronJobs`, `SavedLogins`, `HarnessRuns`, `McpSessions` | what is kept in files |
| `MC*` | instances for TLC | program families, bytecode families, requests |

### BBVM

`frames` is `self.frames`; a frame is a record with the unit whose code it runs
(main, function or method) in place of the instruction list. Objects live in
`heap`, a reference is its index. `prog` and `image` say which bytecode runs;
they never change. `status` becomes `halted`, `returned` or `ended`, the three
ways the loop ends, or the exception. `Fault` gives the exception the next
instruction raises, in the order in which the code pops and tests. What an
instruction popped or created before it raised is not kept: `cmd_run` drops the
machine after an exception. Images are those of the compiler: the opcodes of
`instructions.py`, jumps within the code, distinct parameters
(`SemanticAnalyzer.declare` refuses others).

### The compiler

`base` replaces `current_index()`: a visit knows where its first instruction
goes, so a target is computed where the Python code patches it. The first
`visit_assign_stmt` of the class (lines 127 to 134) is shadowed by the second
and is not modelled. Fields with initializers other than literals become None,
as in the code.

### AgentJobs

`record` is the directory of job files: it survives a crash, everything else
does not. `task[j].pc` names the await `_process_job` is suspended in;
`request[c]` a handler between two awaits; `queue` is the `asyncio.Queue`.

* A store operation holds the lock from its read to its write, so it is one
  action. When the task that awaits it is cancelled, the lock is released but
  the thread of `asyncio.to_thread` runs on: it becomes a member of `strays`
  that reads and writes in two actions. If the task was still waiting for the
  lock no thread exists, so a cancellation may leave one or not (`Cut`).
* `task.cancel()` acts at once in the model. Two cancellations before the task
  runs again count as one in asyncio and are one action here followed by a
  second that the code also allows; the states between are the same.
* `create` and `put_nowait` have no await between them except the end of the
  file write; a crash there leaves the same disk as one before `Refuse` or one
  after the put, both of which are modelled.
* `performed` counts the steps of a job's result. After a checkpoint the loop guard
  may take over (`GuardTakesOver`): it adds a step to the result that `on_step` is
  not told of, so the result is `guarded` and has one step more than checkpoints.
* `done` stands for the last audit and for the worker's `finally`.
* `resume_job` reads its source and creates the child later; the client may ask
  for another number of steps, which nothing depends on and is left out.
* `Startup` marks and re-queues in one action: nobody else runs yet, and marking
  twice is the same as once. `FirstQueued` has the one sequence that holds the
  oldest queued jobs in order, as many as fit. If more jobs are queued on disk than
  the queue has places, the code waits in `put` for ever, which is `up =
  "starting"`.
* `Shutdown` comes when the HTTP server has answered its requests (the
  lifespan's end in `main.py`); `asyncio.run` waits for threads before the
  process ends, hence `Stopped`.
* Not modelled: errors of the file system or the audit log, unreadable job
  files, and two threads writing the same temporary file at the same moment.

### The front end

`BBLParser` starts from lexemes: which characters make a word or a mark is the
regular expressions' business. Position 0 stands for a `ParserError`, so every
rule that goes on from it ends there. `BBLText` writes a tree down by precedence
alone; it uses parentheses where the tree needs them, and keeps away from the two
places where the grammar is ambiguous (see Observations). `BBLTypes` gives the
verdict of the analyzer; its error is a type that no use accepts.

### The services

All service modules follow one pattern: a coroutine is a record with a `pc` that
names the await it is suspended in, an action is the code from one await to the
next, a lock is a variable with its holder, the files and tables are what a
restart keeps, and *history* variables (marked so at their declaration) are read
by properties only. What a browser, a model, Docker, ssh, a tool or a hosted
service answers is a choice. Each module's bounds are CONSTANTS.

* `ApprovedActions`: `mode` says how the session is used; `Submit`, `Direct` and
  `ExecuteApproval` are the three ways in; `Prepare`, `Execute`, `Block`,
  `WriteReceipt` are the pipeline under `session.lock`; `context` is
  `pending_witness_context`, which is set before that lock is taken. Where agent
  jobs are used (`mode.jobs`), a request may be cancelled at any await
  (`CancelRequest`): the locks go back and the finally runs, but a thread that
  writes the store goes on. A record it creates is `adrift` until it lands
  (`PendingLands`), a mark is of a request in `strays` (`MarkLands`); `cut` has the
  approvals that such a thread touches. One write of a record is one step (its
  temporary file and its replacement are not told apart), operators' handlers are
  not cancelled, and with the SQLite table behind the file a write that is cancelled
  at the file never reaches the table.
* `ToolCalls`: the way of a call is `CallTool` (profile), `LookUp`,
  `RequireApproval`, the handler, and `Settle` (marking, answering).
* `AgentSteps`: `turn` is the coroutine of a run; `deeds` is what the page got.
  A thread of the host bridge goes on when its client gave up (`codex`).
* `RequestLimits`: buckets are kept in the order of the OrderedDict; `Live` is
  what `_prune_bucket` leaves of a bucket, which takes times from its left end up
  to the first that is in the window.
* `ReceiptLogs`: `thread` and `orphan` are what worker threads still do after
  the coroutine that started them was cancelled. `list` is what a client gets.
* `CronJobs`: a run reads its job without the lock, makes its session, puts its
  job in the queue, then counts under the lock.
* `BrowserSessions`: one coroutine creates each session (`phase`), others close
  it (`closer`), request a human (`helper`). `StartContainer` covers a Docker call
  that raises after it made the container; `CancelCreate` is CancelledError at any
  await of create, which neither cleanup sees (the cron service's shutdown cancels
  creations). `Shutdown` takes the sessions of the map, `CloseNext` closes them one by
  one as `close` does and goes on when one fails, `Stopped` ends the process with what
  is left; a request is not under way then (the server has ended them). `allocated`
  and `dialed` are the broker's ports and processes; the metadata files of tunnels
  are left out. With `shared` in `trouble.may` the sessions share one browser node.
* `SavedLogins`: `dir` has for each place the plain and the sealed state, which
  of them is the last, and whose name `profile.json` tells; `half` is the
  temporary file; `process` counts restarts, each with its key setting. `Fork` and
  `ShadowBrowse` write the login to a file of their own in the clear (`bared`) and
  open a session from it, which after shadow browsing is never confidential.
* `NetworkLog`: `handlers` is the sequence of tasks that were started;
  `handle_response` waits for the body (`bodies`) while its entry moves on.
  `Bounded` is the deque's `maxlen`.
* `MeshDelegation`: `call` is the asking end, `hand` the asked one's coroutines;
  `seen` is the nonce cache, `permits` the uses of limited grants since the start
  and `spent` the numbers of those that the budget still counts.
* `WorkflowRuns`: `flow` is the run in memory, `disk` its file. Saving does not fail
  (in the code a save that raises after the handler succeeded lies inside the `try`
  of the handler, so the handler is called again). `Looked` is one
  pass of the for loop over the steps, turn by turn, until one is ready.
* `HarnessRuns`: an attempt yields a trace (`AgentTrace`, `MockTrace`), the
  verifier that was set up says what it may say of it (`Verdicts`), the verdicts
  in a row decide; the eight files of a converged run are staged one by one
  (`StageFile`), each of which a crash may cut short; `staged[i]` is the run whose
  file lies there. A check reads three of them (`ReadSkill`), or none (`ReadInVain`).
* `McpSessions`: `known` and `obj` are the table and its objects apart, `saved` is
  the store. Streams and the event bus are left out: what they promise of events is
  nothing (see Observations).

`MCServices` puts the services side by side: `focus` names the one a behaviour
is of, the others stay in an initial state. They share no state in the code but
through calls, and a call of another service is a choice of answers here. So the
state space is a sum, and one run checks all of them.

## Runs

| Run | Question | Bounds and why they are enough | Result |
|---|---|---|---|
| `compiled` | is a text parsed back, does the analyzer accept what is right, does compiled code do what the source means, with a certificate, to the end? | all pairs of fifteen statements (assignments, calls, methods, fields through `self`, aliases, recursion, nested branches and loops) in three shapes, 675 programs, and 26 with one of thirteen mistakes; expressions of every operator two deep; every visitor and opcode the compiler emits is reached | holds |
| `images` | what does the machine keep for any bytecode? | all main programs of four instructions from seventeen, with a well-formed function, one that runs off its end, or without HALT; exceptions of every kind are reached | holds |
| `returns` | "Ensure return is always emitted at the end of function" (`vm_compiler.py:77`) | one program | violated |
| `scopes` | does the innermost declaration win, as `lookup` says? | two programs | violated |
| `jobs` | no lost job, no double execution, implementation of `JobLifecycle` | two jobs (a parent and the child that resumes it, or two rivals for one place), two workers, one place in the queue, one stop at any moment | holds |
| `jobs_live` | is every queued job decided; does a running one end; do checkpoints follow steps? | two jobs of a step, one worker, room in the queue for both, one stop; or one job of up to three steps, two stops (`TwoOrLong`, an ACTION_CONSTRAINT that only rules out what nobody has to do: that clients ask for other jobs, resume one, or discard one of two that was taken; and the second stop of two jobs. No fairness is asked of any of these) | holds |
| `jobs_restart` | "startup marks that job `interrupted`" (`docs/llm-adapters.md:102`) | one job, one stop | violated |
| `jobs_cancel` | does a cancelled job stay cancelled (`tests/test_agent_jobs.py:203`)? | one job | violated |
| `jobs_full` | is every queued job decided, whatever the room? | two jobs, one place, one stop | violated |
| `services` | the properties of the thirteen services, below | below | holds |
| `sessions_limit` | "limits the node to one active session" (`docs/architecture.md:118`) | two creations on the shared browser node | violated |
| `receipts` | do the receipts verify end to end? | two coroutines, one cancelled append | violated |

Deadlock is not checked: a machine that halted and a controller that nobody asks
anything have stopped rightly.

What `services` shows, and on what:

| Service | Properties | Instance |
|---|---|---|
| approvals | `EffectsAreGranted`: no risky effect without a grant of just that kind and decision; `SpentForGood`: nobody takes up an executed approval, no verdict brings it back but over the mark of a cancelled request; `OnePendingEach`: a person is asked once, but for the questions of cancelled requests; `NoLeftoverContext` | two requests and an operator, two approvals, an expiry; requests at once or in a row, of one decision or two of one kind, uploads, a confidential session, cancellations |
| tools | `GovernedCalls`: what a governed call does was approved; an approval carries one success | every tool alone in both profiles; two clients or three calls on two approvals |
| steps | `LoopGuarded`: never the same fruitless action four times; `EffectsTold`: steps tell what the page got | runs of up to four steps, every transport, a retry, a cancellation |
| limits | `LimitsHonest`: the limit per window, and a retry time that is kept | limit 2, window 2, two buckets for four callers |
| logs | `ReceiptsKept`, `EventsKept`: the answer of `list` has the newest events, the file stays bounded | two writers, four receipts or four events, a crash, two cancellations |
| cron | `JobsKept`: counts and scheduler agree with the file | two jobs, one trigger, a restart, reads that fail |
| sessions | `ResourcesOwned`: no container and no port without a session; `RecordsTruthful` | two identifiers, one port, a closer and a helper, a crash or a shutdown, Docker errors, a cancelled creation; the shared browser node, with shadow browsing, a cancelled creation and a shutdown |
| logins | `ProfilesApart`: no login under another's name; `ConfidentialSealed`: a confidential login lies in no saved state in the clear, unless a session with it was forked or shadow-browsed | two sessions, two profiles, archives, ageing, a hosted Witness, a change of the key, a fork, shadow browsing |
| network | `NetworkSettled`: the log tells how each request ended | three requests, one of them not logged, one entry of room |
| mesh | `DelegatedOnce`: once per envelope and within the hourly grant; `AnswerTellsEffect` | two calls, two coroutines, two copies, an edit or a restart, a clock ahead |
| workflow | `FlowFileTruthful` | three steps with every dependency of two of them, one retry, a cut-off |
| harness | `CandidateEarned`: a candidate's last attempts passed and its trace fulfils the contract; `HealthySkill`: trace and candidate of a skill called healthy are of one run that converged, its other files, too, but for what a crash left | one run of four attempts, or two that share the directory, three verifiers, evidence an agent cannot give, a crash, a drift check |
| mcp | `DurableSessions`: what was confirmed is in the file | two clients, room for one, one failing save, a restart |

### What the violations show

* **returns**: in `tungkulin maliit(a: buo): buo { kung (a < 0) { ibalik 1 } }`
  the last instruction is the return of the branch, so none is added; with
  `a = 3` the branch jumps behind the code, the frame is dropped, the caller gets
  no value and its next pop fails. `NoUnderflow` holds of certified code; the
  certificate fails exactly for such functions.
* **scopes**: an inner `lalagyan x` overwrites the outer `x`, and a parameter
  named like a field reads the field.
* **jobs_restart**: a job that was being cancelled when the controller stopped
  keeps the status `cancelling`. It can be neither resumed nor discarded until it
  is cancelled once more.
* **jobs_cancel**: the trace has the thread of `append_checkpoint` write its copy
  of the record, still `cancelling`, over `cancelled`. The model has two more
  ways: `cancel_job` finding no task after its audit, and `_enqueue` refusing a
  job that was cancelled meanwhile.
* **jobs_full**: a crash with one job in the queue and one about to be refused
  leaves two queued files for one place, and `startup` waits for a worker that
  it creates only afterwards. With 100 places it takes 101 queued files: a full
  queue and a job its worker has taken but not yet started are enough.
* **sessions_limit**: `check_limit` looks at the map before the awaits of create,
  and the session enters the map after them. Two creations that overlap are both
  past the check; on the shared node two live sessions share one display.
* **receipts**: an append that is cancelled while its thread writes leaves a
  receipt nobody knows of; the next one is chained to the same predecessor.

### Fairness

`BBVM` has weak fairness of its next step: the interpreter loop is not paused by
anything. In `AgentJobs` the event loop runs what can run: weak fairness of the
handlers in progress, of each task, of the worker loop, of threads, and of
startup and the end of a shutdown. A step of the orchestrator ends because
provider requests and browser actions have timeouts (`config.py`,
`model_request_timeout_seconds` and `action_timeout_ms`). That the controller is
started again is an assumption on its supervisor. Clients owe nothing, and no
crash has to happen. The services state no fairness: their properties are about
what is safe, also when something never comes.

## Proofs

Proved with TLAPS for every value of the constants: every image; any number of
jobs, requests, workers and places in the queue; any number of clients,
operators, approvals, sessions, envelopes, runs, events and steps; any limit,
window and retry; any number of cancellations, failures and restarts.

| Module | Theorem | Property of every behaviour | What it says |
|---|---|---|---|
| `BBVM_proofs` | `TypeCorrect` | `TypeOK` | the machine keeps its types |
| `StackHeights_proofs` | `CertificateKept` | `CertificateHolds` | a certificate holds in every frame |
| | `NeverUnderflows` | `NoUnderflow` | certified code does not pop an empty stack |
| `AgentJobs_proofs` | `Types` | `TypeOK` | files and queue keep their types |
| | `NothingLost` | `NoLostJob` | a queued job is in one place |
| | `RunningHasATask` | `RunningIsExecuted` | a running job has its task |
| | `CheckpointsFollowSteps` | `StepsRecorded` | a record is at most one step behind, a completed one lacks only the loop guard's |
| | `NeverTwoDrivers` | `ResumedAlone` | a job and its heir do not both run |
| | `Implementation` | `Implements` | the refinement of `JobLifecycle` |
| `Governance_proofs` | `EffectsGranted` | `EffectsAreGranted` | nothing risky without a grant of just that |
| | `AskedOnce` | `OnePendingEach` | one pending approval for each question, those of cancelled requests aside |
| | `ContextCleared` | `NoLeftoverContext` | no Witness context outlives its request |
| | `Spent` | `SpentForGood` (of steps) | nobody takes up a spent approval anew; it stays spent, cancelled marks aside |
| | `ApprovalsRefine` | `ApprovalsImplement` (in no run) | the refinement of `ApprovalLife` |
| | `ReceiptsSafe` | `ReceiptsKept` | the chain verifies, returned receipts stay |
| | `EventsSafe` | `EventsKept` | the newest events are listed, the file stays bounded |
| | `LimitsAreHonest` | `LimitsHonest` | the limit per window, a retry time that is kept |
| `Browsing_proofs` | `Released` | `ResourcesOwned` | nothing is left without a session but what the property names |
| | `Truthful` | `RecordsTruthful` | records and answers are so |
| | `LoopsEnd` | `LoopGuarded` | never four times the same in vain |
| | `StepsTell` | `EffectsTold` | the steps tell what the page got |
| | `LogSettles` | `NetworkSettled` | the log tells how a request ended |
| `CallServices_proofs` | `Delegated` | `DelegatedOnce` | once per envelope, within the budget |
| | `AnsweredTruly` | `AnswerTellsEffect` | the answer tells whether the tool ran |
| | `Governs` | `GovernedCalls` | governed calls are approved, one success each |
| | `FilesTell` | `FlowFileTruthful` | the file of a workflow is true |
| `RecordServices_proofs` | `JobsAreKept` | `JobsKept` | counts, job file and scheduler agree |
| | `LoginsApart` | `ProfilesApart` | no login under another's name |
| | `LoginsSealed` | `ConfidentialSealed` | confidential logins are sealed, copies aside |
| | `CandidatesEarned` | `CandidateEarned` | a candidate passed, its trace fulfils the contract |
| | `HealthyWhole` | `HealthySkill` | a healthy skill is of one run, crashes aside |
| | `SessionsLast` | `DurableSessions` | what was confirmed is in the store |

The assumptions are those the modules make of their constants, and TLC evaluates
them on the constants of every run: names are strings and include `self`
(`NameAssumption`), images have the form the compiler gives them
(`ImageAssumption`); the limits of the controller are numbers, those that the
code requires to be positive are positive; the sets of coroutines, clients and
identifiers that a property counts are finite; what clients ask for has its form
(`ConstantAssumption` of `AgentJobs`, and one assumption per service). `None` is
none of the values it stands beside (`None \notin ...`): the models write None
where the code does, next to identifiers, numbers and records, and TLA+ leaves
open what a constant is different from. The bounds on restarts, cancellations
and the clock (`MaxCrashes`, `MaxTime`, ...) are for TLC; the theorems hold for
each of their values.

`TypeOK` of `BBVM` is not inductive alone. `LOAD_ATTR` is type correct only if the
reference it pops names an object of the heap, which depends on the values on all
stacks, in all locals and fields. `Inv` says it value by value (`GoodValue(v, n)`: a
value that refers to one of the first `n` objects), so that a step needs one lemma
about data (`GoodAppend`, `GoodDrop`, `GoodUpdate`, `GoodGrows`), one about frames
(`ReplaceFrame`, `AddFrame`, `RemoveFrame`) and then a lemma per action.
`BBLValues_proofs` has the types of the arithmetic and comparison operators.

`NoUnderflow` follows from `CertificateHolds`, which is inductive together with
`Inv`. The argument has three parts: an instruction that falls through or jumps
leaves the running frame as high as the certificate says of the next one
(`GoesOn`, `JumpsTo`); a call leaves its caller one short, and that one is on the
stack already (a constructor's object) or comes with the callee's return
(`Enters`, `ReturnFits`); and a call finds a function or a contract on top
because only a `LOAD_GLOBAL` leads to it and a certified image stores no global
(`LoadGlobalFits`, `KnownCall`). The run `compiled` shows that what the compiler
emits for its programs is certified, so that the theorem applies to them.

No property of `AgentJobs` is inductive: each depends on what may have happened
to a job before. `Inv` says it part by part, and TLC checked every part on small
instances before the proof:

* a job that waits has no thread, no task and no request that names it, and no
  step of it was ever made (`Line`, `Refusals`, `Held`); so what starts is new;
* a job whose task executes it has no other thread (`Execution`), because a
  cancellation moves the task out of execution in the step that may leave a
  thread behind;
* a job that was cancelled may have two threads that race, its task's last store
  operation and the thread of the one before. While the controller is up neither
  can bring back `running`, because `cancel_job` writes before it cancels
  (`Cancels`, `Threads_`); and whichever writes last, the record is at most one
  checkpoint behind, because at most one of them appends (`Counts`, which also
  counts the loop guard's step, for which there is none);
* a job that can be resumed is over and stays so (`Parents`), and what a thread
  has read of the parent is still so (`Heirs`).

`RewriteKeeps`, `MoveKeeps`, `EnqueueKeeps`, `CutKeeps` and `ThreadKeeps` show
that the five kinds of step keep `Inv` (a handler rewrites a record, a task moves
on, a job is created, a cancellation, a thread writes); each action is an
instance of one of them. For the refinement, `MoveImplements`, `EndsImplement`
and `SubmitImplements` do the same for the phases, with `Crew` (no more tasks than
workers) for the limit of `JobLifecycle!Start`.

No property of a service is inductive either. Each proof states what is missing
as an invariant of named parts, shows for each action what it changes (lemmas
named after the action), and then part by part that it is kept. TLC checked the
parts on the instances of the runs before. What they say:

* Approvals: whoever is between reading and writing a record holds the lock of the
  store (`Locks`), so what was read still holds when it is written, unless the
  thread of a cancelled request wrote meanwhile, and then to an approval in `cut`
  (`Writers`); such a thread writes for a request that is done; a record keeps what
  it is for, and is granted before it is approved (`Store`); the place of a request
  tells what it was shown (`Stages`); past its checks it is cleared although it has
  not acted yet (`Clearance`). `ApprovalLife` promises more than these invariants
  say together: a request has a place (away, outside, inside, acted, gone), and
  comes inside in one step with an approval that is granted *at that step* for just
  what it wants. `RequestRow` and `ApprovalRow` at the end of `ApprovedActions` say
  which place a request is at: it is inside once the last check that asks for an
  approval is passed, which is that of the governed workflow, that of
  `execute_decision` or that of the upload service, by the action and the profile.
  The proof needs one more invariant (`Carried`): who goes to ask needs an approval
  and asks for just that one, what is marked is what the request was let in with,
  and only a request that acted comes to its mark, or leaves it to a thread.
  `ApprovalLife` has moves of its own for what a cancelled request leaves behind
  (`LeaveQuestion`, `QuestionComes`, `LeaveSpending`, a late `Spend`). One lemma per
  move of `ApprovalLife` (`Arrives`, `Admits`, `Leaves`, `Performs`, `Stays`) says
  what it takes of a request, one per action (`CheckImplements`,
  `RecheckImplements`, `WriteExecutedImplements`, ...) that it does. No run has
  `ApprovalsImplement`: TLC checked it on the approvals of `services` alone,
  together with the other services it takes too long.
* Logs: an appender holds its lock (`LogLocked`, `AuditLocked`); a line that will
  be reported is in a thread or in the file (`Landing`); without a cancellation
  the only line on its way is chained to the last of the file, which the cached
  head names while nobody writes (`Chained`); events are in order in file and
  table (`InOrder`); and the file holds no more than its limit, an interval for
  each run, the lines since the last trim and those of cancelled appends (`Room`).
* Limits: a key has one bucket (`OneBucketEach`); it holds the last admissions of
  its key, and those before them are out of the window or went with an evicted
  bucket (`Accounts`); what a refusal said covers the oldest time of a full bucket
  (`Promises`). What `_prune_bucket` and `_ensure_capacity` leave is shown of
  `Live` and `Capacity` first.
* Sessions: outside the map a session is at a step that still releases what it has
  (`Owned`); it dials once and alone, and on no port that a cancelled creation left
  behind (`Ports`); it leaves the map for a close that will write its record, or is
  excused (`Told`); in a shutdown nobody creates, and every session of the map is
  closed or still will be (`Leaving`).
* Steps: a run goes on only after steps that acted once each (`Flow`), so the
  deeds and the steps told stay side by side (`Story`); a job has saved all but
  the step it is at (`BookKept`).
* Network: the handlers of a request wait in the order of its events (`Queue`,
  `Later`), so a pending request has the handler of its end before it and a
  logged one has had it (`Fates`); it is in one place (`Places`); after a detach
  the flush is still to come or nothing is (`Drained`).
* Mesh: a nonce is counted again only if it was forgotten (`Replay`); what waits
  for an approval was not routed (`RoutedCopies`), one copy has one handler
  (`FirstCopy`), uses of the last hour are counted (`Counted`).
* Tools: an approval that holds was given for what it says (`ByOperator`); past
  its checks a call has its approval (`Backed`); one call at most has spent it
  (`SpentOnce`).
* Workflows: a step is completed after its handler and its dependencies
  (`Earned`), a pending one was never called (`Uncalled`), the one in hand is
  running in the file, too (`InHand`), and a run that goes on does not say it
  ended (`Going`).
* Cron: an identifier is used once (`UsedOnce`); a run that is being counted is
  of a job that is there, or was deleted or lost (`CountedOnce`,
  `KeptUntilDeleted`).
* Logins: where a session is tells what it has (`Equipped`); what is in a file, on
  its way there or read from it was saved under that name (`PlacesApart`,
  `UsersApart`); without its key a confidential login that was never copied is in its
  own session only (`PlacesSealed`, `UsersSealed`).
* Harness: a file agrees with its run (`FileAgrees`); a candidate is of a run whose
  last attempts passed (`Earned`); what a drift check has read, or is about to,
  was staged by runs that converged (`OnItsWay`, `FromConverged`); one run at a time
  stages, what it has written is there (`StagesAlone`) and its candidate is the last
  of it (`CandidateLast`); so, wherever there is a candidate, another run's file
  beside it is of a run that was cut off or is staging (`Whole`).
* MCP: what was confirmed is in memory and in the store, and what only memory has
  counts as unsaved (`Confirmed`).

Induction over numbers is done by least counterexample (`LeastNumber`, `LeastOf`,
`LargestNumber`, `NumbersBounded`): the library's well-foundedness of the natural
numbers is first-order, its induction rules are not. That a recursive function
is what its equation says (`LookedIs`, the pass of the workflow engine) is shown
this way, too. A few leaves ask Zenon for more than its usual time.

Only model-checked: what the compiler, the parser and the analyzer do
(`CompiledMeaning`, `CompiledIsCertified`, `ParsedBack`: their operators are
recursive over trees, out of the prover's reach), and every liveness property
(the prover has no fairness).

## Not modelled

* The transpilers to Python, JavaScript and Solidity: they print text whose
  meaning is that of interpreters outside this repository.
* Command line, playground, API, AI agents of the language: no state survives a
  call.
* Routes, settings, scripts for the page, redaction, metrics, exports, the
  client libraries: functions of their input.
* Of modelled parts: wording, positions and regular expressions of the front
  end; errors of the file system in the job queue; what a page shows and how a
  prompt is put together; share links; the remote export of receipts; the MCP
  transport's streams and the event bus; the metadata files of tunnels.
* A restart in the middle of approvals, two threads writing one temporary file of
  the approval store at the same moment, and a save of a workflow that fails.

## Observations

Behaviour met while modelling that no finding claims, as nothing in the
repository says otherwise. The models have it, unless a remark says how they keep
away from it.

Front end: a condition that begins with a parenthesised operand
(`kung (a) + b < c`) is misread, and a statement that begins with `(` or `-`
continues one that ended without semicolon (`BBLText` writes neither); `x = y = 1`
with an `x` of any type is accepted and underflows the machine; calls of
undeclared names, missing returns and the types of field initializers are not
checked; a nested contract raises `KeyError`; string literals go through
`unicode_escape`, which garbles text that is not ASCII; a function that reads a
top-level variable gets None.

Sessions: a close that comes late releases its tunnel's port a second time, which
another session may have by then; takeover persists `active` after a close;
shadow browsing goes past the session limit; a creation that is cancelled leaks its
container, its port or its autossh process until the next start, and so does a
container that Docker made before it raised; shutdown goes on when a close fails and
leaves that session's container; maintenance may remove the empty
directory of a session being created.

Approvals and tools: a request that is cancelled while a thread writes the approval
store gives the lock back first, so its question is not seen by the next request,
which asks again, and its mark may come after a verdict, or a verdict that was read
before may come over it: then the approval may be used once more; the orchestrator's
path never marks a governed "write" approval executed; a governed `execute_action`
of a risky kind is marked by its handler, so the gateway's own marking raises and
the call fails although it was done; tools without a session
(`delete_memory_profile`, `cdp_attach`) skip the governed approval; a tool approval
covers the tool's name, not its arguments; `harness.check_drift` is announced as
read-only and writes a file; `_record_success` lies outside the try of the pipeline.

Steps: a step answered with 502 may have acted; the loop guard's takeover step is
not checkpointed, although `docs/llm-adapters.md:100` speaks of every completed
step; Claude's and Gemini's `default_model` give the CLI's model over the API, too;
threads of the host bridge run on after their client timed out.

Logs, cron, mesh, workflows: a cron store that cannot be read counts as empty; a
mesh answer `approval_required` cannot be built (500); a cancelled workflow stays
"running" in its file.

Harness: attempts with an agent share the session, so one that does nothing after
the first success passes as well, and "three in a row" says little; an agent's
trace has no screenshots, so a contract that requires them can only be fulfilled
with a given final observation; with an ensemble and no universal verifier to run
no attempt ever passes; a `max_attempts` above the contract's budget leaves a run
"running"; a crash in the middle of staging leaves files of two runs side by side, and
the drift check, which reads contract, trace and candidate only, may call that healthy.

MCP: a repeated subscribe is confirmed without a save although the first one was
not saved; a stream whose queue is full drops events; opening and closing a session
emits no event, so a subscriber of `browser://sessions` is told nothing.

Saved logins: two sessions that save one profile share the temporary file, so
one's answer may be about the other's login, the loser fails, and `profile.json`
may name another session than the state's; forks and shadow browsing write the
login in the clear to a file nobody deletes, also for confidential sessions, and the
session that shadow browsing makes has the default `protection_mode`, so its saves
without a key are in the clear, too; an
archive may contain plain temporary files; an import makes a stale login fresh
and `state.json.enc` the newest; looking up a profile that does not exist makes
its directory, after which an import without overwrite is refused.

Network: hooks see an entry before its body is stored, and not the entries that
detach flushes; pages of popups are not inspected; `clear` has no caller.
