-------------------------- MODULE ApprovedActions --------------------------
(***************************************************************************)
(* Browser actions behind the approval queue of one live session.          *)
(*                                                                         *)
(* A request is a coroutine that wants one decision executed: it may have  *)
(* to show an approval, it then waits for the lock of the session, and the *)
(* action pipeline runs the operation, writes a receipt and gives the lock *)
(* back; an approval it used is marked executed last.  An operator decides *)
(* approvals.  The store's own lock is held over the awaits between        *)
(* reading a record and writing it, so every store operation is two steps. *)
(*                                                                         *)
(* The context that the policy of the pipeline reads travels on the        *)
(* session, not with the call: it is set before the session lock is taken. *)
(*                                                                         *)
(* The job of an agent may be cancelled at every await (cancel_job, or the *)
(* end of the process).  The locks are given back at once, but a write of  *)
(* the store that has begun goes on in its thread and lands later, beside  *)
(* whoever has the lock by then.  One write of a record is one step.       *)
(***************************************************************************)
EXTENDS Naturals, FiniteSets, ServiceValues

CONSTANTS Request,        \* coroutines that execute one decision each
          Approval,       \* identifiers of approvals
          Operator,       \* coroutines of people who decide approvals
          Modes,          \* how the session is used: see mode
          TTL, MaxTime    \* approval_ttl, and the bound of the clock

ASSUME ActionsAssumption ==
  /\ \A m \in Modes : m.confidential \in BOOLEAN /\ m.serial \in BOOLEAN
                       /\ m.uploads \in BOOLEAN /\ m.jobs \in BOOLEAN
  /\ TTL \in Nat \ {0} /\ MaxTime \in Nat
  /\ None \notin Request \cup Operator \cup Approval
  /\ Request \cap Operator = {}

VARIABLES mode,        \* confidential: the session is, on a shared surface; uploads:
                       \* require_approval_for_uploads; asks: what agents ask for, a decision
                       \* [action, risk] and a workflow profile, "fast" or "governed", or
                       \* Plain and Upload with "direct", for calls that no agent makes;
                       \* jobs: agents run as jobs, which can be cancelled;
                       \* serial: clients wait for the previous request to end
          approvals,   \* the primary store: id -> record; one that is "adrift" is being
                       \* written by a thread that nobody waits for, and cannot be read yet
          granted,     \* history: approvals an operator has ever approved
          storeLock,   \* who is between reading and writing a record
          strays,      \* requests that were cancelled and whose mark a thread still writes
          cut,         \* history: approvals of which a write was left to its thread
          req,         \* the requests
          op,          \* the operators
          sessionLock, \* session.lock
          context,     \* session.pending_witness_context
          receipts,    \* receipts of the pipeline: who, with which outcome
          clock

avars == <<mode, approvals, granted, storeLock, strays, cut, req, op, sessionLock, context, receipts, clock>>

-----------------------------------------------------------------------------
(* Decisions and what they need.                                           *)

Risky == {"post", "payment", "account_change", "destructive"}

\* approval_kind_for_decision
ApprovalKind(d) ==
  IF d.action = "upload" THEN (IF mode.uploads THEN "upload" ELSE None)
  ELSE IF d.risk \in Risky THEN d.risk ELSE None

\* governed_approval_kind_for_decision
GovernedKind(d) ==
  CASE d.risk = "read" -> None
    [] d.risk # "read" /\ (d.action = "upload" \/ d.risk = "upload") -> "upload"
    [] d.risk \in Risky /\ d.action # "upload" -> d.risk
    [] OTHER -> "write"

\* action_class of the receipts and of the policy
ActionClass(action, risk) ==
  CASE risk \in Risky \ {"post"} -> risk
    [] risk \notin Risky \ {"post"} /\ action = "upload" -> "upload"
    [] risk \notin Risky \ {"post"} /\ action = "navigate" -> "read"
    [] OTHER -> "write"

HighRisk(action, risk) ==
  \/ ActionClass(action, risk) \in {"upload", "post", "payment", "account_change", "destructive", "auth"}
  \/ risk \in {"upload"} \cup Risky

\* The decision that the upload service builds of its own arguments.
Upload == [action |-> "upload", risk |-> "upload"]
\* What a direct call of an action of the page says of itself.
Plain == [action |-> "click", risk |-> "write"]

NoRecord == [status |-> "none", decision |-> None, kind |-> None, expires |-> None]

\* Mutant: an approval of the right kind will do, whatever was asked for.
ApprovedKind(a, kind, d) ==
  LET r == approvals[a] IN
  /\ r.status = "approved" /\ r.kind = kind
  /\ r.expires > clock

\* require_approved: the record is for this kind and action, approved, in time.
Approved(a, kind, d) ==
  LET r == approvals[a] IN
  /\ r.status = "approved" /\ r.kind = kind /\ r.decision = d
  /\ r.expires > clock

-----------------------------------------------------------------------------
\* An empty store, or one with an approval that an earlier request left pending.
InitialStores ==
  LET empty == [a \in Approval |-> NoRecord]
      first == CHOOSE a \in Approval : TRUE
      asked == {<<ask[1], IF ask[2] = "governed" THEN GovernedKind(ask[1]) ELSE ApprovalKind(ask[1])>>
                  : ask \in mode.asks}
  IN {empty} \cup {[empty EXCEPT ![first] = [status |-> "pending", decision |-> q[1],
                                              kind |-> q[2], expires |-> None]]
                     : q \in {q \in asked : q[2] # None}}

AInit ==
  /\ mode \in Modes
  /\ approvals \in InitialStores
  /\ granted = {}
  /\ storeLock = None
  /\ strays = {} /\ cut = {}
  /\ req = [r \in Request |-> [pc |-> "idle", decision |-> None, approval |-> None, profile |-> None,
                               uses |-> None, seen |-> None, effect |-> FALSE, outcome |-> None]]
  /\ op = [o \in Operator |-> [pc |-> "idle", approval |-> None, verdict |-> None]]
  /\ sessionLock = None
  /\ context = None
  /\ receipts = {}
  /\ clock = 0

Ended == {"idle", "done"}
MayStart(r) ==
  /\ req[r].pc = "idle"
  /\ mode.serial => \A q \in Request : req[q].pc \in Ended

Goto(r, pc) == req' = [req EXCEPT ![r].pc = pc]
\* Mutant: the context is cleared by the pipeline only.
FinallyNot(r) == UNCHANGED context
\* The finally of execute_decision; a direct call has none.
Finally(r) == context' = IF req[r].profile = "direct" THEN context ELSE None
End(r, outcome) == req' = [req EXCEPT ![r].pc = "done", ![r].outcome = outcome, ![r].seen = None]

\* What a client can show: nothing, or an identifier that was handed out.
Shown == {None} \cup {a \in Approval : approvals[a].status \notin {"none", "adrift"}}

\* A step of an agent: a governed run asks for its approval first.
Submit(r) ==
  /\ MayStart(r)
  /\ \E ask \in mode.asks, a \in Shown :
       /\ ask[2] # "direct"
       /\ req' = [req EXCEPT ![r].pc = IF ask[2] = "governed" THEN "govern" ELSE "check",
                          ![r].decision = ask[1], ![r].approval = a, ![r].profile = ask[2]]
  /\ UNCHANGED <<mode, approvals, granted, storeLock, strays, cut, op, sessionLock, context, receipts, clock>>

\* BrowserApprovalService.execute: the decision of the approved record itself.
ExecuteApproval(r) ==
  /\ MayStart(r)
  /\ \E a \in Approval :
       /\ approvals[a].status = "approved"
       /\ req' = [req EXCEPT ![r].pc = "check", ![r].decision = approvals[a].decision,
                             ![r].approval = a, ![r].profile = "operator"]
  /\ UNCHANGED <<mode, approvals, granted, storeLock, strays, cut, op, sessionLock, context, receipts, clock>>

\* A direct call of click, type, ...: no decision, so no approval and no context.
\* A direct upload has an approval to show all the same.
Direct(r) ==
  /\ MayStart(r)
  /\ \/ /\ <<Plain, "direct">> \in mode.asks
        /\ req' = [req EXCEPT ![r].pc = "queued", ![r].decision = Plain, ![r].profile = "direct"]
     \/ /\ <<Upload, "direct">> \in mode.asks
        /\ \E a \in Shown :
             req' = [req EXCEPT ![r].pc = "recheck", ![r].decision = Upload,
                                ![r].approval = a, ![r].profile = "direct"]
  /\ UNCHANGED <<mode, approvals, granted, storeLock, strays, cut, op, sessionLock, context, receipts, clock>>

\* require_governed_approval, for the kind of the governed profile.
Govern(r) ==
  LET kind == GovernedKind(req[r].decision) IN
  /\ req[r].pc = "govern"
  /\ \/ kind = None /\ Goto(r, "check")
     \/ kind # None /\ req[r].approval = None /\ Goto(r, "ask")
     \/ /\ kind # None /\ req[r].approval # None
        /\ IF Approved(req[r].approval, kind, req[r].decision)
           THEN Goto(r, "check") ELSE End(r, "refused")
  /\ UNCHANGED <<mode, approvals, granted, storeLock, strays, cut, op, sessionLock, context, receipts, clock>>

\* execute_decision: its own check, and the context of the pipeline.
Check(r) ==
  LET kind == ApprovalKind(req[r].decision)
      next == IF req[r].decision.action = "upload" THEN "recheck" ELSE "start"
      Pass(uses) ==
        /\ req' = [req EXCEPT ![r].pc = next, ![r].uses = uses]
        /\ context' = [risk |-> req[r].decision.risk, approval |-> req[r].approval]
  IN
  /\ req[r].pc = "check"
  /\ \/ kind = None /\ Pass(None)
     \/ kind # None /\ req[r].approval = None /\ Goto(r, "ask") /\ UNCHANGED context
     \/ /\ kind # None /\ req[r].approval # None
        /\ IF Approved(req[r].approval, kind, req[r].decision)
           THEN Pass(req[r].approval)
           ELSE End(r, "refused") /\ UNCHANGED context
  /\ UNCHANGED <<mode, approvals, granted, storeLock, strays, cut, op, sessionLock, receipts, clock>>

\* The upload service checks (for execute_decision: again), with a decision that
\* it builds of its own arguments.
Recheck(r) ==
  LET kind == ApprovalKind(Upload)
      a == req[r].approval
  IN
  /\ req[r].pc = "recheck"
  /\ \/ kind = None /\ Goto(r, "start") /\ UNCHANGED context
     \/ kind # None /\ a = None /\ Goto(r, "ask") /\ Finally(r)
     \/ /\ kind # None /\ a # None /\ Approved(a, kind, Upload)
        /\ req' = [req EXCEPT ![r].pc = "start", ![r].uses = a]
        /\ UNCHANGED context
     \/ /\ kind # None /\ a # None /\ ~Approved(a, kind, Upload)
        /\ End(r, "refused") /\ Finally(r)
  /\ UNCHANGED <<mode, approvals, granted, storeLock, strays, cut, op, sessionLock, receipts, clock>>

\* The kind of the check that stopped a request: where both of a governed request ask
\* for an approval, they ask for the same kind.
AskedKind(r) ==
  LET d == req[r].decision IN
  IF req[r].profile = "governed" /\ ApprovalKind(d) = None THEN GovernedKind(d) ELSE ApprovalKind(d)

\* _find_matching_pending: records are listed newest first, of several any may be the first.
PendingFor(d, kind) ==
  {a \in Approval : /\ approvals[a].status = "pending" /\ approvals[a].kind = kind
                    /\ approvals[a].decision = d}

\* Mutant: the pending records are listed before the lock is taken.
FindUnlocked(r) ==
  LET kind == AskedKind(r)
      match == PendingFor(req[r].decision, kind)
  IN
  /\ req[r].pc = "ask"
  /\ IF match # {}
     THEN req' = [req EXCEPT ![r].pc = "done", ![r].outcome = "approval_required",
                             ![r].approval = CHOOSE a \in match : TRUE]
     ELSE /\ \E a \in Approval : approvals[a].status = "none"
          /\ req' = [req EXCEPT ![r].pc = "create", ![r].seen = kind]
  /\ UNCHANGED <<mode, approvals, granted, storeLock, strays, cut, op, sessionLock, context, receipts, clock>>

\* create_or_reuse_pending: the lock is taken and the pending records listed.
FindPending(r) ==
  LET kind == AskedKind(r)
      match == PendingFor(req[r].decision, kind)
  IN
  /\ req[r].pc = "ask" /\ storeLock = None
  /\ IF match # {}
     THEN /\ req' = [req EXCEPT ![r].pc = "done", ![r].outcome = "approval_required",
                                ![r].approval = CHOOSE a \in match : TRUE]
          /\ UNCHANGED storeLock
     ELSE /\ \E a \in Approval : approvals[a].status = "none"
          /\ req' = [req EXCEPT ![r].pc = "create", ![r].seen = kind]
          /\ storeLock' = r
  /\ UNCHANGED <<mode, approvals, granted, strays, cut, op, sessionLock, context, receipts, clock>>

\* The new record is persisted, the lock given back, ApprovalRequiredError raised.
CreatePending(r) ==
  /\ req[r].pc = "create"
  /\ LET a == CHOOSE a \in Approval : approvals[a].status = "none" IN
       /\ approvals' = [approvals EXCEPT ![a] = [status |-> "pending", decision |-> req[r].decision,
                                                 kind |-> req[r].seen, expires |-> None]]
       /\ req' = [req EXCEPT ![r].pc = "done", ![r].outcome = "approval_required",
                             ![r].approval = a, ![r].seen = None]
  /\ storeLock' = None
  /\ UNCHANGED <<mode, granted, strays, cut, op, sessionLock, context, receipts, clock>>

-----------------------------------------------------------------------------
(* The action pipeline, under the lock of the session.                     *)

\* The service method runs up to the lock; it may raise before (a URL that is
\* not allowed, a file that is missing), and the finally clears the context.
StartAction(r) ==
  /\ req[r].pc = "start"
  /\ \/ Goto(r, "queued") /\ UNCHANGED context
     \/ End(r, "rejected") /\ Finally(r)
  /\ UNCHANGED <<mode, approvals, granted, storeLock, strays, cut, op, sessionLock, receipts, clock>>

ContextRisk(c) == IF c = None THEN None ELSE c.risk

\* WitnessPolicyEngine.evaluate_action: what a confidential session on a shared
\* takeover surface does not let run.
ShouldBlock(action, risk) == mode.confidential /\ HighRisk(action, risk)

\* The lock is taken, the context consumed, the policy evaluated.
Prepare(r) ==
  LET action == req[r].decision.action
      blocked == ShouldBlock(action, ContextRisk(context))
  IN
  /\ req[r].pc = "queued" /\ sessionLock = None
  /\ sessionLock' = r
  /\ req' = [req EXCEPT ![r].pc = IF blocked THEN "block" ELSE "run", ![r].seen = context]
  /\ context' = None
  /\ UNCHANGED <<mode, approvals, granted, storeLock, strays, cut, op, receipts, clock>>

\* The operation on the page: it succeeds, fails in Playwright before or after its
\* effect, or lands where the allowlist or a bot challenge stops it.  A
\* confidential session also needs the hosted Witness to be reachable before it.
Execute(r) ==
  /\ req[r].pc = "run"
  /\ \/ \E result \in {"ok", "failed", "blocked"} :
          req' = [req EXCEPT ![r].pc = "record", ![r].effect = TRUE, ![r].outcome = result]
     \/ req' = [req EXCEPT ![r].pc = "record", ![r].outcome = "failed"]
     \/ mode.confidential /\ req' = [req EXCEPT ![r].pc = "record", ![r].outcome = "blocked"]
  /\ UNCHANGED <<mode, approvals, granted, storeLock, strays, cut, op, sessionLock, context, receipts, clock>>

\* The snapshot before the action, or the observation after it, fails: nothing
\* catches that, so no receipt is written and the approval is not marked.
Unrecorded(r) ==
  /\ req[r].pc = "run"
  /\ \E done \in BOOLEAN :
       req' = [req EXCEPT ![r].pc = "done", ![r].outcome = "raised", ![r].effect = done, ![r].seen = None]
  /\ sessionLock' = None
  /\ Finally(r)
  /\ UNCHANGED <<mode, approvals, granted, storeLock, strays, cut, op, receipts, clock>>

\* Blocked by the policy of the session: no operation, a receipt all the same.
Block(r) ==
  /\ req[r].pc = "block"
  /\ req' = [req EXCEPT ![r].pc = "record", ![r].outcome = "blocked"]
  /\ UNCHANGED <<mode, approvals, granted, storeLock, strays, cut, op, sessionLock, context, receipts, clock>>

ReceiptOf(r) ==
  LET shown == IF req[r].seen = None
               THEN (IF req[r].decision.action = "upload" THEN req[r].approval ELSE None)
               ELSE req[r].seen.approval
  IN [request |-> r, status |-> req[r].outcome, approval |-> shown]

\* The receipt; the lock of the session is given back, also on an error.
WriteReceipt(r) ==
  LET marks == req[r].outcome = "ok" /\ req[r].uses # None IN
  /\ req[r].pc = "record"
  /\ receipts' = receipts \cup {ReceiptOf(r)}
  /\ sessionLock' = None
  /\ req' = [req EXCEPT ![r].pc = IF marks THEN "mark" ELSE "done", ![r].seen = None]
  /\ IF marks THEN UNCHANGED context ELSE Finally(r)
  /\ UNCHANGED <<mode, approvals, granted, storeLock, strays, cut, op, clock>>

\* mark_executed: the record is read under the lock of the store and checked.
Mark(r) ==
  LET a == approvals[req[r].uses] IN
  /\ req[r].pc = "mark" /\ storeLock = None
  /\ IF a.status = "approved" /\ a.expires > clock
     THEN Goto(r, "persist") /\ storeLock' = r /\ UNCHANGED context
     ELSE End(r, "unmarked") /\ UNCHANGED storeLock
          /\ Finally(r)
  /\ UNCHANGED <<mode, approvals, granted, strays, cut, op, sessionLock, receipts, clock>>

\* It is written as executed; the finally of execute_decision clears the context.
WriteExecuted(r) ==
  /\ req[r].pc = "persist"
  /\ approvals' = [approvals EXCEPT ![req[r].uses].status = "executed"]
  /\ storeLock' = None
  /\ End(r, "ok")
  /\ Finally(r)
  /\ UNCHANGED <<mode, granted, strays, cut, op, sessionLock, receipts, clock>>

-----------------------------------------------------------------------------
(* The cancellation of an agent's request, and what it leaves to threads.  *)

Unlocked(lock, r) == IF lock = r THEN None ELSE lock

\* Where execute_decision has set the context and its finally has yet to run.
Within == {"recheck", "start", "queued", "run", "block", "record", "mark", "persist"}

\* CancelledError at an await: the locks are given back and the finally runs, the operation
\* on the page may or may not have been done, the receipt may or may not be written.  A
\* write of the store is not begun, or goes on in its thread: a new record under an
\* identifier that nobody else draws, or the mark of the approval.
CancelRequest(r) ==
  /\ mode.jobs /\ req[r].profile \in {"fast", "governed"} /\ req[r].pc \notin Ended
  /\ \E effect \in IF req[r].pc = "run" THEN BOOLEAN ELSE {req[r].effect} :
       req' = [req EXCEPT ![r].pc = "done", ![r].outcome = "cancelled", ![r].effect = effect, ![r].seen = None]
  /\ \/ UNCHANGED <<approvals, strays, cut>>
     \/ /\ req[r].pc = "create"
        /\ LET a == CHOOSE a \in Approval : approvals[a].status = "none" IN
             /\ approvals' = [approvals EXCEPT ![a] = [status |-> "adrift", decision |-> req[r].decision,
                                                       kind |-> req[r].seen, expires |-> None]]
             /\ cut' = cut \cup {a}
        /\ UNCHANGED strays
     \/ /\ req[r].pc = "persist"
        /\ strays' = strays \cup {r} /\ cut' = cut \cup {req[r].uses}
        /\ UNCHANGED approvals
  /\ storeLock' = Unlocked(storeLock, r) /\ sessionLock' = Unlocked(sessionLock, r)
  /\ context' = IF req[r].pc \in Within THEN None ELSE context
  /\ receipts' \in {receipts} \cup {receipts \cup {ReceiptOf(r)} : pc \in {req[r].pc} \cap {"record"}}
  /\ UNCHANGED <<mode, granted, op, clock>>

\* The thread of a cancelled create_or_reuse_pending puts its record in place.
PendingLands(a) ==
  /\ approvals[a].status = "adrift"
  /\ approvals' = [approvals EXCEPT ![a].status = "pending"]
  /\ UNCHANGED <<mode, granted, storeLock, strays, cut, req, op, sessionLock, context, receipts, clock>>

\* The thread of a cancelled mark_executed writes over whatever is there by now.
MarkLands(r) ==
  /\ r \in strays
  /\ strays' = strays \ {r}
  /\ approvals' = [approvals EXCEPT ![req[r].uses].status = "executed"]
  /\ UNCHANGED <<mode, granted, storeLock, cut, req, op, sessionLock, context, receipts, clock>>

-----------------------------------------------------------------------------
(* Operators.                                                              *)

\* Mutant: the status of the record is not looked at.
ReadAnyForVerdict(o) ==
  /\ op[o].pc = "idle" /\ storeLock = None
  /\ \E a \in Approval, v \in {"approved", "rejected"} :
       /\ approvals[a].status \notin {"none", "adrift"}
       /\ op' = [op EXCEPT ![o] = [pc |-> "write", approval |-> a, verdict |-> v]]
  /\ storeLock' = o
  /\ UNCHANGED <<mode, approvals, granted, strays, cut, req, sessionLock, context, receipts, clock>>

\* approve or reject: the record is read under the lock of the store.
ReadForVerdict(o) ==
  /\ op[o].pc = "idle" /\ storeLock = None
  /\ \E a \in Approval, v \in {"approved", "rejected"} :
       /\ approvals[a].status \notin {"none", "adrift", "executed"}
       /\ op' = [op EXCEPT ![o] = [pc |-> "write", approval |-> a, verdict |-> v]]
  /\ storeLock' = o
  /\ UNCHANGED <<mode, approvals, granted, strays, cut, req, sessionLock, context, receipts, clock>>

\* and written back with the verdict, and an expiry when it is approved.
WriteVerdict(o) ==
  LET a == op[o].approval IN
  /\ op[o].pc = "write"
  /\ approvals' = [approvals EXCEPT ![a].status = op[o].verdict,
                     ![a].expires = IF op[o].verdict = "approved" THEN clock + TTL ELSE None]
  /\ granted' = IF op[o].verdict = "approved" THEN granted \cup {a} ELSE granted
  /\ op' = [op EXCEPT ![o] = [pc |-> "idle", approval |-> None, verdict |-> None]]
  /\ storeLock' = None
  /\ UNCHANGED <<mode, strays, cut, req, sessionLock, context, receipts, clock>>

ApprovalTick ==
  /\ clock < MaxTime
  /\ clock' = clock + 1
  /\ UNCHANGED <<mode, approvals, granted, storeLock, strays, cut, req, op, sessionLock, context, receipts>>

Advance(r) ==
  \/ Govern(r) \/ Check(r) \/ Recheck(r) \/ FindPending(r) \/ CreatePending(r)
  \/ StartAction(r) \/ Prepare(r) \/ Execute(r) \/ Unrecorded(r) \/ Block(r) \/ WriteReceipt(r) \/ Mark(r) \/ WriteExecuted(r)

ANext ==
  \/ \E r \in Request : Submit(r) \/ ExecuteApproval(r) \/ Direct(r) \/ Advance(r)
                            \/ CancelRequest(r) \/ MarkLands(r)
  \/ \E a \in Approval : PendingLands(a)
  \/ \E o \in Operator : ReadForVerdict(o) \/ WriteVerdict(o)
  \/ ApprovalTick

ASpec == AInit /\ [][ANext]_avars

-----------------------------------------------------------------------------
(* Properties.                                                             *)

\* What a request must have been allowed before it acts; None when nothing is needed.
Needed(r) ==
  IF req[r].profile = "direct" /\ req[r].decision.action # "upload" THEN None ELSE AskedKind(r)

\* An action that needs an approval acts on the page only with one that an operator
\* granted, of that kind and for that very decision (approvals.require_approved,
\* execute_decision), whatever operators and other requests do meanwhile.
EffectsAreGranted ==
  \A r \in Request : req[r].effect /\ Needed(r) # None =>
    LET a == req[r].approval IN
    /\ a \in granted
    /\ approvals[a].kind = Needed(r)
    /\ approvals[a].decision = req[r].decision

\* An executed approval is spent (approvals.mark_executed): no request that was not already
\* past its check begins to use it, and no later verdict brings it back.  Only a verdict that
\* was read before can, and only when the mark was left to its thread by a cancellation.
SpentForGood ==
  [][\A a \in Approval : approvals[a].status = "executed" =>
       /\ \A r \in Request : req'[r].uses = a => req[r].uses = a
       /\ approvals'[a].status # "executed" =>
            a \in cut /\ \E o \in Operator : op[o].pc = "write" /\ op[o].approval = a]_avars

\* Two requests for the same action wait for the same pending approval
\* (approvals.create_or_reuse_pending): a person is asked twice only where the question of a
\* cancelled request was left to its thread.
OnePendingEach ==
  \A a, b \in Approval \ cut :
    /\ approvals[a].status = "pending" /\ approvals[b].status = "pending"
    /\ approvals[a].decision = approvals[b].decision /\ approvals[a].kind = approvals[b].kind
    => a = b

\* The context of a decision does not outlive the decisions that are being executed:
\* a later direct call never runs under it (the finally of execute_decision).
NoLeftoverContext ==
  context # None =>
    \E r \in Request : /\ req[r].profile # "direct"
                       /\ req[r].pc \in Within

-----------------------------------------------------------------------------
(* The requests as ApprovalLife sees them.                                 *)

Subjects == ({"upload", "write"} \cup Risky)
              \X ({Plain, Upload} \cup {ask[1] : ask \in UNION {m.asks : m \in Modes}})

Wanted(r) == IF Needed(r) = None THEN None ELSE <<Needed(r), req[r].decision>>

\* Nothing is needed, or every check that asks for it is passed.
LetIn(r) ==
  \/ Needed(r) = None
  \/ req[r].pc \in Within \ {"recheck"}
  \/ req[r].pc = "recheck" /\ req[r].profile # "direct"
  \/ req[r].pc = "check" /\ ApprovalKind(req[r].decision) = None

RequestRow(r) ==
  LET Row(place, want, held) == [place |-> place, want |-> want, held |-> held]
      held == IF Needed(r) = None THEN None ELSE req[r].approval
  IN CASE req[r].effect -> Row("acted", Wanted(r), held)
       [] ~ req[r].effect /\ req[r].pc = "idle" -> Row("away", None, None)
       [] ~ req[r].effect /\ req[r].pc = "done" -> Row("gone", Wanted(r), None)
       [] ~ req[r].effect /\ req[r].pc \notin {"idle", "done"} ->
            IF LetIn(r) THEN Row("inside", Wanted(r), held) ELSE Row("outside", Wanted(r), None)

ApprovalRow(a) ==
  [status |-> approvals[a].status,
   for |-> IF approvals[a].status = "none" THEN None ELSE <<approvals[a].kind, approvals[a].decision>>]

ApprovalRows == [a \in Approval |-> ApprovalRow(a)]
RequestRows == [r \in Request |-> RequestRow(r)]

Life == INSTANCE ApprovalLife WITH Subject <- Subjects, approval <- ApprovalRows, request <- RequestRows,
                              late <- cut

\* The requests, the operators and the store implement ApprovalLife: although a record is
\* read and written in two steps, checked long before the action, marked after it, and written
\* by a thread when the request is cancelled, no request acts that was not let in with a grant
\* for just what it wants, and a spent approval lets nobody in (execute_decision, upload,
\* create_or_reuse_pending, mark_executed).
ApprovalsImplement == Life!Spec
=============================================================================
