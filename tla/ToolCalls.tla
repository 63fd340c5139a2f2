----------------------------- MODULE ToolCalls ------------------------------
(***************************************************************************)
(* McpToolGateway: which tools there are, and the way of a tool call from  *)
(* the policy arguments to the answer.                                     *)
(*                                                                         *)
(* A governed call of a tool that changes something needs an approval,     *)
(* which it checks before the handler and marks executed after it; other   *)
(* calls, and the operator, work on the same approvals meanwhile.  The     *)
(* store's operations are one step here; ApprovedActions has their parts.  *)
(***************************************************************************)
EXTENDS Naturals, FiniteSets, ServiceValues

CONSTANTS Scenes,  \* gateways and what is called, by name: [profile, services, calls, clients, most,
                   \* operator]; most bounds the calls
          Client,  \* clients, each with one call at a time
          Grant    \* identifiers of approvals

ASSUME ToolAssumption ==
  /\ None \notin Grant
  /\ None \notin [status : {"pending", "approved", "rejected", "executed"}, what : STRING, fresh : BOOLEAN]
  /\ \A s \in DOMAIN Scenes :
       /\ Scenes[s].clients \subseteq Client /\ Scenes[s].most \in Nat
       /\ Scenes[s].calls \subseteq
            [tool : STRING, what : STRING, profile : STRING, id : Grant \cup {None},
             governedId : Grant \cup {None}, session : BOOLEAN, valid : BOOLEAN]

VARIABLES scene,
          open,     \* the session is open
          serving,  \* per client: [pc, call, grant, reply, number]
          grants,   \* approvals: [status, what, fresh], or None
          blessed,  \* history: what the operator approved: <<grant, what>>
          carried,  \* history: [by, grant, call]: handlers that did their work
          replies   \* history: [by, grant, call, ok]

tvars == <<scene, open, serving, grants, blessed, carried, replies>>

Gateway == Scenes[scene]

-----------------------------------------------------------------------------
(* The packs: the tools of the curated profile, those of the full profile  *)
(* only, and the kind of approval a governed call needs.                   *)

CoreCurated ==
  {"create_session", "save_memory_profile", "get_memory_profile", "list_memory_profiles",
   "list_sessions", "get_session", "observe", "screenshot", "get_console", "get_page_errors",
   "get_request_failures", "stop_trace", "list_auth_profiles", "get_auth_profile", "list_downloads",
   "list_tabs", "activate_tab", "close_tab", "execute_action", "save_auth_profile",
   "request_human_takeover", "close_session"}
CoreFull ==
  {"delete_memory_profile", "save_auth_state", "list_approvals", "approve_approval", "reject_approval",
   "execute_approval", "list_agent_jobs", "get_agent_job", "resume_agent_job", "discard_agent_job",
   "cancel_agent_job", "queue_agent_step", "queue_agent_run", "list_providers"}
DiagnosticCurated == {"readiness_check", "get_network_log", "verify_witness"}
DiagnosticFull == {"get_remote_access", "export_script", "pii_scrubber_status"}
Dom == {"eval_js", "wait_for_selector", "get_html", "find_elements", "drag_drop", "set_viewport", "find_by_vision"}
HarnessCurated == {"get_status", "get_trace", "list_runs"}
HarnessFull == {"start_convergence", "list_candidates", "get_candidate", "check_drift", "check_all_drifts", "graduate"}
Operations ==
  {"list_proxy_personas", "create_proxy_persona", "delete_proxy_persona", "list_cron_jobs",
   "create_cron_job", "delete_cron_job", "trigger_cron_job"}
SessionOpsFull == {"cdp_attach", "share_session", "enable_shadow_browse"}
Storage == {"get_cookies", "set_cookies", "get_local_storage", "set_local_storage"}
Harness == HarnessCurated \cup HarnessFull

Curated == CoreCurated \cup DiagnosticCurated \cup Dom \cup HarnessCurated \cup {"fork_session"}
AllTools == Curated \cup CoreFull \cup DiagnosticFull \cup HarnessFull \cup Operations \cup SessionOpsFull \cup Storage

GovernedWrite ==
  {"save_memory_profile", "close_tab", "request_human_takeover", "close_session", "eval_js", "drag_drop",
   "start_convergence", "share_session", "enable_shadow_browse"}
GovernedAccount == {"save_auth_state", "save_auth_profile", "cdp_attach", "set_cookies", "set_local_storage"}
Governed == GovernedWrite \cup GovernedAccount \cup {"delete_memory_profile", "execute_action"}

\* register, and the tool that is taken out again when nobody can look at screenshots.
Offered(tool) ==
  /\ tool \in (IF Gateway.profile = "full" THEN AllTools ELSE Curated)
  /\ tool = "find_by_vision" => "vision" \in Gateway.services

-----------------------------------------------------------------------------
(* The handlers: what they need.                                           *)

Memory == {"save_memory_profile", "get_memory_profile", "list_memory_profiles", "delete_memory_profile"}
Cron == {"list_cron_jobs", "create_cron_job", "delete_cron_job", "trigger_cron_job"}
Proxy == {"list_proxy_personas", "create_proxy_persona", "delete_proxy_persona"}

ServiceOf(tool) ==
  CASE tool \in Memory -> "memory"
    [] tool \in Cron -> "cron"
    [] tool \in Proxy -> "proxy"
    [] tool \in Harness -> "harness"
    [] tool = "share_session" -> "share"
    [] tool = "find_by_vision" -> "vision"
    [] OTHER -> "controller"
Available(tool) == ServiceOf(tool) \in Gateway.services \cup {"controller"}
\* Without their service these answer with an empty list, the others raise RuntimeError.
EmptyWithout == {"list_memory_profiles", "list_cron_jobs", "list_proxy_personas"}

\* Handlers that look the session up among the live ones first.
OnCoreSession ==
  {"save_memory_profile", "observe", "screenshot", "get_console", "get_page_errors", "get_request_failures",
   "stop_trace", "list_tabs", "activate_tab", "close_tab", "execute_action", "save_auth_state",
   "save_auth_profile", "request_human_takeover", "close_session"}
OnQueue == {"queue_agent_step", "queue_agent_run"}
OnPage ==
  {"eval_js", "wait_for_selector", "get_html", "find_elements", "drag_drop", "set_viewport", "get_cookies",
   "set_cookies", "get_local_storage", "set_local_storage", "export_script", "find_by_vision"}
OnSession ==
  OnCoreSession \cup OnQueue \cup OnPage
    \cup {"get_network_log", "fork_session", "share_session", "enable_shadow_browse"}

-----------------------------------------------------------------------------
(* A call: [tool, what, profile, id, governedId, session, valid].  what is *)
(* the action execute_action carries, otherwise the tool: a governed tool  *)
(* call is approved as a takeover decision that names the tool.            *)

NoCall == [pc |-> "idle", call |-> None, grant |-> None, number |-> 0]

TInit ==
  /\ scene \in DOMAIN Scenes
  /\ open = TRUE
  /\ serving = [c \in Client |-> NoCall]
  /\ grants = [g \in Grant |-> None]
  /\ blessed = {} /\ carried = {} /\ replies = {}

By(c) == <<c, serving[c].number>>
Mine(c) == serving[c].call
\* An answer of any kind ends the call.
Reply(c, ok, grant) ==
  /\ serving' = [serving EXCEPT ![c].pc = "idle", ![c].grant = None]
  /\ replies' = replies \cup {[by |-> By(c), grant |-> grant, call |-> Mine(c), ok |-> ok]}
Continue(c, pc) == serving' = [serving EXCEPT ![c].pc = pc] /\ UNCHANGED replies

CallTool(c) ==
  /\ c \in Gateway.clients /\ serving[c].pc = "idle"
  /\ Cardinality(replies) + Cardinality({d \in Client : serving[d].pc # "idle"}) < Gateway.most
  /\ \E call \in Gateway.calls :
       serving' = [serving EXCEPT ![c] = [pc |-> "look", call |-> call, grant |-> None, number |-> @.number + 1]]
  /\ UNCHANGED <<scene, open, grants, blessed, carried, replies>>

\* eval_js, and a convergence run on a live session, only in the governed profile.
NeedsGoverned(call) ==
  /\ call.profile # "governed"
  /\ call.tool = "eval_js" \/ (call.tool = "start_convergence" /\ call.session)

\* _call_tool up to the validation of the arguments.
LookUp(c) ==
  /\ serving[c].pc = "look"
  /\ LET call == Mine(c) IN
     IF \/ ~Offered(call.tool) \/ NeedsGoverned(call)
        \/ call.tool \in Harness /\ ~Available(call.tool)
        \/ ~call.valid
     THEN Reply(c, FALSE, None)
     ELSE Continue(c, "approve")
  /\ UNCHANGED <<scene, open, grants, blessed, carried>>

-----------------------------------------------------------------------------
(* Approvals.                                                              *)

Approves(g, what) == grants[g] # None /\ grants[g].status = "approved" /\ grants[g].fresh /\ grants[g].what = what

RiskyActions == {"pay"}       \* what of a decision that needs an approval in every profile
Harmless == {"look"}   \* what of a decision that only reads

\* governed_approval_id, or else approval_id.
PolicyId(call) == IF call.governedId # None THEN call.governedId ELSE call.id

NeedsGrant(call) ==
  call.profile = "governed" /\ call.tool \in Governed /\ call.session /\ call.what \notin Harmless

\* create_or_reuse_pending, which first needs the session.
Pend(c, what) ==
  LET pending == {g \in Grant : grants[g] # None /\ grants[g].status = "pending" /\ grants[g].what = what} IN
  /\ IF ~open \/ pending # {} THEN UNCHANGED grants
     ELSE \E g \in Grant :
            /\ grants[g] = None
            /\ grants' = [grants EXCEPT ![g] = [status |-> "pending", what |-> what, fresh |-> TRUE]]
  /\ Reply(c, FALSE, None)

\* _require_governed_tool_approval.
RequireApproval(c) ==
  /\ serving[c].pc = "approve"
  /\ LET call == Mine(c)  id == PolicyId(call) IN
     IF ~NeedsGrant(call) THEN Continue(c, "handle") /\ UNCHANGED grants
     ELSE IF id = None THEN Pend(c, call.what)
     ELSE IF Approves(id, call.what)
     THEN serving' = [serving EXCEPT ![c].pc = "handle", ![c].grant = id] /\ UNCHANGED <<grants, replies>>
     ELSE Reply(c, FALSE, None) /\ UNCHANGED grants
  /\ UNCHANGED <<scene, open, blessed, carried>>

\* The handler of execute_action asks once more for risky decisions, with approval_id.
HandlerAsks(call) == call.tool = "execute_action" /\ call.what \in RiskyActions

HandlerChecks(c) ==
  /\ serving[c].pc = "handle" /\ HandlerAsks(Mine(c)) /\ open
  /\ LET id == Mine(c).id IN
     IF id = None THEN Pend(c, Mine(c).what)
     ELSE IF Approves(id, Mine(c).what) THEN Continue(c, "work") /\ UNCHANGED grants
     ELSE Reply(c, FALSE, None) /\ UNCHANGED grants
  /\ UNCHANGED <<scene, open, blessed, carried>>

HandlerBegins(c) ==
  /\ serving[c].pc = "handle" /\ (HandlerAsks(Mine(c)) => ~open)
  /\ LET tool == Mine(c).tool IN
     IF tool \in OnSession /\ ~open THEN Reply(c, FALSE, serving[c].grant)
     ELSE IF Available(tool) THEN Continue(c, "work")
     ELSE Reply(c, tool \in EmptyWithout, serving[c].grant)
  /\ UNCHANGED <<scene, open, grants, blessed, carried>>

\* The grant an effect rests on.
GrantOf(c) == IF HandlerAsks(Mine(c)) THEN Mine(c).id ELSE serving[c].grant
Did(c) == carried' = carried \cup {[by |-> By(c), grant |-> GrantOf(c), call |-> Mine(c)]}

\* A handler may raise before it did anything or after it did everything; close_session
\* ends the session.
HandlerWorks(c) ==
  /\ serving[c].pc = "work"
  /\ \/ Reply(c, FALSE, GrantOf(c)) /\ UNCHANGED <<carried, open>>
     \/ /\ Mine(c).tool \in OnSession => open
        /\ Did(c)
        /\ open' = (open /\ Mine(c).tool # "close_session")
        /\ \/ Reply(c, FALSE, GrantOf(c))
           \/ Continue(c, IF HandlerAsks(Mine(c)) THEN "mark" ELSE "settle")
  /\ UNCHANGED <<scene, grants, blessed>>

\* mark_executed.
MayMark(g) == grants[g] # None /\ grants[g].status = "approved" /\ grants[g].fresh
MarkGrant(g) == grants' = [grants EXCEPT ![g].status = "executed"]

\* execute_decision marks the approval of a risky decision itself.
HandlerMarks(c) ==
  /\ serving[c].pc = "mark"
  /\ IF MayMark(Mine(c).id) THEN MarkGrant(Mine(c).id) /\ Continue(c, "settle")
     ELSE Reply(c, FALSE, Mine(c).id) /\ UNCHANGED grants
  /\ UNCHANGED <<scene, open, blessed, carried>>

\* Mutant: an approval that cannot be marked is passed over.
SettleQuietly(c) ==
  /\ serving[c].pc = "settle"
  /\ LET g == serving[c].grant IN
     IF g # None /\ MayMark(g) THEN MarkGrant(g) /\ Reply(c, TRUE, g)
     ELSE Reply(c, TRUE, GrantOf(c)) /\ UNCHANGED grants
  /\ UNCHANGED <<scene, open, blessed, carried>>

\* The gateway marks the approval it asked for, the one the handler has just marked included.
Settle(c) ==
  /\ serving[c].pc = "settle"
  /\ LET g == serving[c].grant IN
     IF g = None THEN Reply(c, TRUE, GrantOf(c)) /\ UNCHANGED grants
     ELSE IF MayMark(g) THEN MarkGrant(g) /\ Reply(c, TRUE, g)
     ELSE Reply(c, FALSE, g) /\ UNCHANGED grants
  /\ UNCHANGED <<scene, open, blessed, carried>>

-----------------------------------------------------------------------------
(* The operator, the clock and the owner of the session.                   *)

OperatorDecides(g) ==
  /\ Gateway.operator /\ grants[g] # None /\ grants[g].status # "executed"
  /\ \/ /\ grants' = [grants EXCEPT ![g].status = "approved", ![g].fresh = TRUE]
        /\ blessed' = blessed \cup {<<g, grants[g].what>>}
     \/ grants' = [grants EXCEPT ![g].status = "rejected"] /\ UNCHANGED blessed
  /\ UNCHANGED <<scene, open, serving, carried, replies>>

GrantExpires(g) ==
  /\ Gateway.operator /\ grants[g] # None /\ grants[g].status = "approved" /\ grants[g].fresh
  /\ grants' = [grants EXCEPT ![g].fresh = FALSE]
  /\ UNCHANGED <<scene, open, serving, blessed, carried, replies>>

SessionCloses ==
  /\ open /\ open' = FALSE
  /\ UNCHANGED <<scene, serving, grants, blessed, carried, replies>>

TNext ==
  \/ \E c \in Client :
       \/ CallTool(c) \/ LookUp(c) \/ RequireApproval(c) \/ HandlerChecks(c) \/ HandlerBegins(c)
       \/ HandlerWorks(c) \/ HandlerMarks(c) \/ Settle(c)
  \/ \E g \in Grant : OperatorDecides(g) \/ GrantExpires(g)
  \/ SessionCloses

TSpec == TInit /\ [][TNext]_tvars

-----------------------------------------------------------------------------

\* What a governed call of a session's tool does was approved by the operator, for that
\* tool or that action; and of all calls that rest on one approval at most one is answered
\* as a success, which has then spent it.
GovernedCalls ==
  /\ \A d \in carried : NeedsGrant(d.call) \/ HandlerAsks(d.call) => <<d.grant, d.call.what>> \in blessed
  /\ \A r \in replies : r.ok /\ r.grant # None =>
       /\ grants[r.grant].status = "executed"
       /\ \E d \in carried : d.by = r.by
       /\ \A q \in replies : q.ok /\ q.grant = r.grant => q = r
=============================================================================
