----------------------------- MODULE MCServices -----------------------------
(***************************************************************************)
(* The services of the controller that share no state, side by side: every *)
(* behaviour is one of the service that focus names, the others stay in    *)
(* one of their initial states.  The state space is the sum of the small   *)
(* instances, and one run checks them all.                                 *)
(***************************************************************************)
EXTENDS ApprovedActions, ReceiptLogs, RequestLimits, BrowserSessions, CronJobs,
        MeshDelegation, WorkflowRuns, HarnessRuns, McpSessions, AgentSteps, ToolCalls,
        SavedLogins, NetworkLog

CONSTANTS r1, r2, a1, a2, o1,              \* approvals
          w1, w2,                          \* logs
          good, bad, human, host,          \* limits
          c1, h1, p1,                      \* sessions
          j1, j2, t1,                      \* cron
          k1, k2, i1, i2,                  \* mesh
          v1, v2, d1,                      \* harness
          m1, m2,                          \* MCP
          b1, b2, q1, q2,                  \* tools
          u1, u2, n1, n2,                  \* logins
          x1, x2, x3                       \* network

VARIABLE focus

Services == {"approvals", "logs", "limits", "sessions", "cron", "mesh", "workflow", "harness", "mcp",
             "steps", "tools", "logins", "network"}

-----------------------------------------------------------------------------
(* Values of the constants.                                                *)

Pay == [action |-> "click", risk |-> "payment"]
Edit == [action |-> "click", risk |-> "write"]
Send == [action |-> "type", risk |-> "payment"]
Look == [action |-> "hover", risk |-> "read"]
\* Two requests at once, which may be cancelled, or one after the other; two decisions that
\* need approvals of the same kind; uploads; a confidential session.
Agents == [confidential |-> FALSE, serial |-> FALSE, jobs |-> TRUE, uploads |-> TRUE,
           asks |-> {<<Pay, "fast">>, <<Plain, "direct">>}]
InTurn == [Agents EXCEPT !.serial = TRUE, !.jobs = FALSE]
TheModes ==
  {Agents,
   [Agents EXCEPT !.asks = {<<Edit, "governed">>}],
   [InTurn EXCEPT !.asks = {<<Pay, "fast">>, <<Send, "fast">>}],
   [InTurn EXCEPT !.asks = {<<Upload, "fast">>, <<Upload, "direct">>}],
   [InTurn EXCEPT !.confidential = TRUE, !.jobs = TRUE, !.uploads = FALSE,
                  !.asks = {<<Look, "governed">>, <<Upload, "fast">>, <<Plain, "direct">>}]}

TheAmounts == {[receipt |-> 4, event |-> 0], [receipt |-> 0, event |-> 4]}

TheCallers == {[auth |-> good, operator |-> human, host |-> host],
               [auth |-> bad, operator |-> None, host |-> host],
               [auth |-> None, operator |-> human, host |-> host]}
ThePaths == {[limited |-> TRUE, guarded |-> TRUE, named |-> TRUE],
             [limited |-> FALSE, guarded |-> FALSE, named |-> FALSE]}

TheTroubles ==
  {[may |-> {"crash", "stop", "human", "docker", "cancel"}, ids |-> 1], [may |-> {"shadow", "shared"}, ids |-> 2],
   [may |-> {"stop", "cancel", "shared"}, ids |-> 2]}

Both == {"tool", "session"}
TheRecords ==
  {[key |-> TRUE, grants |-> <<[covers |-> Both, approval |-> FALSE, limit |-> 1, until |-> 0]>>],
   [key |-> TRUE, grants |-> <<[covers |-> {"tool"}, approval |-> TRUE, limit |-> 0, until |-> 1]>>],
   [key |-> FALSE, grants |-> <<>>]}
TheHitches ==
  {[edits |-> 1, reboots |-> 0, lead |-> 0, approver |-> {}],
   [edits |-> 0, reboots |-> 1, lead |-> 0, approver |-> {}],
   [edits |-> 0, reboots |-> 0, lead |-> 0, approver |-> {"approved", "pending", "denied"}],
   [edits |-> 0, reboots |-> 0, lead |-> 1, approver |-> {}]}

\* Two of three steps may depend on others, one of them on a step that does not exist,
\* and one may have no handler.
ThePlans ==
  {[order |-> <<"b", "a", "c">>, needs |-> [a |-> {}, b |-> x, c |-> y],
    known |-> {"a", "b", "c"} \ z, retries |-> 1] :
     x \in SUBSET {"a", "c"}, y \in SUBSET {"a", "b", "ghost"}, z \in SUBSET {"c"}}

\* One run of four attempts, and two of few that stage into one directory.
Trial == [runs |-> {v1}, asked |-> {None, 5}, mocked |-> {None, {"goal"}}, budget |-> 4,
          evidence |-> {"trace", "actions"}, verifier |-> "programmatic"]
Pair == [Trial EXCEPT !.runs = Run, !.asked = {None}, !.mocked = {None}, !.budget = 1]
TheTrials ==
  {Trial, [Trial EXCEPT !.evidence = {"screenshots"}], [Trial EXCEPT !.verifier = "ensemble"],
   Pair, [Pair EXCEPT !.budget = 2], [Pair EXCEPT !.verifier = "uv"], [Pair EXCEPT !.verifier = "ensemble"]}

TheSetups ==
  {[stored |-> TRUE, fails |-> 1, starts |-> 1],
   [stored |-> FALSE, fails |-> 0, starts |-> 1]}

Press == [action |-> "click", target |-> "save", spot |-> 1, risk |-> "write"]
TheActs == {Press, [Press EXCEPT !.spot = 2], [Press EXCEPT !.target = "pay", !.risk = "payment"]}

\* Runs of several steps, by a job or a request, and single steps over every transport.
Usual == [kind |-> "run", caller |-> "job", provider |-> "openai", auth |-> "api", has |-> {"key"},
          profile |-> "fast", steps |-> 2, retries |-> 0, closes |-> TRUE]
Once == [Usual EXCEPT !.kind = "step", !.steps = 1]
Cli == {"binary", "home", "login"}
TheAsks ==
  {[Usual EXCEPT !.caller = "request", !.steps = 4, !.closes = FALSE],
   [Usual EXCEPT !.profile = "governed", !.provider = "claude", !.retries = 1],
   [Usual EXCEPT !.auth = "host_bridge", !.has = {"bridge"}, !.retries = 1],
   [Once EXCEPT !.auth = "host_bridge", !.has = {"bridge"}, !.provider = "claude"],
   [Once EXCEPT !.caller = "request", !.provider = "gemini"]}
    \cup {[Once EXCEPT !.auth = "cli", !.provider = p[1], !.has = p[2]] :
            p \in {<<"openai", Cli>>, <<"claude", {"binary"}>>, <<"gemini", Cli>>, <<"gemini", {"binary", "home"}>>}}

ToolCall(tool, what, profile) ==
  [tool |-> tool, what |-> what, profile |-> profile, id |-> None, governedId |-> None,
   session |-> tool \notin {"delete_memory_profile", "cdp_attach"}, valid |-> TRUE]
Everything ==
  {ToolCall(t, t, p) : t \in AllTools \cup {"unknown"}, p \in {"fast", "governed"}}
    \cup {[ToolCall("observe", "observe", "fast") EXCEPT !.valid = FALSE]}
WithId(toolCall, ids) == {[toolCall EXCEPT !.id = i] : i \in ids}
Evals == WithId(ToolCall("eval_js", "eval_js", "governed"), {None, q1, q2})
Drag == WithId(ToolCall("drag_drop", "drag_drop", "governed"), {q1})
Payments == UNION {WithId(ToolCall("execute_action", "pay", p), {None, q1}) : p \in {"fast", "governed"}}
\* Every tool once; then few calls, at once or in a row, with an operator.
Alone == [clients |-> {b1}, most |-> 1, profile |-> "full", services |-> {}, calls |-> Everything, operator |-> FALSE]
Three == [Alone EXCEPT !.most = 3, !.operator = TRUE]
TheScenes ==
  [alone |-> Alone,
   curated |-> [Alone EXCEPT !.profile = "curated",
                             !.services = {"memory", "cron", "proxy", "harness", "share", "vision"}],
   together |-> [Three EXCEPT !.clients = {b1, b2}, !.calls = Evals],
   kinds |-> [Three EXCEPT !.calls = Evals \cup Drag],
   payments |-> [Three EXCEPT !.calls = Payments]]

\* Two profiles; archives of one; states that grow old; the hosted Witness; a key that is taken
\* away or given with a restart, confidential sessions, their
\* forks and shadows.
Stay == [confidential |-> {}, hosted |-> "off", keys |-> <<TRUE>>, may |-> {}, profiles |-> {n1, n2}, efforts |-> 3]
TheLodgings ==
  {[Stay EXCEPT !.keys = <<FALSE>>, !.profiles = {n1}, !.may = {"archive"}, !.efforts = 4],
   [Stay EXCEPT !.may = {"age"}, !.efforts = 2],
   [Stay EXCEPT !.hosted = "on", !.efforts = 2],
   [Stay EXCEPT !.confidential = {u1}, !.hosted = "required", !.keys = <<TRUE, FALSE>>],
   [Stay EXCEPT !.confidential = {u1}, !.keys = <<FALSE, TRUE>>, !.may = {"own", "fork"}, !.profiles = {n1}],
   [Stay EXCEPT !.confidential = {u1}, !.keys = <<FALSE, TRUE>>, !.may = {"own", "shadow"}, !.profiles = {n1}]}

-----------------------------------------------------------------------------
\* What a service that is not looked at begins with.
Still(service, condition) == focus = service \/ condition

MCInit ==
  /\ focus \in Services
  /\ AInit /\ Still("approvals", mode = CHOOSE m \in Modes : TRUE) /\ Still("approvals", approvals = [a \in Approval |-> NoRecord])
  /\ WInit /\ Still("logs", amount = CHOOSE n \in Amounts : TRUE) /\ Still("logs", primary = "file")
  /\ LInit
  /\ SInit /\ Still("sessions", trouble = CHOOSE t \in Troubles : TRUE)
  /\ CInit /\ Still("cron", flaky = CHOOSE b \in ReadFails : TRUE)
  /\ DInit /\ Still("mesh", hitch = CHOOSE t \in Hitches : TRUE) /\ Still("mesh", peer = CHOOSE p \in PeerRecord : TRUE)
  /\ FInit /\ Still("workflow", plan = CHOOSE p \in Plan : TRUE)
  /\ HInit /\ Still("harness", trial = CHOOSE t \in Trials : TRUE)
  /\ PInit /\ Still("mcp", setup = CHOOSE s \in Setups : TRUE)
  /\ GInit /\ Still("steps", ask = CHOOSE a \in Ask : TRUE)
  /\ TInit /\ Still("tools", scene = "alone")
  /\ UInit /\ Still("logins", lodging = CHOOSE l \in Lodging : TRUE)
  /\ NInit

MCNext ==
  \/ focus = "approvals" /\ ANext
     /\ UNCHANGED <<focus, wvars, lvars, svars, cvars, dvars, fvars, hvars, pvars, gvars, tvars, uvars, nvars>>
  \/ focus = "logs" /\ WNext
     /\ UNCHANGED <<focus, avars, lvars, svars, cvars, dvars, fvars, hvars, pvars, gvars, tvars, uvars, nvars>>
  \/ focus = "limits" /\ LNext
     /\ UNCHANGED <<focus, avars, wvars, svars, cvars, dvars, fvars, hvars, pvars, gvars, tvars, uvars, nvars>>
  \/ focus = "sessions" /\ SNext
     /\ UNCHANGED <<focus, avars, wvars, lvars, cvars, dvars, fvars, hvars, pvars, gvars, tvars, uvars, nvars>>
  \/ focus = "cron" /\ CNext
     /\ UNCHANGED <<focus, avars, wvars, lvars, svars, dvars, fvars, hvars, pvars, gvars, tvars, uvars, nvars>>
  \/ focus = "mesh" /\ DNext
     /\ UNCHANGED <<focus, avars, wvars, lvars, svars, cvars, fvars, hvars, pvars, gvars, tvars, uvars, nvars>>
  \/ focus = "workflow" /\ FNext
     /\ UNCHANGED <<focus, avars, wvars, lvars, svars, cvars, dvars, hvars, pvars, gvars, tvars, uvars, nvars>>
  \/ focus = "harness" /\ HNext
     /\ UNCHANGED <<focus, avars, wvars, lvars, svars, cvars, dvars, fvars, pvars, gvars, tvars, uvars, nvars>>
  \/ focus = "mcp" /\ PNext
     /\ UNCHANGED <<focus, avars, wvars, lvars, svars, cvars, dvars, fvars, hvars, gvars, tvars, uvars, nvars>>
  \/ focus = "steps" /\ GNext
     /\ UNCHANGED <<focus, avars, wvars, lvars, svars, cvars, dvars, fvars, hvars, pvars, tvars, uvars, nvars>>
  \/ focus = "tools" /\ TNext
     /\ UNCHANGED <<focus, avars, wvars, lvars, svars, cvars, dvars, fvars, hvars, pvars, gvars, uvars, nvars>>
  \/ focus = "logins" /\ UNext
     /\ UNCHANGED <<focus, avars, wvars, lvars, svars, cvars, dvars, fvars, hvars, pvars, gvars, tvars, nvars>>
  \/ focus = "network" /\ NNext
     /\ UNCHANGED <<focus, avars, wvars, lvars, svars, cvars, dvars, fvars, hvars, pvars, gvars, tvars, uvars>>

MCSpec ==
  MCInit /\ [][MCNext]_<<focus, avars, wvars, lvars, svars, cvars, dvars, fvars, hvars, pvars, gvars, tvars, uvars, nvars>>
=============================================================================
