----------------------------- MODULE AgentSteps -----------------------------
(***************************************************************************)
(* BrowserOrchestrator.step and run: observe the page, ask a provider for  *)
(* the next action, carry it out, log the step; with the three transports  *)
(* of the provider adapters, their retries, and the codex host bridge,     *)
(* whose threads outlive a request that was given up.                      *)
(*                                                                         *)
(* One run is looked at.  The page is a list of what was done to it.       *)
(***************************************************************************)
EXTENDS Integers, Sequences, FiniteSets, ServiceValues

CONSTANTS Ask,    \* what is asked: [kind, caller, provider, auth, has, profile, steps, retries, closes]
          Act     \* actions a provider may decide on: [action, target, spot, risk]

ASSUME AskAssumption == \A a \in Ask : a.steps \in Nat \ {0} /\ a.retries \in Nat

VARIABLES ask,
          turn,    \* the coroutine: [pc, attempt, act, result]
          told,    \* steps of the run, as its result lists them
          booked,  \* how many of them on_step has saved
          ending,  \* final_status, or how the coroutine ended instead
          alive,   \* the session is open
          codex,   \* threads of the host bridge that run codex: the steps and attempts they are for
          deeds    \* history: what was done to the page, and in which step

gvars == <<ask, turn, told, booked, ending, alive, codex, deeds>>

NoResult == [status |-> None, code |-> None, act |-> None, low |-> FALSE]
StepNow == Len(told) + 1

GInit ==
  /\ ask \in Ask
  /\ turn = [pc |-> "step", attempt |-> 1, act |-> None, result |-> NoResult]
  /\ told = <<>> /\ booked = 0 /\ ending = None /\ alive = TRUE
  /\ codex = {} /\ deeds = <<>>

Running(pc) == turn.pc = pc /\ UNCHANGED ask
GoTo(pc) == turn' = [turn EXCEPT !.pc = pc]
\* An exception that step and run do not catch.
Raised == GoTo("over") /\ ending' = "raised"
\* What the step will report.
Report(result) == turn' = [turn EXCEPT !.pc = "log", !.act = None, !.result = result]
StepFailed(code) == Report([NoResult EXCEPT !.status = "error", !.code = code])

-----------------------------------------------------------------------------
(* The beginning of a step: outside of its try.                            *)

\* get_session does not wait, so the session is there when the observation begins.
Observe ==
  /\ Running("step")
  /\ \/ alive /\ turn' = [turn EXCEPT !.pc = "ask", !.attempt = 1] /\ UNCHANGED ending
     \/ Raised
  /\ UNCHANGED <<told, booked, alive, codex, deeds>>

-----------------------------------------------------------------------------
(* The provider.                                                           *)

AuthModes(provider) == IF provider = "openai" THEN {"api", "cli", "host_bridge"} ELSE {"api", "cli"}

\* Readiness of each transport, from what the controller finds when it looks.
ApiReady == "key" \in ask.has
CliReady == "binary" \in ask.has /\ ("home" \in ask.has => "login" \in ask.has)
SocketReady == "bridge" \in ask.has
Configured ==
  /\ ask.auth \in AuthModes(ask.provider)
  /\ CASE ask.auth = "api" -> ApiReady
       [] ask.auth = "cli" -> CliReady
       [] OTHER -> SocketReady

\* decide of an adapter that is not configured raises RuntimeError.
NotConfigured ==
  /\ Running("ask") /\ ~Configured
  /\ StepFailed(None)
  /\ UNCHANGED <<told, booked, ending, alive, codex, deeds>>

\* BrowserActionDecision, with the two that are not about the page.
OffPage(action) == [action |-> action, target |-> None, spot |-> 0, risk |-> "read"]
Finished == OffPage("done")
HandOver == OffPage("request_human_takeover")
Decisions == Act \cup {Finished, HandOver}
Decide == \E act \in Decisions : turn' = [turn EXCEPT !.pc = "execute", !.act = act]

\* An answer without a decision that can be read, or a screenshot that is gone.
Unusable == StepFailed(None)

Retryable(code) == code = 429 \/ code >= 500
MoreAttempts == turn.attempt < ask.retries + 1
TryAgain == turn' = [turn EXCEPT !.pc = "ask", !.attempt = @ + 1]

\* A request that timed out or did not get through: ProviderAPIError without a status.
NoAnswer == IF MoreAttempts THEN TryAgain ELSE StepFailed(503)
BadStatus(code) == IF Retryable(code) /\ MoreAttempts THEN TryAgain ELSE StepFailed(code)

\* raise_for_status refuses redirects too.
PostJson == NoAnswer \/ \E code \in {302, 400, 429, 500} : BadStatus(code)

\* One process, killed when it takes too long (503); it may fail (502) or be missing.
RunCli == StepFailed(503) \/ StepFailed(502) \/ StepFailed(None)

\* The three adapters; all but the transport differs in how the decision is dug out.
Asking(provider, auth) ==
  /\ Running("ask") /\ Configured
  /\ ask.provider = provider /\ ask.auth = auth
  /\ UNCHANGED <<told, booked, ending, alive, deeds>>

OpenAIByApi == Asking("openai", "api") /\ (PostJson \/ Decide \/ Unusable) /\ UNCHANGED codex
OpenAIByCli == Asking("openai", "cli") /\ (RunCli \/ Decide \/ Unusable) /\ UNCHANGED codex
ClaudeByApi == Asking("claude", "api") /\ (PostJson \/ Decide \/ Unusable) /\ UNCHANGED codex
ClaudeByCli == Asking("claude", "cli") /\ (RunCli \/ Decide \/ Unusable) /\ UNCHANGED codex
GeminiByApi == Asking("gemini", "api") /\ (PostJson \/ Decide \/ Unusable) /\ UNCHANGED codex
GeminiByCli == Asking("gemini", "cli") /\ (RunCli \/ Decide \/ Unusable) /\ UNCHANGED codex

-----------------------------------------------------------------------------
(* The host bridge: a thread per request, which runs codex to its end or   *)
(* to its own timeout, whether or not somebody still waits.                *)

Awaited == <<StepNow, turn.attempt>>

PostToBridge ==
  /\ Asking("openai", "host_bridge")
  /\ \/ GoTo("bridge") /\ codex' = codex \cup {Awaited}
     \/ NoAnswer /\ UNCHANGED codex
     \/ Unusable /\ UNCHANGED codex

BridgeTimesOut ==
  /\ Running("bridge")
  /\ NoAnswer
  /\ UNCHANGED <<told, booked, ending, alive, codex, deeds>>

\* do_POST: an answer nobody waits for breaks the pipe and is dropped.
BridgeAnswers ==
  /\ UNCHANGED ask
  /\ \E request \in codex :
       /\ codex' = codex \ {request}
       /\ IF turn.pc = "bridge" /\ request = Awaited
          THEN \/ Decide
               \/ Unusable
               \/ \E code \in {400, 500, 502, 504} : BadStatus(code)
          ELSE UNCHANGED turn
  /\ UNCHANGED <<told, booked, ending, alive, deeds>>

-----------------------------------------------------------------------------
(* _execute_decision.                                                      *)

Deed(low) == [act |-> turn.act, low |-> low, step |-> StepNow]
OutcomeOf(status) == [status |-> status, code |-> None, act |-> turn.act, low |-> FALSE]
Risks == {"upload", "post", "payment", "account_change", "destructive"}
NeedsApproval(act) == act.risk \in Risks \/ (ask.profile = "governed" /\ act.risk = "write")

Done ==
  /\ Running("execute") /\ turn.act = Finished
  /\ Report(OutcomeOf("done"))
  /\ UNCHANGED <<told, booked, ending, alive, codex, deeds>>

\* request_human_takeover inside the try: what it raises makes an error step.
TakeOver ==
  /\ Running("execute") /\ turn.act = HandOver
  /\ \/ alive /\ Report(OutcomeOf("takeover"))
     \/ StepFailed(None)
  /\ UNCHANGED <<told, booked, ending, alive, codex, deeds>>

\* Mutant: an action without a visible effect is tried once more in its step.
PerformRetried ==
  /\ Running("execute") /\ turn.act \in Act /\ alive
  /\ \E low \in BOOLEAN : /\ Report([OutcomeOf("acted") EXCEPT !.low = low])
                         /\ deeds' = deeds \o (IF low THEN <<Deed(low), Deed(low)>> ELSE <<Deed(low)>>)
  /\ UNCHANGED <<told, booked, ending, alive, codex>>

\* execute_decision may fail before it touched the page or afterwards, when it records what
\* it did; an approval is asked for before.
Perform ==
  /\ Running("execute") /\ turn.act \in Act
  /\ \/ \E low \in BOOLEAN : /\ alive
                             /\ Report([OutcomeOf("acted") EXCEPT !.low = low])
                             /\ deeds' = Append(deeds, Deed(low))
     \/ NeedsApproval(turn.act) /\ alive /\ Report(OutcomeOf("approval_required")) /\ UNCHANGED deeds
     \/ StepFailed(None) /\ UNCHANGED deeds
     \/ alive /\ StepFailed(None) /\ deeds' = Append(deeds, Deed(FALSE))
  /\ UNCHANGED <<told, booked, ending, alive, codex>>

\* _append_agent_log needs the session.
LogStep ==
  /\ Running("log")
  /\ IF alive
     THEN /\ told' = Append(told, turn.result)
          /\ GoTo(IF ask.kind = "step" THEN "answer" ELSE IF ask.caller = "job" THEN "book" ELSE "guard")
          /\ UNCHANGED ending
     ELSE Raised /\ UNCHANGED told
  /\ UNCHANGED <<booked, alive, codex, deeds>>

-----------------------------------------------------------------------------
(* run after a step.                                                       *)

\* on_step, which only a job passes.
BookStep ==
  /\ Running("book")
  /\ booked' = Len(told)
  /\ GoTo("guard")
  /\ UNCHANGED <<told, ending, alive, codex, deeds>>

\* The coordinates of a click and the value of a selection are not part of it.
Signature(act) == <<act.action, act.target>>

\* The last n steps acted, with the same signature and no visible effect.
SameAgain(steps, n) ==
  LET window == Len(steps) - n + 1 .. Len(steps) IN
  /\ Len(steps) >= n
  /\ \A i \in window : steps[i].status = "acted" /\ steps[i].low
  /\ \A i \in window : Signature(steps[i].act) = Signature(steps[Len(steps)].act)

\* _should_trigger_loop_takeover.
Loops(steps) == SameAgain(steps, 3)

GuardTakesOver ==
  /\ Running("guard") /\ Loops(told)
  /\ IF alive
     THEN /\ told' = Append(told, [NoResult EXCEPT !.status = "takeover"])
          /\ ending' = "takeover" /\ GoTo("summary")
     ELSE Raised /\ UNCHANGED told
  /\ UNCHANGED <<booked, alive, codex, deeds>>

\* Mutant: an error does not end the run.
FinalUnlessError == {"done", "takeover", "approval_required"}
Final == {"done", "takeover", "approval_required", "error"}
Latest == told[Len(told)].status

NextStep ==
  /\ Running("guard") /\ ~Loops(told)
  /\ IF Latest \in Final THEN ending' = Latest /\ GoTo("summary")
     ELSE IF Len(told) = ask.steps THEN ending' = "max_steps_reached" /\ GoTo("summary")
     ELSE GoTo("step") /\ UNCHANGED ending
  /\ UNCHANGED <<told, booked, alive, codex, deeds>>

\* get_session_summary and the log of the run: both need the session.
Summary ==
  /\ Running("summary")
  /\ \/ alive /\ GoTo("over") /\ UNCHANGED ending
     \/ ~alive /\ Raised
  /\ UNCHANGED <<told, booked, alive, codex, deeds>>

\* run_agent_step turns the result into an answer.
AnswerStep ==
  /\ Running("answer")
  /\ ending' = Latest /\ GoTo("over")
  /\ UNCHANGED <<told, booked, alive, codex, deeds>>

-----------------------------------------------------------------------------
(* Others.                                                                 *)

CloseMeanwhile ==
  /\ ask.closes /\ alive /\ turn.pc # "over"
  /\ alive' = FALSE
  /\ UNCHANGED <<ask, turn, told, booked, ending, codex, deeds>>

\* CancelledError passes every except; a page action that was sent is done all the same.
CancelRun ==
  /\ ask.caller = "job" /\ turn.pc # "over"
  /\ ending' = "cancelled" /\ GoTo("over")
  /\ \/ UNCHANGED deeds
     \/ turn.pc = "execute" /\ turn.act \in Act /\ alive /\ deeds' = Append(deeds, Deed(FALSE))
  /\ UNCHANGED <<ask, told, booked, alive, codex>>

GNext ==
  \/ Observe \/ NotConfigured
  \/ OpenAIByApi \/ OpenAIByCli \/ ClaudeByApi \/ ClaudeByCli \/ GeminiByApi \/ GeminiByCli
  \/ PostToBridge \/ BridgeTimesOut \/ BridgeAnswers
  \/ Done \/ TakeOver \/ Perform \/ LogStep
  \/ BookStep \/ GuardTakesOver \/ NextStep \/ Summary \/ AnswerStep
  \/ CloseMeanwhile \/ CancelRun

GSpec == GInit /\ [][GNext]_gvars

-----------------------------------------------------------------------------

\* The page never gets the same fruitless action four times in a row: after the third the
\* run hands over to a human.
LoopGuarded ==
  \A i \in DOMAIN deeds : i + 3 \in DOMAIN deeds =>
     \E k \in i .. i + 3 : ~deeds[k].low \/ Signature(deeds[k].act) # Signature(deeds[i].act)

\* The steps of a run tell what was done to the page: a step that acted is one action, a
\* step that failed at the provider none, and at most the last action is reported as a
\* failure, or not at all, and then the run did not end as if all were well.  A job has saved
\* every step but, at most, the one of the last action.
EffectsTold ==
  /\ \A i \in DOMAIN told :
       LET mine == {d \in DOMAIN deeds : deeds[d].step = i} IN
       /\ told[i].status = "acted" => Cardinality(mine) = 1 /\ \A d \in mine : deeds[d].act = told[i].act
       /\ told[i].code # None => mine = {}
       /\ told[i].status # "acted" /\ mine # {} =>
            told[i].status = "error" /\ mine = {Len(deeds)} /\ ending \in {None, "error", "raised", "cancelled"}
  /\ \A d \in DOMAIN deeds : deeds[d].step > Len(told) =>
       d = Len(deeds) /\ (turn.pc = "log" \/ ending \in {"raised", "cancelled"})
  /\ ask.kind = "run" /\ ask.caller = "job" =>
       \A d \in DOMAIN deeds : deeds[d].step > booked => d = Len(deeds)
=============================================================================
