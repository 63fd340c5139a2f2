---------------------------- MODULE HarnessRuns ----------------------------
(***************************************************************************)
(* HarnessService: a task contract is attempted again and again until      *)
(* enough attempts in a row were verified; then a skill candidate is       *)
(* staged, which a drift check compares with its evidence later on.        *)
(*                                                                         *)
(* The runs here are of one contract, so they stage into one directory.    *)
(* From the verdict of an attempt on to the saved candidate the code waits *)
(* for nothing: other coroutines stand still, a crash may still cut in.    *)
(***************************************************************************)
EXTENDS Naturals, Sequences, FiniteSets, FiniteSetsExt, ServiceValues

CONSTANTS Run,       \* convergence runs of one contract
          Trials,    \* the contracts and settings that are looked at: see trial
          Checker,   \* coroutines that check the candidate for drift
          MaxCuts    \* bound of the crashes

\* The conditions of the contract that decide: one it requires, one it forbids.
Condition == {"goal", "captcha"}
EvidenceKind == {"trace", "actions", "screenshots", "model_decisions"}

ASSUME HarnessAssumption ==
  /\ \A t \in Trials : /\ t.runs \subseteq Run /\ t.budget \in Nat \ {0} /\ t.evidence \subseteq EvidenceKind
                       /\ t.asked \subseteq (Nat \ {0}) \cup {None} /\ t.mocked \subseteq (SUBSET Condition) \cup {None}
                       /\ t.verifier \in {"programmatic", "uv", "ensemble"}
  /\ MaxCuts \in Nat
  /\ None \notin Run /\ None \notin [shows : SUBSET Condition, evidence : SUBSET EvidenceKind]
  /\ None \notin [status : {"running", "converged", "unconverged", "failed", "over_budget"},
                 attempts : Nat, candidate : Run \cup {None}]

VARIABLES trial,     \* [runs, asked, mocked, budget, evidence, verifier]: the runs that are started,
                     \* the max_attempts a caller may give, None for none, what a given final
                     \* observation may show, None for a run with an agent; the max_attempts of
                     \* the contract, the evidence it requires, and HARNESS_VERIFIER
          conv,      \* the runs in memory: [pc, asked, mock, trace, results, status]
          file,      \* run.json of each: [status, attempts, candidate], or None
          staged,    \* the staging directory, file by file: the run that wrote it, or None for a
                     \* file that is missing or was cut short by a crash
          written,   \* how many of the files the run that is staging has written
          check,     \* the drift checks: [pc, files]: staged as it was read
          drift,     \* drift.json: [status, files], or None; files is history
          cuts

hvars == <<trial, conv, file, staged, written, check, drift, cuts>>

\* The files of the staging directory in the order in which they are written: SKILL.md,
\* helper.py, test_skill.py, provenance.json, envelope.json, contract.json, trace.json and
\* candidate.json.  A drift check reads the last three.
ContractAt == 6
TraceAt == 7
CandidateAt == 8
Unstaged == [i \in 1..CandidateAt |-> None]

Unrun == [pc |-> "idle", asked |-> None, mock |-> None, trace |-> None, results |-> <<>>,
          status |-> "created"]
Unchecked == [pc |-> "idle", files |-> Unstaged]

HInit ==
  /\ trial \in Trials
  /\ conv = [r \in Run |-> Unrun]
  /\ file = [r \in Run |-> None]
  /\ staged = Unstaged /\ written = 0
  /\ check = [k \in Checker |-> Unchecked]
  /\ drift = None /\ cuts = 0

\* No coroutine is in the middle of what it does without waiting.
LoopFree == \A r \in Run : conv[r].pc \notin {"stage", "record"}

\* The limits of a run: attempts in a row, attempts the detector allows, attempts of the loop.
Required == Min({3, trial.budget})
DetectorMax(asked) == IF asked = None THEN trial.budget ELSE asked
LoopMax(asked) == Min({DetectorMax(asked), trial.budget})

-----------------------------------------------------------------------------
(* ConvergenceDetector.                                                    *)

\* Mutant: the attempts that passed are counted, in a row or not.
PassedAtAll(results) == Cardinality({i \in DOMAIN results : results[i]})

\* How many of the last results passed (`passed is True`) in a row.
InARow(results) ==
  Len(results) - Max({0} \cup {i \in DOMAIN results : ~results[i]})

Verdict(results, asked) ==
  IF InARow(results) >= Required THEN "converged"
  ELSE IF Len(results) >= DetectorMax(asked) THEN "unconverged"
  ELSE "running"

-----------------------------------------------------------------------------
(* The verifiers: "pass", "fail", or "none" for passed = None.             *)

\* ProgrammaticVerifier.verify
Programmatic(trace) ==
  IF "goal" \in trace.shows /\ "captcha" \notin trace.shows /\ trial.evidence \subseteq trace.evidence
  THEN "pass" ELSE "fail"

\* UniversalVerifierAdapter.verify: a program outside, which may be unavailable.
Universal == {"pass", "fail", "none"}

\* EnsembleVerifier.verify, of these two: both have to be decisive and of one mind.
Ensemble(votes) == IF Cardinality(votes) = 1 THEN CHOOSE v \in votes : TRUE ELSE "none"

\* What the verifier that was set up may say of a trace.
Verdicts(trace) ==
  CASE trial.verifier = "programmatic" -> {Programmatic(trace)}
    [] trial.verifier = "uv" -> Universal
    [] trial.verifier = "ensemble" -> {Ensemble({Programmatic(trace), v}) : v \in Universal}

-----------------------------------------------------------------------------
(* start_convergence.                                                      *)

\* save writes run.json: here the attempts are how many there are.
SaveRun(r, c, candidate) ==
  file' = [file EXCEPT ![r] = [status |-> c.status, attempts |-> Len(c.results),
                               candidate |-> candidate]]

\* With a session to drive an agent makes the attempts; else what they end in is given.
StartConvergence(r, asked, mock) ==
  /\ LoopFree /\ conv[r].pc = "idle" /\ r \in trial.runs
  /\ LET c == [Unrun EXCEPT !.pc = "attempt", !.asked = asked, !.mock = mock, !.status = "running"] IN
       /\ conv' = [conv EXCEPT ![r] = c]
       /\ SaveRun(r, c, None)
  /\ UNCHANGED <<trial, staged, written, check, drift, cuts>>

\* TraceEnvelope.from_agent_result: every step of the agent is an action, the last observation
\* is what the conditions are looked for in.  The session stays as the attempt leaves it, so
\* the next may end the same way without doing anything.
AgentTrace(shown) == [shows |-> shown, evidence |-> {"trace", "actions"}]

\* TraceRecorder: a mock attempt records an action and a screenshot that it has not made.
MockTrace(shown) == [shows |-> shown, evidence |-> EvidenceKind]

\* _run_attempt has returned its trace, which is written; the verifier is awaited.
RunAttempt(r, shown) ==
  /\ LoopFree /\ conv[r].pc = "attempt"
  /\ conv' = [conv EXCEPT ![r].pc = "verify",
                          ![r].trace = IF conv[r].mock = None THEN AgentTrace(shown)
                                       ELSE MockTrace(conv[r].mock)]
  /\ UNCHANGED <<trial, file, staged, written, check, drift, cuts>>

\* The attempt is noted, decided and saved.  The trace is latest_trace, which only a run that
\* converged still needs.
Attempted(r, verdict) ==
  /\ LoopFree /\ conv[r].pc = "verify"
  /\ verdict \in Verdicts(conv[r].trace)
  /\ LET results == Append(conv[r].results, verdict = "pass")
         status == Verdict(results, conv[r].asked)
         goesOn == status = "running" /\ Len(results) < LoopMax(conv[r].asked)
         c == [conv[r] EXCEPT !.results = results, !.status = status,
                              !.trace = IF status = "converged" THEN @ ELSE None,
                              !.pc = IF goesOn THEN "attempt"
                                     ELSE IF status = "converged" THEN "stage"
                                     ELSE "returned"]
     IN /\ conv' = [conv EXCEPT ![r] = c]
        /\ SaveRun(r, c, None)
  /\ UNCHANGED <<trial, staged, written, check, drift, cuts>>

\* The attempt or its verifier raised, or the wall clock budget is used up: a trace of the
\* error takes the place of what was written.
AttemptEnds(r, status) ==
  /\ LoopFree /\ conv[r].pc \in {"attempt", "verify"}
  /\ LET c == [conv[r] EXCEPT !.status = status, !.pc = "returned", !.trace = None,
                              !.results = Append(@, FALSE)]
     IN /\ conv' = [conv EXCEPT ![r] = c]
        /\ SaveRun(r, c, None)
  /\ UNCHANGED <<trial, staged, written, check, drift, cuts>>

\* Mutant: what is judged is written first, and what goes with it last.
StageFileJudgedFirst(r) ==
  /\ conv[r].pc = "stage"
  /\ staged' = [staged EXCEPT ![((written + ContractAt - 1) % CandidateAt) + 1] = r]
  /\ written' = (written + 1) % CandidateAt
  /\ conv' = [conv EXCEPT ![r].pc = IF written + 1 = CandidateAt THEN "record" ELSE "stage"]
  /\ UNCHANGED <<trial, file, check, drift, cuts>>

\* SkillInducer.induce writes one file after the other, over those of an earlier run, ...
StageFile(r) ==
  /\ conv[r].pc = "stage"
  /\ staged' = [staged EXCEPT ![written + 1] = r]
  /\ written' = IF written + 1 = CandidateAt THEN 0 ELSE written + 1
  /\ conv' = [conv EXCEPT ![r].pc = IF written + 1 = CandidateAt THEN "record" ELSE "stage"]
  /\ UNCHANGED <<trial, file, check, drift, cuts>>

\* ... and the run is saved with its candidate.
RecordCandidate(r) ==
  /\ conv[r].pc = "record"
  /\ conv' = [conv EXCEPT ![r].pc = "returned"]
  /\ SaveRun(r, conv[r], r)
  /\ UNCHANGED <<trial, staged, written, check, drift, cuts>>

-----------------------------------------------------------------------------
(* SkillDriftMonitor.check_candidate.                                      *)

CheckReadable == staged[ContractAt] # None /\ staged[TraceAt] # None

\* The candidate, its contract and its trace are read, then the verifier is awaited.  Without
\* a candidate that can be read there is an answer or an error, and nothing is written.
ReadSkill(k) ==
  /\ LoopFree /\ check[k].pc = "idle" /\ staged[CandidateAt] # None /\ CheckReadable
  /\ check' = [check EXCEPT ![k] = [pc |-> "verify", files |-> staged]]
  /\ UNCHANGED <<trial, conv, file, staged, written, drift, cuts>>

\* A contract or a trace that cannot be read is a degraded candidate.
ReadInVain(k) ==
  /\ LoopFree /\ check[k].pc = "idle" /\ staged[CandidateAt] # None /\ ~CheckReadable
  /\ drift' = [status |-> "degraded", files |-> staged]
  /\ UNCHANGED <<trial, conv, file, staged, written, check, cuts>>

\* A hash that differs, or a verdict other than passed or unknown, is a degraded candidate.
DriftStatus(files, verdict) ==
  CASE verdict = "pass" /\ files[TraceAt] = files[CandidateAt] -> "healthy"
    [] verdict = "none" /\ files[TraceAt] = files[CandidateAt] -> "unverified"
    [] OTHER -> "degraded"

\* The result is written when the verifier is done, whatever was staged in the meantime.
WriteDrift(k, verdict) ==
  /\ LoopFree /\ check[k].pc = "verify"
  /\ verdict \in Verdicts(conv[check[k].files[TraceAt]].trace)
  /\ drift' = [status |-> DriftStatus(check[k].files, verdict), files |-> check[k].files]
  /\ check' = [check EXCEPT ![k] = Unchecked]
  /\ UNCHANGED <<trial, conv, file, staged, written, cuts>>

\* The process ends, and every coroutine with it; the files stay, but for the one that was
\* being written in the staging directory, which may be cut short.
CutOff ==
  /\ cuts < MaxCuts
  /\ cuts' = cuts + 1
  /\ conv' = [r \in Run |-> IF conv[r].pc \in {"idle", "returned"} THEN conv[r]
                            ELSE [conv[r] EXCEPT !.pc = "gone"]]
  /\ \/ staged' = staged
     \/ /\ \E r \in Run : conv[r].pc = "stage"
        /\ staged' = [staged EXCEPT ![written + 1] = None]
  /\ written' = 0
  /\ check' = [k \in Checker |-> Unchecked]
  /\ UNCHANGED <<trial, file, drift>>

HNext ==
  \/ \E r \in Run : \/ \E asked \in trial.asked, mock \in trial.mocked : StartConvergence(r, asked, mock)
                    \/ \E shown \in SUBSET Condition : RunAttempt(r, shown)
                    \/ \E verdict \in Universal : Attempted(r, verdict)
                    \/ \E status \in {"failed", "over_budget"} : AttemptEnds(r, status)
                    \/ StageFile(r) \/ RecordCandidate(r)
  \/ \E k \in Checker : \/ ReadSkill(k) \/ ReadInVain(k)
                        \/ \E verdict \in Universal : WriteDrift(k, verdict)
  \/ CutOff

HSpec == HInit /\ [][HNext]_hvars

-----------------------------------------------------------------------------

\* The trace shows that the contract is fulfilled, as far as the code itself looks.
Fulfils(trace) ==
  trial.verifier # "uv" =>
    trace.shows \cap {"goal", "captcha"} = {"goal"} /\ trial.evidence \subseteq trace.evidence

\* graduate hands out the candidate of the file.
Graduates(r) == file[r] # None /\ file[r].status = "converged" /\ file[r].candidate # None

\* What graduate hands out is earned: the last attempts of the run, as many as are required, all
\* passed, and the trace of the last fulfils the contract; the file of a run that returned tells
\* how it ended, "running" only when the caller asked for more attempts than the contract allows;
\* and a converged run has its candidate unless a crash came between the two saves.
CandidateEarned ==
  \A r \in Run :
    LET results == conv[r].results IN
    /\ Graduates(r) =>
         /\ Len(results) >= Required
         /\ \A i \in (Len(results) - Required + 1)..Len(results) : results[i]
         /\ Fulfils(conv[r].trace)
    /\ conv[r].pc = "returned" =>
         /\ file[r].status = "running" => DetectorMax(conv[r].asked) > trial.budget
         /\ file[r].status = "converged" => Graduates(r)
    /\ file[r] # None => file[r].attempts = Len(results)

\* Of a skill that a drift check called healthy, trace and candidate are of one run that
\* converged and fulfilled the contract; every other file was of that run as well when they
\* were read, or another run that converged had begun to write over it when a crash cut it off.
\* (Such a mixture is called healthy: the check does not look at the other files.)
HealthySkill ==
  (drift # None /\ drift.status = "healthy") =>
    LET r == drift.files[CandidateAt] IN
    /\ drift.files[TraceAt] = r
    /\ file[r].status = "converged" /\ Fulfils(conv[r].trace)
    /\ \A i \in 1..CandidateAt :
         \/ drift.files[i] = r
         \/ \E q \in Run \ {r} : /\ conv[q].pc = "gone" /\ file[q].status = "converged"
                                 /\ drift.files[i] \in {q, None}
=============================================================================
