---------------------------- MODULE MCAgentJobs ----------------------------
(***************************************************************************)
(* Small instances of AgentJobs: what the clients ask for.                  *)
(***************************************************************************)
EXTENDS AgentJobs

OneStep == {<<"agent_run", 1>>}
Single  == {<<"agent_step", 1>>}
Long    == {<<"agent_run", 3>>, <<"agent_step", 1>>}

(* Two instances in one: two single steps and one stop of the controller,  *)
(* or one run of up to three steps and two.  Only what nobody has to do is *)
(* ruled out: to ask for a job, to resume one, to stop, and to discard one *)
(* of two jobs that is not queued any more.  No action that fairness is    *)
(* asked of is ever ruled out, so what is left is a smaller system.        *)
TwoOrLong ==
  /\ \A c \in Client : request'[c].op # "resume"
  /\ record'[2] # Absent => record'[1].kind = "agent_step" /\ record'[2].kind = "agent_step"
  /\ \A j \in Job : record'[2] # Absent /\ record'[j].status = "discarded" =>
       record[j].status \in {"queued", "discarded"}
  /\ stops' > 1 => record'[1] # Absent /\ record'[1].kind = "agent_run"
=============================================================================
