---------------------------- MODULE ApprovalLife ----------------------------
(***************************************************************************)
(* What the approval queue of a session promises, whatever requests and    *)
(* operators do at once and however long each of them takes: a request that *)
(* needs an approval acts only after it was let in with one, granted for   *)
(* just what it wants; nobody is asked twice for the same thing; and an    *)
(* approval that was spent is never decided again and lets nobody in.      *)
(*                                                                         *)
(* A request that is cancelled may leave its question, or the spending of  *)
(* its approval, to come about later (late).  Then a question may meanwhile *)
(* be asked by another request too, and the spending may come after a      *)
(* verdict, or a verdict over it: it still lets nobody in while it lasts.  *)
(*                                                                         *)
(* It does not promise that an approval is used once, nor that it is still *)
(* granted when the request acts: who was let in stays in.                 *)
(***************************************************************************)
CONSTANTS Request, Approval,
          Subject,    \* what can be asked for
          None

VARIABLES approval,   \* a status (none, adrift, pending, approved, rejected, executed), and
                      \* what it is for
          late,       \* approvals that were left to be asked or spent later
          request     \* its place (away, outside, inside, acted, gone), what it wants an
                      \* approval for, and the one it was let in with

vars == <<approval, late, request>>

Unused  == [status |-> "none", for |-> None]
PendingOn(s) == {a \in Approval \ late : approval[a] = [status |-> "pending", for |-> s]}

Init ==
  /\ approval \in [Approval -> {Unused} \cup [status : {"pending"}, for : Subject]]
  /\ \A s \in Subject : \A a, b \in PendingOn(s) : a = b
  /\ late = {}
  /\ request = [r \in Request |-> [place |-> "away", want |-> None, held |-> None]]

Becomes(r, place, want, held) ==
  request' = [request EXCEPT ![r] = [place |-> place, want |-> want, held |-> held]]

\* A request comes, with what it needs an approval for; one that needs none may act.
Arrive(r) ==
  /\ request[r].place = "away"
  /\ \/ Becomes(r, "inside", None, None)
     \/ \E s \in Subject : Becomes(r, "outside", s, None)
  /\ UNCHANGED <<approval, late>>

\* It is let in with an approval that is granted, and for just that.
Admit(r) ==
  /\ request[r].place = "outside"
  /\ \E a \in Approval : /\ approval[a] = [status |-> "approved", for |-> request[r].want]
                        /\ Becomes(r, "inside", request[r].want, a)
  /\ UNCHANGED <<approval, late>>

\* It goes away with a question to an operator, unless the question is pending.
AskApproval(r) ==
  /\ request[r].place = "outside" /\ PendingOn(request[r].want) = {}
  /\ \E a \in Approval :
       /\ approval[a] = Unused
       /\ approval' = [approval EXCEPT ![a] = [status |-> "pending", for |-> request[r].want]]
  /\ Becomes(r, "gone", request[r].want, None)
  /\ UNCHANGED late

\* It is cancelled while it asks: the question comes later.
LeaveQuestion(r) ==
  /\ request[r].place = "outside" /\ PendingOn(request[r].want) = {}
  /\ \E a \in Approval :
       /\ approval[a] = Unused
       /\ approval' = [approval EXCEPT ![a] = [status |-> "adrift", for |-> request[r].want]]
       /\ late' = late \cup {a}
  /\ Becomes(r, "gone", request[r].want, None)

QuestionComes(a) ==
  /\ approval[a].status = "adrift"
  /\ approval' = [approval EXCEPT ![a].status = "pending"]
  /\ UNCHANGED <<late, request>>

\* It is refused, or fails on its way, and has not acted.
Leave(r) ==
  /\ request[r].place \in {"outside", "inside"}
  /\ Becomes(r, "gone", request[r].want, None)
  /\ UNCHANGED <<approval, late>>

Perform(r) ==
  /\ request[r].place = "inside"
  /\ Becomes(r, "acted", request[r].want, request[r].held)
  /\ UNCHANGED <<approval, late>>

HasActed(r) == request[r].place = "acted" /\ request[r].held # None

\* A request that has acted spends the approval that it was let in with; when it was
\* cancelled there, whatever was decided since.
Spend(r) ==
  /\ HasActed(r)
  /\ approval[request[r].held].status = "approved" \/ request[r].held \in late
  /\ approval' = [approval EXCEPT ![request[r].held].status = "executed"]
  /\ UNCHANGED <<late, request>>

LeaveSpending(r) ==
  /\ HasActed(r)
  /\ late' = late \cup {request[r].held}
  /\ UNCHANGED <<approval, request>>

\* An operator may change a verdict as long as the approval is not spent.
Decide(a) ==
  /\ approval[a].status \in {"pending", "approved", "rejected"} \/ (approval[a].status = "executed" /\ a \in late)
  /\ \E verdict \in {"approved", "rejected"} : approval' = [approval EXCEPT ![a].status = verdict]
  /\ UNCHANGED <<late, request>>

Next ==
  \/ \E r \in Request : Arrive(r) \/ Admit(r) \/ AskApproval(r) \/ Leave(r) \/ Perform(r) \/ Spend(r)
                            \/ LeaveQuestion(r) \/ LeaveSpending(r)
  \/ \E a \in Approval : Decide(a) \/ QuestionComes(a)

Spec == Init /\ [][Next]_vars
=============================================================================
