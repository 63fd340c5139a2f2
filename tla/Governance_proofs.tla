---------------------------- MODULE Governance_proofs -----------------------
(***************************************************************************)
(* What stands before an action and what is recorded of it: the approvals, *)
(* the two logs and the limiter keep their promises.                       *)
(***************************************************************************)
EXTENDS ApprovedActions, ReceiptLogs, RequestLimits, FiniteSetTheorems, SequenceTheorems, TLAPS

(***************************************************************************)
(* The approvals, for any number of requests, operators and approvals.     *)
(*                                                                         *)
(* What the properties lack to be inductive: who is between reading and    *)
(* writing a record holds the lock of the store (Locks), so that what it   *)
(* read still holds when it writes, but for what the threads of cancelled  *)
(* requests write (Writers); a record that was created keeps what it is    *)
(* for, and one that is approved was granted (Store); the                  *)
(* path of a request tells what it was shown (Stages); and a request past  *)
(* its checks is cleared although it has not acted yet (Clearance).        *)
(***************************************************************************)

Decisions == {Plain, Upload} \cup {ask[1] : ask \in UNION {m.asks : m \in Modes}}
Profiles  == {"direct", "operator"} \cup {ask[2] : ask \in UNION {m.asks : m \in Modes}}
Kinds     == {None, "upload", "write"} \cup Risky
Contexts  == {None} \cup [risk : {d.risk : d \in Decisions}, approval : Approval \cup {None}]

Past == {"start", "queued", "run", "block", "record", "mark", "persist"}
Steps == {"idle", "govern", "check", "recheck", "ask", "create", "done"} \cup Past
Outcomes == {None, "ok", "failed", "blocked", "raised", "refused", "rejected", "unmarked",
             "approval_required", "cancelled"}

Record == [status : {"none", "adrift", "pending", "approved", "rejected", "executed"},
           decision : Decisions \cup {None}, kind : Kinds, expires : Nat \cup {None}]
Doing == [pc : Steps, decision : Decisions \cup {None}, approval : Approval \cup {None},
          profile : Profiles \cup {None}, uses : Approval \cup {None},
          seen : Contexts \cup Kinds, effect : BOOLEAN, outcome : Outcomes]
Deciding == [pc : {"idle", "write"}, approval : Approval \cup {None},
             verdict : {None, "approved", "rejected"}]

Types ==
  /\ mode \in Modes
  /\ approvals \in [Approval -> Record]
  /\ granted \in SUBSET Approval
  /\ strays \in SUBSET Request /\ cut \in SUBSET Approval
  /\ req \in [Request -> Doing]
  /\ op \in [Operator -> Deciding]
  /\ context \in Contexts
  /\ clock \in Nat

(* Who is between reading and writing a record holds the lock.             *)
Locks ==
  /\ \A r \in Request : req[r].pc \in {"create", "persist"} => storeLock = r
  /\ \A o \in Operator : op[o].pc = "write" => storeLock = o

(* What the place of a request in its run says of it.                      *)
Stages ==
  \A r \in Request :
    /\ req[r].effect => req[r].pc \in {"record", "mark", "persist", "done"}
    /\ req[r].pc \in {"govern", "check"} => req[r].profile # "direct"
    /\ req[r].pc \notin {"idle", "done"} => req[r].decision \in Decisions
    /\ req[r].pc = "recheck" /\ req[r].profile = "direct" => req[r].decision = Upload
    /\ req[r].pc \in {"mark", "persist"} => req[r].uses \in Approval

(* A record is granted before it is approved, and is never taken back.     *)
Store ==
  /\ \A a \in Approval : approvals[a].status \in {"approved", "executed"} => a \in granted
  /\ \A a \in granted : approvals[a].status \notin {"none", "adrift"}
  /\ \A a \in Approval : approvals[a].status # "none" => approvals[a].decision \in Decisions
  /\ \A a \in Approval : approvals[a].status = "adrift" => a \in cut

(* What a writer has read still holds, unless a thread that was left alone *)
(* has written it; such a thread writes for a request that is done.        *)
Writers ==
  /\ \A o \in Operator : op[o].pc = "write" =>
       /\ op[o].approval \in Approval /\ op[o].verdict \in {"approved", "rejected"}
       /\ approvals[op[o].approval].status \notin {"none", "adrift"}
       /\ approvals[op[o].approval].status = "executed" => op[o].approval \in cut
  /\ \A r \in Request : req[r].pc = "create" =>
       /\ \E a \in Approval : approvals[a].status = "none"
       /\ \A a \in Approval \ cut : ~ (/\ approvals[a].status = "pending" /\ approvals[a].kind = req[r].seen
                                       /\ approvals[a].decision = req[r].decision)
       /\ req[r].seen \in Kinds
  /\ \A r \in Request : req[r].pc = "persist" =>
       \/ approvals[req[r].uses].status = "approved"
       \/ approvals[req[r].uses].status = "executed" /\ req[r].uses \in cut
  /\ \A r \in strays : req[r].pc = "done" /\ req[r].uses \in granted \cap cut

GrantedFor(r, kind) ==
  kind # None => /\ req[r].approval \in granted
                 /\ approvals[req[r].approval].kind = kind
                 /\ approvals[req[r].approval].decision = req[r].decision

(* A request past a check is cleared for what that check asks for.         *)
Clearance ==
  \A r \in Request :
    /\ req[r].pc \in Past \/ req[r].effect => GrantedFor(r, Needed(r))
    /\ req[r].pc = "recheck" /\ req[r].profile # "direct" => GrantedFor(r, Needed(r))
    /\ req[r].pc = "check" /\ req[r].profile = "governed"
         => GrantedFor(r, GovernedKind(req[r].decision))

Inv == Types /\ Locks /\ Stages /\ Store /\ Writers /\ OnePendingEach /\ Clearance /\ NoLeftoverContext

-----------------------------------------------------------------------------
(* What a step of a request does to its record.                            *)

Others(r)  == \A q \in Request \ {r} : req'[q] = req[q]
Moved(r)   == req' \in [Request -> Doing] /\ Others(r)
SameAsk(r) == /\ req'[r].decision = req[r].decision /\ req'[r].profile = req[r].profile
              /\ req'[r].approval = req[r].approval
StoreSame  == UNCHANGED <<mode, approvals, granted, storeLock, strays, cut, op>>
FromTo(r, from, to) == Moved(r) /\ req[r].pc = from /\ req'[r].pc \in to
SameUse(r) == req'[r].uses = req[r].uses /\ req'[r].effect = req[r].effect

LEMMA NoneApart == None \notin Approval /\ None \notin Request /\ None \notin Operator
BY ActionsAssumption

LEMMA KindsOf ==
  ASSUME NEW d
  PROVE  ApprovalKind(d) \in Kinds /\ GovernedKind(d) \in Kinds
BY DEF ApprovalKind, GovernedKind, Kinds, Risky

LEMMA RowMoves ==
  ASSUME Types, NEW r \in Request, NEW row \in Doing, req' = [req EXCEPT ![r] = row]
  PROVE  Moved(r) /\ req'[r] = row
BY DEF Types, Moved, Others

AskRow(r, s, d, a, p) ==
  req' = [req EXCEPT ![r] = [req[r] EXCEPT !.pc = s, !.decision = d, !.approval = a, !.profile = p]]

LEMMA NewAsk ==
  ASSUME Types, NEW r \in Request, NEW s \in Steps, NEW d \in Decisions,
         NEW a \in Approval \cup {None}, NEW p \in Profiles,
         AskRow(r, s, d, a, p)
  PROVE  /\ Moved(r) /\ SameUse(r)
         /\ req'[r].pc = s /\ req'[r].decision = d /\ req'[r].approval = a /\ req'[r].profile = p
<1>1. PICK row : row = [req[r] EXCEPT !.pc = s, !.decision = d, !.approval = a, !.profile = p]
  OBVIOUS
<1>2. PICK old \in Doing : old = req[r]
  BY DEF Types
<1>3. row = [old EXCEPT !.pc = s, !.decision = d, !.approval = a, !.profile = p]
  BY <1>1, <1>2
<1>4. row \in Doing /\ row.uses = old.uses /\ row.effect = old.effect
      /\ row.pc = s /\ row.decision = d /\ row.approval = a /\ row.profile = p
  BY <1>3 DEF Doing
<1> QED
  BY <1>1, <1>2, <1>4, RowMoves DEF SameUse, AskRow

LEMMA GotoMoves ==
  ASSUME Types, NEW r \in Request, NEW s \in Steps, Goto(r, s)
  PROVE  Moved(r) /\ req'[r].pc = s /\ SameAsk(r) /\ SameUse(r) /\ req'[r].seen = req[r].seen
BY DEF Types, Goto, Doing, Moved, Others, SameAsk, SameUse

LEMMA EndMoves ==
  ASSUME Types, NEW r \in Request, NEW x \in Outcomes, End(r, x)
  PROVE  Moved(r) /\ req'[r].pc = "done" /\ SameAsk(r) /\ SameUse(r)
<1>1. req' = [req EXCEPT ![r] = [req[r] EXCEPT !.pc = "done", !.outcome = x, !.seen = None]]
  BY DEF End, Types, Doing
<1>2. "done" \in Steps /\ None \in Contexts \cup Kinds
  BY DEF Steps, Kinds
<1> QED
  BY <1>1, <1>2, ZenonT(40) DEF Types, Doing, Moved, Others, SameAsk, SameUse

LEMMA SubmitMoves ==
  ASSUME Types, NEW r \in Request, Submit(r)
  PROVE  /\ FromTo(r, "idle", {"govern", "check"}) /\ StoreSame /\ SameUse(r)
         /\ req'[r].decision \in Decisions /\ req'[r].profile # "direct"
         /\ req'[r].pc = "check" => req'[r].profile # "governed"
         /\ req'[r].pc = "govern" => req'[r].profile = "governed"
         /\ UNCHANGED <<context, clock>>
<1>1. PICK ask \in mode.asks, a \in Shown :
        /\ ask[2] # "direct"
        /\ req' = [req EXCEPT ![r].pc = IF ask[2] = "governed" THEN "govern" ELSE "check",
                          ![r].decision = ask[1], ![r].approval = a, ![r].profile = ask[2]]
  BY DEF Submit
<1>2. PICK d \in Decisions, p \in Profiles : d = ask[1] /\ p = ask[2]
  BY DEF Decisions, Profiles, Types
<1>3. a \in Approval \cup {None}
  BY DEF Shown
<1>4. PICK s \in {"govern", "check"} : s = IF ask[2] = "governed" THEN "govern" ELSE "check"
  OBVIOUS
<1>5. AskRow(r, s, d, a, p)
  BY <1>1, <1>2, <1>4 DEF Types, Doing, AskRow
<1>6. s \in Steps
  BY DEF Steps
<1>7. FromTo(r, "idle", {"govern", "check"}) /\ SameUse(r)
      /\ req'[r].decision = d /\ req'[r].profile = p /\ req'[r].pc = s
  BY <1>3, <1>4, <1>5, <1>6, NewAsk, ZenonT(40) DEF FromTo, Submit, MayStart
<1> QED
  BY <1>1, <1>2, <1>4, <1>7 DEF Submit, StoreSame

LEMMA ExecuteApprovalMoves ==
  ASSUME Types, Store, NEW r \in Request, ExecuteApproval(r)
  PROVE  /\ FromTo(r, "idle", {"check"}) /\ StoreSame /\ SameUse(r)
         /\ req'[r].decision \in Decisions /\ req'[r].profile = "operator"
         /\ UNCHANGED <<context, clock>>
<1>1. PICK a \in Approval :
        /\ approvals[a].status = "approved"
        /\ req' = [req EXCEPT ![r].pc = "check", ![r].decision = approvals[a].decision,
                              ![r].approval = a, ![r].profile = "operator"]
  BY DEF ExecuteApproval
<1>2. PICK d \in Decisions : d = approvals[a].decision
  BY <1>1 DEF Store
<1>3. AskRow(r, "check", d, a, "operator")
  BY <1>1, <1>2 DEF Types, Doing, AskRow
<1>4. "check" \in Steps /\ "operator" \in Profiles
  BY DEF Steps, Profiles
<1>5. FromTo(r, "idle", {"check"}) /\ SameUse(r) /\ req'[r].decision = d /\ req'[r].profile = "operator"
  BY <1>2, <1>3, <1>4, NewAsk, ZenonT(40) DEF FromTo, ExecuteApproval, MayStart
<1> QED
  BY <1>2, <1>5 DEF ExecuteApproval, StoreSame

LEMMA DirectMoves ==
  ASSUME Types, NEW r \in Request, Direct(r)
  PROVE  /\ FromTo(r, "idle", {"queued", "recheck"}) /\ StoreSame /\ SameUse(r)
         /\ req'[r].profile = "direct"
         /\ req'[r].pc = "queued" => req'[r].decision = Plain
         /\ req'[r].pc = "recheck" => req'[r].decision = Upload
         /\ UNCHANGED <<context, clock>>
<1>1. Plain \in Decisions /\ Upload \in Decisions /\ "direct" \in Profiles
      /\ "queued" \in Steps /\ "recheck" \in Steps
  BY DEF Decisions, Profiles, Steps, Past
<1>2. PICK s \in {"queued", "recheck"}, d \in {Plain, Upload}, a \in Approval \cup {None} :
        /\ AskRow(r, s, d, a, "direct")
        /\ (s = "queued" /\ d = Plain) \/ (s = "recheck" /\ d = Upload)
  <2>1. CASE req' = [req EXCEPT ![r].pc = "queued", ![r].decision = Plain, ![r].profile = "direct"]
    <3>1. AskRow(r, "queued", Plain, req[r].approval, "direct")
      BY <2>1 DEF Types, Doing, AskRow
    <3>2. req[r].approval \in Approval \cup {None}
      BY DEF Types, Doing
    <3> QED
      BY <3>1, <3>2
  <2>2. ASSUME NEW a \in Shown,
               req' = [req EXCEPT ![r].pc = "recheck", ![r].decision = Upload,
                                  ![r].approval = a, ![r].profile = "direct"]
        PROVE  AskRow(r, "recheck", Upload, a, "direct") /\ a \in Approval \cup {None}
    BY <2>2 DEF Types, Doing, Shown, AskRow
  <2> QED
    BY <2>1, <2>2 DEF Direct
<1>3. FromTo(r, "idle", {"queued", "recheck"}) /\ SameUse(r) /\ req'[r].decision = d /\ req'[r].pc = s
      /\ req'[r].profile = "direct"
  BY <1>1, <1>2, NewAsk, ZenonT(40) DEF FromTo, Direct, MayStart
<1> QED
  BY <1>2, <1>3 DEF Direct, StoreSame

LEMMA GovernMoves ==
  ASSUME Types, NEW r \in Request, Govern(r)
  PROVE  /\ FromTo(r, "govern", {"check", "ask", "done"}) /\ StoreSame /\ SameUse(r) /\ SameAsk(r)
         /\ req'[r].pc = "check" =>
              LET kind == GovernedKind(req[r].decision) IN
              kind = None \/ (req[r].approval # None /\ Approved(req[r].approval, kind, req[r].decision))
         /\ req'[r].pc = "ask" => GovernedKind(req[r].decision) # None
         /\ UNCHANGED <<context, clock>>
<1>1. "check" \in Steps /\ "ask" \in Steps /\ "refused" \in Outcomes
  BY DEF Steps, Outcomes
<1>2. Goto(r, "check") \/ Goto(r, "ask") \/ End(r, "refused")
  BY DEF Govern
<1>3. FromTo(r, "govern", {"check", "ask", "done"}) /\ SameUse(r) /\ SameAsk(r)
  BY <1>1, <1>2, GotoMoves, EndMoves DEF FromTo, Govern
<1>4. Goto(r, "ask") => req'[r].pc = "ask"
  BY <1>1, GotoMoves
<1>5. End(r, "refused") => req'[r].pc = "done"
  BY <1>1, EndMoves
<1>6. Goto(r, "check") => req'[r].pc = "check"
  BY <1>1, GotoMoves
<1> QED
  BY <1>3, <1>4, <1>5, <1>6 DEF Govern, StoreSame

LEMMA CheckMoves ==
  ASSUME Types, Stages, NEW r \in Request, Check(r)
  PROVE  LET kind == ApprovalKind(req[r].decision) IN
         /\ FromTo(r, "check", {"recheck", "start", "ask", "done"}) /\ StoreSame /\ SameAsk(r)
         /\ req'[r].effect = req[r].effect /\ clock' = clock
         /\ req'[r].pc \in {"recheck", "start"} =>
              kind = None \/ (req[r].approval # None /\ Approved(req[r].approval, kind, req[r].decision))
         /\ req'[r].pc \notin {"recheck", "start"} => UNCHANGED context
         /\ \/ req'[r].uses \in {None, req[r].uses}
            \/ req'[r].uses = req[r].approval /\ Approved(req[r].approval, kind, req[r].decision)
         /\ context' \in Contexts
         /\ req'[r].pc = "recheck" => req[r].decision.action = "upload"
         /\ req'[r].pc \in {"ask", "done"} => kind # None /\ SameUse(r)
         /\ req'[r].pc \in {"recheck", "start"} =>
              \/ kind = None /\ req'[r].uses = None
              \/ kind # None /\ req'[r].uses = req[r].approval
<1> DEFINE next == IF req[r].decision.action = "upload" THEN "recheck" ELSE "start"
           Pass(uses) ==
             /\ req' = [req EXCEPT ![r].pc = next, ![r].uses = uses]
             /\ context' = [risk |-> req[r].decision.risk, approval |-> req[r].approval]
<1>1. "ask" \in Steps /\ "refused" \in Outcomes /\ next \in Steps /\ next \in {"recheck", "start"}
  BY DEF Steps, Outcomes, Past
<1>2. ASSUME NEW u \in Approval \cup {None}, Pass(u)
      PROVE  /\ Moved(r) /\ SameAsk(r) /\ req'[r].pc \in {"recheck", "start"} /\ req'[r].uses = u
             /\ req'[r].effect = req[r].effect /\ context' \in Contexts
             /\ req'[r].pc = "recheck" => req[r].decision.action = "upload"
  <2>1. req' = [req EXCEPT ![r] = [req[r] EXCEPT !.pc = next, !.uses = u]]
    BY <1>2 DEF Types, Doing
  <2>2. Moved(r) /\ SameAsk(r) /\ req'[r].pc = next /\ req'[r].uses = u /\ req'[r].effect = req[r].effect
    BY <1>1, <2>1, ZenonT(40) DEF Types, Doing, Moved, Others, SameAsk
  <2>3. req[r].decision \in Decisions /\ req[r].approval \in Approval \cup {None}
    BY DEF Check, Stages, Types, Doing
  <2>4. context' \in Contexts
    BY <1>2, <2>3 DEF Contexts
  <2> QED
    BY <1>1, <2>2, <2>4
<1>3. Goto(r, "ask") => Moved(r) /\ SameAsk(r) /\ SameUse(r) /\ req'[r].pc = "ask"
  BY <1>1, GotoMoves
<1>4. End(r, "refused") => Moved(r) /\ SameAsk(r) /\ SameUse(r) /\ req'[r].pc = "done"
  BY <1>1, EndMoves
<1>5. req[r].approval \in Approval \cup {None} /\ context \in Contexts
  BY DEF Types, Doing
<1>6. \/ ApprovalKind(req[r].decision) = None /\ Pass(None)
      \/ ApprovalKind(req[r].decision) # None /\ Goto(r, "ask") /\ UNCHANGED context
      \/ /\ ApprovalKind(req[r].decision) # None /\ req[r].approval # None /\ Pass(req[r].approval)
         /\ Approved(req[r].approval, ApprovalKind(req[r].decision), req[r].decision)
      \/ ApprovalKind(req[r].decision) # None /\ End(r, "refused") /\ UNCHANGED context
  BY DEF Check
<1>7. req[r].pc = "check" /\ StoreSame /\ clock' = clock
  BY DEF Check, StoreSame
<1> HIDE DEF next, Pass
<1> QED
  BY <1>2, <1>3, <1>4, <1>5, <1>6, <1>7 DEF FromTo, SameUse

LEMMA RecheckMoves ==
  ASSUME Types, NEW r \in Request, Recheck(r)
  PROVE  LET kind == ApprovalKind(Upload) IN
         /\ FromTo(r, "recheck", {"start", "ask", "done"}) /\ StoreSame /\ SameAsk(r)
         /\ req'[r].effect = req[r].effect /\ clock' = clock
         /\ req'[r].pc = "start" =>
              kind = None \/ (req[r].approval # None /\ Approved(req[r].approval, kind, Upload))
         /\ req'[r].pc = "start" => UNCHANGED context
         /\ req'[r].pc # "start" => Finally(r)
         /\ \/ req'[r].uses = req[r].uses
            \/ /\ req'[r].uses = req[r].approval /\ Approved(req[r].approval, kind, Upload)
               /\ kind # None /\ req'[r].pc = "start"
         /\ req'[r].pc = "ask" => kind # None /\ req[r].approval = None
<1>1. "ask" \in Steps /\ "refused" \in Outcomes /\ "start" \in Steps
  BY DEF Steps, Outcomes, Past
<1>2. ASSUME req' = [req EXCEPT ![r].pc = "start", ![r].uses = req[r].approval], req[r].approval # None
      PROVE  /\ Moved(r) /\ SameAsk(r) /\ req'[r].pc = "start" /\ req'[r].uses = req[r].approval
             /\ req'[r].effect = req[r].effect
  <2>1. req' = [req EXCEPT ![r] = [req[r] EXCEPT !.pc = "start", !.uses = req[r].approval]]
    BY <1>2 DEF Types, Doing
  <2>2. PICK a \in Approval : a = req[r].approval
    BY <1>2 DEF Types, Doing
  <2>3. req' = [req EXCEPT ![r] = [req[r] EXCEPT !.pc = "start", !.uses = a]]
    BY <2>1, <2>2
  <2>4. Moved(r) /\ SameAsk(r) /\ req'[r].pc = "start" /\ req'[r].uses = a /\ req'[r].effect = req[r].effect
    BY <1>1, <2>3, ZenonT(40) DEF Types, Doing, Moved, Others, SameAsk
  <2> QED
    BY <2>2, <2>4
<1>3. Goto(r, "ask") => Moved(r) /\ SameAsk(r) /\ SameUse(r) /\ req'[r].pc = "ask"
  BY <1>1, GotoMoves
<1>4. End(r, "refused") => Moved(r) /\ SameAsk(r) /\ SameUse(r) /\ req'[r].pc = "done"
  BY <1>1, EndMoves
<1>5. Goto(r, "start") => Moved(r) /\ SameAsk(r) /\ SameUse(r) /\ req'[r].pc = "start"
  BY <1>1, GotoMoves
<1>6. \/ ApprovalKind(Upload) = None /\ Goto(r, "start") /\ UNCHANGED context
      \/ ApprovalKind(Upload) # None /\ req[r].approval = None /\ Goto(r, "ask") /\ Finally(r)
      \/ /\ ApprovalKind(Upload) # None /\ req[r].approval # None
         /\ req' = [req EXCEPT ![r].pc = "start", ![r].uses = req[r].approval]
         /\ Approved(req[r].approval, ApprovalKind(Upload), Upload) /\ UNCHANGED context
      \/ End(r, "refused") /\ Finally(r)
  BY DEF Recheck
<1>7. req[r].pc = "recheck" /\ StoreSame /\ clock' = clock
  BY DEF Recheck, StoreSame
<1> QED
  BY <1>2, <1>3, <1>4, <1>5, <1>6, <1>7 DEF FromTo, SameUse

LEMMA FindPendingMoves ==
  ASSUME Types, NEW r \in Request, FindPending(r)
  PROVE  /\ FromTo(r, "ask", {"done", "create"}) /\ SameUse(r)
         /\ req'[r].decision = req[r].decision /\ req'[r].profile = req[r].profile
         /\ UNCHANGED <<mode, approvals, granted, strays, cut, op, context, clock>>
         /\ req'[r].pc = "done" => storeLock' = storeLock
         /\ req'[r].pc = "create" =>
              /\ storeLock = None /\ storeLock' = r /\ req'[r].seen \in Kinds
              /\ req'[r].seen = AskedKind(r)
              /\ \E a \in Approval : approvals[a].status = "none"
              /\ PendingFor(req[r].decision, req'[r].seen) = {}
<1> DEFINE match == PendingFor(req[r].decision, AskedKind(r))
<1>1. "done" \in Steps /\ "create" \in Steps /\ "approval_required" \in Outcomes
  BY DEF Steps, Outcomes
<1>2. CASE match # {}
  <2>1. PICK a \in Approval : a = CHOOSE x \in match : TRUE
    BY <1>2 DEF PendingFor
  <2>2. req' = [req EXCEPT ![r].pc = "done", ![r].outcome = "approval_required", ![r].approval = a]
        /\ UNCHANGED storeLock
    BY <1>2, <2>1 DEF FindPending
  <2>3. req' = [req EXCEPT ![r] = [req[r] EXCEPT !.pc = "done", !.outcome = "approval_required",
                                                 !.approval = a]]
    BY <2>2 DEF Types, Doing
  <2>4. Moved(r) /\ SameUse(r) /\ req'[r].decision = req[r].decision /\ req'[r].profile = req[r].profile
        /\ req'[r].pc = "done"
    BY <1>1, <2>3, ZenonT(40) DEF Types, Doing, Moved, Others, SameUse
  <2> QED
    BY <2>2, <2>4 DEF FindPending, FromTo
<1>3. CASE match = {}
  <2>1. PICK k \in Kinds : k = AskedKind(r)
    BY KindsOf DEF AskedKind
  <2>2. req' = [req EXCEPT ![r].pc = "create", ![r].seen = k] /\ storeLock' = r
        /\ \E a \in Approval : approvals[a].status = "none"
    BY <1>3, <2>1 DEF FindPending
  <2>3. req' = [req EXCEPT ![r] = [req[r] EXCEPT !.pc = "create", !.seen = k]]
    BY <2>2 DEF Types, Doing
  <2>4. Moved(r) /\ SameUse(r) /\ req'[r].decision = req[r].decision /\ req'[r].profile = req[r].profile
        /\ req'[r].pc = "create" /\ req'[r].seen = k
    BY <1>1, <2>3 DEF Types, Doing, Moved, Others, SameUse
  <2>5. PendingFor(req[r].decision, req'[r].seen) = {}
    BY <1>3, <2>1, <2>4
  <2>6. UNCHANGED <<mode, approvals, granted, strays, cut, op, context, clock>> /\ storeLock = None /\ req[r].pc = "ask"
    BY DEF FindPending
  <2> QED
    BY <2>1, <2>2, <2>4, <2>5, <2>6 DEF FromTo
<1> QED
  BY <1>2, <1>3

LEMMA CreatePendingMoves ==
  ASSUME Types, Writers, Stages, NEW r \in Request, CreatePending(r)
  PROVE  /\ FromTo(r, "create", {"done"}) /\ SameUse(r)
         /\ req'[r].decision = req[r].decision /\ req'[r].profile = req[r].profile
         /\ UNCHANGED <<mode, granted, strays, cut, op, context, clock>>
         /\ \E a \in Approval :
              /\ approvals[a].status = "none"
              /\ approvals' = [approvals EXCEPT ![a] = [status |-> "pending", decision |-> req[r].decision,
                                                        kind |-> req[r].seen, expires |-> None]]
<1>1. "done" \in Steps /\ "approval_required" \in Outcomes /\ None \in Contexts \cup Kinds
  BY DEF Steps, Outcomes, Kinds
<1>2. PICK a \in Approval : /\ a = CHOOSE x \in Approval : approvals[x].status = "none"
                            /\ approvals[a].status = "none"
  BY DEF CreatePending, Writers
<1>3. req' = [req EXCEPT ![r] = [req[r] EXCEPT !.pc = "done", !.outcome = "approval_required",
                                               !.approval = a, !.seen = None]]
  BY <1>2 DEF CreatePending, Types, Doing
<1>4. Moved(r) /\ SameUse(r) /\ req'[r].decision = req[r].decision /\ req'[r].profile = req[r].profile
      /\ req'[r].pc = "done"
  BY <1>1, <1>3, ZenonT(40) DEF Types, Doing, Moved, Others, SameUse
<1> QED
  BY <1>2, <1>4 DEF CreatePending, FromTo

(* The steps of the pipeline itself, and a mark that fails, only go on: the  *)
(* request keeps its decision and its approval, and the store is left alone. *)
Onward(r) ==
  /\ Moved(r) /\ SameAsk(r) /\ StoreSame
  /\ req'[r].uses = req[r].uses
  /\ req[r].pc \in Past \ {"persist"}
  /\ req'[r].pc \in (Past \ {"start", "persist"}) \cup {"done"}
  /\ req'[r].pc = "mark" => req[r].uses \in Approval
  /\ req'[r].effect => req'[r].pc \in {"record", "mark", "done"}
  /\ context' \in Contexts /\ clock' = clock
  /\ \/ context' = None
     \/ context' = context /\ (req'[r].pc \in Past \/ req[r].profile = "direct")

LEMMA FinallyOnward ==
  ASSUME Types, NEW r \in Request, Finally(r)
  PROVE  context' \in Contexts /\ (context' = None \/ (context' = context /\ req[r].profile = "direct"))
BY DEF Types, Finally, Contexts

LEMMA StartOnward ==
  ASSUME Types, Stages, NEW r \in Request, StartAction(r)
  PROVE  Onward(r)
<1>1. "queued" \in Steps /\ "rejected" \in Outcomes
  BY DEF Steps, Outcomes, Past
<1>2. CASE Goto(r, "queued") /\ UNCHANGED context
  BY <1>1, <1>2, GotoMoves DEF StartAction, Onward, StoreSame, SameUse, Past, Stages, Types
<1>3. CASE End(r, "rejected") /\ Finally(r)
  BY <1>1, <1>3, EndMoves, FinallyOnward DEF StartAction, Onward, StoreSame, SameUse, Past
<1> QED
  BY <1>2, <1>3 DEF StartAction

LEMMA PrepareOnward ==
  ASSUME Types, Stages, NEW r \in Request, Prepare(r)
  PROVE  Onward(r) /\ context' = None
<1>1. PICK s \in {"block", "run"}, c \in Contexts :
        /\ req' = [req EXCEPT ![r] = [req[r] EXCEPT !.pc = s, !.seen = c]]
        /\ context' = None
  BY DEF Prepare, Types, Doing
<1>2. s \in Steps /\ None \in Contexts
  BY DEF Steps, Past, Contexts
<1>3. Moved(r) /\ SameAsk(r) /\ SameUse(r) /\ req'[r].pc = s
  BY <1>1, <1>2, ZenonT(40) DEF Types, Doing, Moved, Others, SameAsk, SameUse
<1> QED
  BY <1>1, <1>2, <1>3 DEF Prepare, Onward, StoreSame, SameUse, Past, Stages

RunRow(r, s, e, x, n) ==
  req' = [req EXCEPT ![r] = [req[r] EXCEPT !.pc = s, !.effect = e, !.outcome = x, !.seen = n]]

LEMMA RunOnward ==
  ASSUME Types, NEW r \in Request, req[r].pc = "run", StoreSame, UNCHANGED clock,
         NEW s \in {"record", "done"}, NEW e \in BOOLEAN, NEW x \in Outcomes, NEW n \in Contexts \cup Kinds,
         RunRow(r, s, e, x, n),
         (context' = context /\ s = "record") \/ (Finally(r) /\ s = "done")
  PROVE  Onward(r)
<1>1. s \in Steps
  BY DEF Steps, Past
<1>2. Moved(r) /\ SameAsk(r) /\ req'[r].uses = req[r].uses /\ req'[r].pc = s /\ req'[r].effect = e
  BY <1>1, ZenonT(40) DEF Types, Doing, Moved, Others, SameAsk, RunRow
<1> QED
  BY <1>2, FinallyOnward DEF Onward, Past, Types

LEMMA ExecuteOnward ==
  ASSUME Types, NEW r \in Request, Execute(r)
  PROVE  Onward(r)
<1>1. PICK e \in BOOLEAN, x \in Outcomes :
        req' = [req EXCEPT ![r] = [req[r] EXCEPT !.pc = "record", !.effect = e, !.outcome = x]]
  <2>1. ASSUME NEW x \in {"ok", "failed", "blocked"},
               req' = [req EXCEPT ![r].pc = "record", ![r].effect = TRUE, ![r].outcome = x]
        PROVE  req' = [req EXCEPT ![r] = [req[r] EXCEPT !.pc = "record", !.effect = TRUE, !.outcome = x]]
    BY <2>1 DEF Types, Doing
  <2>2. ASSUME NEW x \in {"failed", "blocked"},
               req' = [req EXCEPT ![r].pc = "record", ![r].outcome = x]
        PROVE  req' = [req EXCEPT ![r] = [req[r] EXCEPT !.pc = "record", !.effect = req[r].effect, !.outcome = x]]
    BY <2>2 DEF Types, Doing
  <2>3. req[r].effect \in BOOLEAN /\ TRUE \in BOOLEAN /\ {"ok", "failed", "blocked"} \subseteq Outcomes
    BY DEF Types, Doing, Outcomes
  <2> QED
    BY <2>1, <2>2, <2>3 DEF Execute
<1>2. PICK n \in Contexts \cup Kinds : n = req[r].seen
  BY DEF Types, Doing
<1>3. RunRow(r, "record", e, x, n)
  BY <1>1, <1>2 DEF Types, Doing, RunRow
<1>4. req[r].pc = "run" /\ StoreSame /\ UNCHANGED <<clock, context>>
  BY DEF Execute, StoreSame
<1> QED
  BY <1>3, <1>4, RunOnward

LEMMA UnrecordedOnward ==
  ASSUME Types, NEW r \in Request, Unrecorded(r)
  PROVE  Onward(r)
<1>1. PICK e \in BOOLEAN :
        req' = [req EXCEPT ![r].pc = "done", ![r].outcome = "raised", ![r].effect = e, ![r].seen = None]
  BY DEF Unrecorded
<1>2. PICK n : n = None
  OBVIOUS
<1>3. RunRow(r, "done", e, "raised", n)
  BY <1>1, <1>2 DEF Types, Doing, RunRow
<1>4. "raised" \in Outcomes /\ n \in Contexts \cup Kinds
  BY <1>2 DEF Outcomes, Kinds
<1>5. req[r].pc = "run" /\ StoreSame /\ UNCHANGED clock /\ Finally(r)
  BY DEF Unrecorded, StoreSame
<1> QED
  BY <1>3, <1>4, <1>5, RunOnward

LEMMA BlockOnward ==
  ASSUME Types, Stages, NEW r \in Request, Block(r)
  PROVE  Onward(r)
<1>1. req' = [req EXCEPT ![r] = [req[r] EXCEPT !.pc = "record", !.outcome = "blocked"]]
  BY DEF Block, Types, Doing
<1>2. "record" \in Steps /\ "blocked" \in Outcomes
  BY DEF Steps, Past, Outcomes
<1>3. Moved(r) /\ SameAsk(r) /\ SameUse(r) /\ req'[r].pc = "record"
  BY <1>1, <1>2, ZenonT(40) DEF Types, Doing, Moved, Others, SameAsk, SameUse
<1> QED
  BY <1>3 DEF Block, Onward, StoreSame, SameUse, Past, Types

LEMMA WriteReceiptOnward ==
  ASSUME Types, Stages, NEW r \in Request, WriteReceipt(r)
  PROVE  Onward(r)
<1> DEFINE marks == req[r].outcome = "ok" /\ req[r].uses # None
<1>1. PICK s \in {"mark", "done"} : s = IF marks THEN "mark" ELSE "done"
  OBVIOUS
<1>2. req' = [req EXCEPT ![r] = [req[r] EXCEPT !.pc = s, !.seen = None]]
  BY <1>1 DEF WriteReceipt, Types, Doing
<1>3. s \in Steps /\ None \in Contexts \cup Kinds
  BY DEF Steps, Past, Kinds
<1>4. Moved(r) /\ SameAsk(r) /\ SameUse(r) /\ req'[r].pc = s
  BY <1>2, <1>3, ZenonT(40) DEF Types, Doing, Moved, Others, SameAsk, SameUse
<1>5. s = "mark" => req[r].uses \in Approval
  BY <1>1 DEF Types, Doing
<1>6. IF s = "mark" THEN UNCHANGED context ELSE Finally(r)
  BY <1>1 DEF WriteReceipt
<1>7. req[r].pc = "record" /\ StoreSame /\ clock' = clock /\ context \in Contexts
  BY DEF WriteReceipt, StoreSame, Types
<1> QED
  BY <1>4, <1>5, <1>6, <1>7, FinallyOnward DEF Onward, SameUse, Past

LEMMA MarkMoves ==
  ASSUME Types, Stages, NEW r \in Request, Mark(r)
  PROVE  \/ Onward(r)
         \/ /\ FromTo(r, "mark", {"persist"}) /\ SameAsk(r) /\ SameUse(r)
            /\ storeLock = None /\ storeLock' = r /\ approvals[req[r].uses].status = "approved"
            /\ UNCHANGED <<mode, approvals, granted, strays, cut, op, context, clock>>
<1>1. "persist" \in Steps /\ "unmarked" \in Outcomes
  BY DEF Steps, Past, Outcomes
<1>2. CASE approvals[req[r].uses].status = "approved" /\ Goto(r, "persist") /\ storeLock' = r /\ UNCHANGED context
  BY <1>1, <1>2, GotoMoves DEF Mark, FromTo
<1>3. CASE End(r, "unmarked") /\ UNCHANGED storeLock /\ Finally(r)
  BY <1>1, <1>3, EndMoves, FinallyOnward DEF Mark, Onward, StoreSame, SameUse, Past
<1> QED
  BY <1>2, <1>3 DEF Mark

LEMMA WriteExecutedMoves ==
  ASSUME Types, NEW r \in Request, WriteExecuted(r)
  PROVE  /\ FromTo(r, "persist", {"done"}) /\ SameAsk(r) /\ SameUse(r) /\ Finally(r)
         /\ approvals' = [approvals EXCEPT ![req[r].uses].status = "executed"]
         /\ UNCHANGED <<mode, granted, strays, cut, op, clock>>
<1>1. "ok" \in Outcomes
  BY DEF Outcomes
<1> QED
  BY <1>1, EndMoves DEF WriteExecuted, FromTo

(* A cancelled request is done, and leaves at most one write to a thread.   *)
LeavesNothing == UNCHANGED <<approvals, strays, cut>>
LeavesQuestion(r, a) ==
  /\ req[r].pc = "create" /\ approvals[a].status = "none"
  /\ approvals' = [approvals EXCEPT ![a] = [status |-> "adrift", decision |-> req[r].decision,
                                            kind |-> req[r].seen, expires |-> None]]
  /\ cut' = cut \cup {a} /\ strays' = strays
LeavesMark(r) ==
  /\ req[r].pc = "persist" /\ approvals' = approvals
  /\ strays' = strays \cup {r} /\ cut' = cut \cup {req[r].uses}

LEMMA CancelMoves ==
  ASSUME Types, Writers, NEW r \in Request, CancelRequest(r)
  PROVE  /\ Moved(r) /\ SameAsk(r) /\ req'[r].uses = req[r].uses
         /\ req[r].pc \notin {"idle", "done"} /\ req'[r].pc = "done" /\ req[r].profile # "direct"
         /\ req'[r].effect = req[r].effect \/ req[r].pc = "run"
         /\ storeLock' = IF storeLock = r THEN None ELSE storeLock
         /\ context' = None \/ (context' = context /\ req[r].pc \notin Within)
         /\ UNCHANGED <<mode, granted, op, clock>>
         /\ LeavesNothing \/ (\E a \in Approval : LeavesQuestion(r, a)) \/ LeavesMark(r)
<1>1. PICK e \in BOOLEAN :
        /\ req' = [req EXCEPT ![r].pc = "done", ![r].outcome = "cancelled", ![r].effect = e, ![r].seen = None]
        /\ e = req[r].effect \/ req[r].pc = "run"
  <2> DEFINE left == IF req[r].pc = "run" THEN BOOLEAN ELSE {req[r].effect}
  <2>1. PICK e \in left :
          req' = [req EXCEPT ![r].pc = "done", ![r].outcome = "cancelled", ![r].effect = e, ![r].seen = None]
    BY Zenon DEF CancelRequest
  <2>2. req[r].effect \in BOOLEAN
    BY DEF Types, Doing
  <2>3. e \in BOOLEAN /\ (e = req[r].effect \/ req[r].pc = "run")
    BY <2>2
  <2> HIDE DEF left
  <2> QED
    BY <2>1, <2>3
<1>2. PICK n : n = None
  OBVIOUS
<1>3. RunRow(r, "done", e, "cancelled", n)
  BY <1>1, <1>2 DEF Types, Doing, RunRow
<1>4. "done" \in Steps /\ "cancelled" \in Outcomes /\ n \in Contexts \cup Kinds
  BY <1>2 DEF Steps, Outcomes, Kinds
<1>5. Moved(r) /\ SameAsk(r) /\ req'[r].uses = req[r].uses /\ req'[r].pc = "done" /\ req'[r].effect = e
  BY <1>3, <1>4, ZenonT(40) DEF Types, Doing, Moved, Others, SameAsk, RunRow
<1>6. LeavesNothing \/ (\E a \in Approval : LeavesQuestion(r, a)) \/ LeavesMark(r)
  <2>1. ASSUME req[r].pc = "create"
        PROVE  \E a \in Approval : /\ a = CHOOSE x \in Approval : approvals[x].status = "none"
                                   /\ approvals[a].status = "none"
    BY <2>1 DEF Writers
  <2> QED
    BY <2>1 DEF CancelRequest, LeavesNothing, LeavesQuestion, LeavesMark
<1>7. /\ req[r].pc \notin {"idle", "done"} /\ req[r].profile # "direct"
      /\ storeLock' = IF storeLock = r THEN None ELSE storeLock
      /\ context' = None \/ (context' = context /\ req[r].pc \notin Within)
      /\ UNCHANGED <<mode, granted, op, clock>>
  BY DEF CancelRequest, Ended, Unlocked
<1> QED
  BY <1>1, <1>5, <1>6, <1>7

-----------------------------------------------------------------------------
(* What a step changes: at most the row of one request, or the store under  *)
(* its lock, or a record that was left to a thread.                         *)

(* Most steps leave the store and its lock alone.                           *)
Quiet(r) == /\ Moved(r) /\ StoreSame /\ clock' = clock
            /\ req[r].pc \notin {"create", "persist"} /\ req'[r].pc \notin {"create", "persist"}

QuietStep(r) == Submit(r) \/ ExecuteApproval(r) \/ Direct(r) \/ Govern(r) \/ Check(r) \/ Recheck(r)
                \/ Onward(r)
StoreStep(r) == FindPending(r) \/ CreatePending(r) \/ (Mark(r) /\ ~ Onward(r)) \/ WriteExecuted(r)
VerdictStep(o) == ReadForVerdict(o) \/ WriteVerdict(o)

LEMMA QuietSteps ==
  ASSUME Types, Stages, Store, NEW r \in Request, QuietStep(r)
  PROVE  Quiet(r)
BY SubmitMoves, ExecuteApprovalMoves, DirectMoves, GovernMoves, CheckMoves, RecheckMoves
   DEF QuietStep, Quiet, FromTo, Onward, Past

LEMMA KindsOfSteps ==
  ASSUME Types, Stages, [ANext]_avars
  PROVE  \/ \E r \in Request : QuietStep(r) \/ StoreStep(r) \/ CancelRequest(r) \/ MarkLands(r)
         \/ \E a \in Approval : PendingLands(a)
         \/ \E o \in Operator : VerdictStep(o)
         \/ ApprovalTick \/ UNCHANGED avars
BY StartOnward, PrepareOnward, ExecuteOnward, UnrecordedOnward, BlockOnward, WriteReceiptOnward, MarkMoves
   DEF ANext, Advance, QuietStep, StoreStep, VerdictStep

LEMMA TypesKept ==
  Types /\ Stages /\ Store /\ Writers /\ [ANext]_avars => Types'
<1> SUFFICES ASSUME Types, Stages, Store, Writers, [ANext]_avars PROVE Types'
  OBVIOUS
<1>1. ASSUME NEW r \in Request, StoreSame, Moved(r), context' \in Contexts, clock' = clock PROVE Types'
  BY <1>1 DEF Types, StoreSame, Moved
<1>2. ASSUME NEW r \in Request, Finally(r) PROVE context' \in Contexts
  BY <1>2, FinallyOnward
<1>3. context \in Contexts /\ clock \in Nat /\ approvals \in [Approval -> Record]
  BY DEF Types
<1>4. ASSUME NEW r \in Request, Submit(r) \/ ExecuteApproval(r) \/ Direct(r) \/ Govern(r) PROVE Types'
  BY <1>1, <1>3, <1>4, SubmitMoves, ExecuteApprovalMoves, DirectMoves, GovernMoves DEF FromTo
<1>5. ASSUME NEW r \in Request, Check(r) PROVE Types'
  BY <1>1, <1>5, CheckMoves DEF FromTo
<1>6. ASSUME NEW r \in Request, Recheck(r) PROVE Types'
  BY <1>1, <1>2, <1>3, <1>6, RecheckMoves DEF FromTo
<1>7. ASSUME NEW r \in Request, FindPending(r) PROVE Types'
  BY <1>7, FindPendingMoves DEF FromTo, Types, Moved
<1>8. ASSUME NEW r \in Request, CreatePending(r) PROVE Types'
  <2>1. PICK a \in Approval :
          approvals' = [approvals EXCEPT ![a] = [status |-> "pending", decision |-> req[r].decision,
                                                 kind |-> req[r].seen, expires |-> None]]
    BY <1>8, CreatePendingMoves
  <2>2. req[r].decision \in Decisions /\ req[r].seen \in Kinds
    BY <1>8 DEF CreatePending, Stages, Writers
  <2>3. approvals' \in [Approval -> Record]
    BY <1>3, <2>1, <2>2 DEF Record
  <2> QED
    BY <1>8, <2>3, CreatePendingMoves DEF FromTo, Types, Moved
<1>9. ASSUME NEW r \in Request, Onward(r) PROVE Types'
  BY <1>1, <1>9 DEF Onward
<1>10. ASSUME NEW r \in Request, Mark(r) PROVE Types'
  <2>1. CASE Onward(r)
    BY <1>9, <2>1
  <2>2. CASE ~ Onward(r)
    BY <1>10, <2>2, MarkMoves DEF FromTo, Types, Moved
  <2> QED
    BY <2>1, <2>2
<1>11. ASSUME NEW r \in Request, WriteExecuted(r) PROVE Types'
  <2>1. PICK a \in Approval : approvals' = [approvals EXCEPT ![a].status = "executed"]
    BY <1>11, WriteExecutedMoves DEF Stages, WriteExecuted
  <2>2. approvals' \in [Approval -> Record]
    BY <1>3, <2>1 DEF Record
  <2> QED
    BY <1>2, <1>11, <2>2, WriteExecutedMoves DEF FromTo, Types, Moved
<1>12. ASSUME NEW o \in Operator, ReadForVerdict(o) PROVE Types'
  BY <1>12 DEF ReadForVerdict, Types, Deciding
<1>13. ASSUME NEW o \in Operator, WriteVerdict(o) PROVE Types'
  <2>1. PICK a \in Approval, v \in {"approved", "rejected"} : a = op[o].approval /\ v = op[o].verdict
    BY <1>13 DEF WriteVerdict, Writers
  <2> clock + TTL \in Nat
    BY <1>3, ActionsAssumption
  <2>2. PICK x \in Nat \cup {None} : x = IF v = "approved" THEN clock + TTL ELSE None
    BY Zenon
  <2>3. approvals' = [approvals EXCEPT ![a] = [approvals[a] EXCEPT !.status = v, !.expires = x]]
    BY <1>3, <1>13, <2>1, <2>2 DEF WriteVerdict, Record
  <2>4. approvals' \in [Approval -> Record]
    BY <1>3, <2>3 DEF Record
  <2>5. op' \in [Operator -> Deciding] /\ granted' \in SUBSET Approval
    BY <1>13, <2>1 DEF WriteVerdict, Types, Deciding
  <2> QED
    BY <1>13, <2>4, <2>5 DEF WriteVerdict, Types
<1>14. CASE ApprovalTick
  BY <1>14 DEF ApprovalTick, Types
<1>15. CASE UNCHANGED avars
  BY <1>15 DEF avars, Types
<1>16. ASSUME NEW r \in Request, CancelRequest(r) PROVE Types'
  <2>1. /\ req' \in [Request -> Doing] /\ context' \in Contexts /\ clock' \in Nat
        /\ UNCHANGED <<mode, granted, op>>
    BY <1>3, <1>16, CancelMoves DEF Moved, Contexts
  <2>2. CASE LeavesNothing
    BY <2>1, <2>2 DEF LeavesNothing, Types
  <2>3. ASSUME NEW a \in Approval, LeavesQuestion(r, a) PROVE Types'
    <3>1. req[r].decision \in Decisions /\ req[r].seen \in Kinds
      BY <2>3 DEF LeavesQuestion, Stages, Writers
    <3>2. approvals' \in [Approval -> Record]
      BY <1>3, <2>3, <3>1 DEF LeavesQuestion, Record
    <3> QED
      BY <2>1, <2>3, <3>2 DEF LeavesQuestion, Types
  <2>4. CASE LeavesMark(r)
    BY <2>1, <2>4 DEF LeavesMark, Types, Stages
  <2> QED
    BY <1>16, <2>2, <2>3, <2>4, CancelMoves
<1>17. ASSUME NEW r \in Request, MarkLands(r) PROVE Types'
  <2>1. PICK a \in Approval : approvals' = [approvals EXCEPT ![a].status = "executed"]
    BY <1>17 DEF MarkLands, Writers, Types
  <2>2. approvals' \in [Approval -> Record]
    BY <1>3, <2>1 DEF Record
  <2> QED
    BY <1>17, <2>2 DEF MarkLands, Types
<1>18. ASSUME NEW a \in Approval, PendingLands(a) PROVE Types'
  <2>1. approvals' \in [Approval -> Record]
    BY <1>3, <1>18 DEF PendingLands, Record
  <2> QED
    BY <1>18, <2>1 DEF PendingLands, Types
<1> QED
  BY <1>4, <1>5, <1>6, <1>7, <1>8, <1>9, <1>10, <1>11, <1>12, <1>13, <1>14, <1>15, <1>16, <1>17, <1>18,
     StartOnward, PrepareOnward, ExecuteOnward, UnrecordedOnward, BlockOnward, WriteReceiptOnward
  DEF ANext, Advance

LEMMA LocksKept ==
  Types /\ Stages /\ Store /\ Writers /\ Locks /\ [ANext]_avars => Locks'
<1> SUFFICES ASSUME Types, Stages, Store, Writers, Locks, [ANext]_avars PROVE Locks'
  OBVIOUS
<1>1. ASSUME NEW r \in Request, QuietStep(r) PROVE Locks'
  BY <1>1, QuietSteps DEF Quiet, Moved, Others, StoreSame, Locks
<1>2. ASSUME NEW r \in Request, FindPending(r) PROVE Locks'
  BY <1>2, FindPendingMoves, NoneApart DEF FromTo, Moved, Others, Locks
<1>3. ASSUME NEW r \in Request, CreatePending(r) \/ WriteExecuted(r) PROVE Locks'
  <2>1. /\ Moved(r) /\ req[r].pc \in {"create", "persist"} /\ req'[r].pc = "done" /\ op' = op
    BY <1>3, CreatePendingMoves, WriteExecutedMoves DEF FromTo
  <2>2. storeLock = r
    BY <2>1 DEF Locks
  <2>3. \A o \in Operator : op[o].pc # "write"
    BY <2>2, ActionsAssumption DEF Locks
  <2>4. \A q \in Request \ {r} : req[q].pc \notin {"create", "persist"}
    BY <2>2 DEF Locks
  <2> QED
    BY <2>1, <2>3, <2>4 DEF Moved, Others, Locks
<1>4. ASSUME NEW r \in Request, Mark(r), ~ Onward(r) PROVE Locks'
  BY <1>4, MarkMoves, NoneApart DEF FromTo, Moved, Others, Locks
<1>5. ASSUME NEW o \in Operator, ReadForVerdict(o) PROVE Locks'
  <2>1. (\A r \in Request : req[r].pc \notin {"create", "persist"}) /\ \A p \in Operator : op[p].pc # "write"
    BY <1>5, NoneApart DEF ReadForVerdict, Locks
  <2>2. req' = req /\ storeLock' = o /\ \A p \in Operator \ {o} : op'[p] = op[p]
    BY <1>5 DEF ReadForVerdict, Types
  <2> QED
    BY <2>1, <2>2 DEF Locks
<1>6. ASSUME NEW o \in Operator, WriteVerdict(o) PROVE Locks'
  <2>1. storeLock = o
    BY <1>6 DEF WriteVerdict, Locks
  <2>2. /\ \A r \in Request : req[r].pc \notin {"create", "persist"}
        /\ \A p \in Operator \ {o} : op[p].pc # "write"
    BY <2>1, ActionsAssumption DEF Locks
  <2>3. req' = req /\ op'[o].pc = "idle" /\ \A p \in Operator \ {o} : op'[p] = op[p]
    BY <1>6 DEF WriteVerdict, Types
  <2> QED
    BY <2>2, <2>3 DEF Locks
<1>7. CASE ApprovalTick \/ UNCHANGED avars
  BY <1>7 DEF ApprovalTick, avars, Locks
<1>8. ASSUME NEW r \in Request, CancelRequest(r) PROVE Locks'
  <2>1. /\ Moved(r) /\ req'[r].pc = "done" /\ op' = op
        /\ storeLock' = IF storeLock = r THEN None ELSE storeLock
    BY <1>8, CancelMoves
  <2>2. CASE storeLock = r
    <3>1. /\ \A o \in Operator : op[o].pc # "write"
          /\ \A q \in Request \ {r} : req[q].pc \notin {"create", "persist"}
      BY <2>2, ActionsAssumption DEF Locks
    <3> QED
      BY <2>1, <3>1 DEF Moved, Others, Locks
  <2>3. CASE storeLock # r
    BY <2>1, <2>3 DEF Moved, Others, Locks
  <2> QED
    BY <2>2, <2>3
<1>9. ASSUME UNCHANGED <<req, op, storeLock>> PROVE Locks'
  BY <1>9 DEF Locks
<1>10. ASSUME NEW r \in Request, MarkLands(r) PROVE Locks'
  BY <1>9, <1>10 DEF MarkLands
<1>11. ASSUME NEW a \in Approval, PendingLands(a) PROVE Locks'
  BY <1>9, <1>11 DEF PendingLands
<1> QED
  BY <1>1, <1>2, <1>3, <1>4, <1>5, <1>6, <1>7, <1>8, <1>10, <1>11, KindsOfSteps DEF StoreStep, VerdictStep

LEMMA StagesKept ==
  Types /\ Store /\ Writers /\ Stages /\ [ANext]_avars => Stages'
<1> SUFFICES ASSUME Types, Store, Writers, Stages, [ANext]_avars PROVE Stages'
  OBVIOUS
<1> DEFINE Sound(r) ==
      /\ req'[r].effect => req'[r].pc \in {"record", "mark", "persist", "done"}
      /\ req'[r].pc \in {"govern", "check"} => req'[r].profile # "direct"
      /\ req'[r].pc \notin {"idle", "done"} => req'[r].decision \in Decisions
      /\ req'[r].pc = "recheck" /\ req'[r].profile = "direct" => req'[r].decision = Upload
      /\ req'[r].pc \in {"mark", "persist"} => req'[r].uses \in Approval
<1>1. ASSUME NEW r \in Request, Moved(r), Sound(r) PROVE Stages'
  BY <1>1 DEF Moved, Others, Stages
<1>2. ASSUME NEW r \in Request, Submit(r) \/ ExecuteApproval(r) PROVE Sound(r) /\ Moved(r)
  BY <1>2, SubmitMoves, ExecuteApprovalMoves DEF FromTo, SameUse, Stages
<1>3. ASSUME NEW r \in Request, Direct(r) PROVE Sound(r) /\ Moved(r)
  BY <1>3, DirectMoves DEF FromTo, SameUse, Stages, Decisions
<1>4. ASSUME NEW r \in Request, Govern(r) \/ Check(r) PROVE Sound(r) /\ Moved(r)
  BY <1>4, GovernMoves, CheckMoves DEF FromTo, SameUse, SameAsk, Stages
<1>5. ASSUME NEW r \in Request, Recheck(r) PROVE Sound(r) /\ Moved(r)
  BY <1>5, RecheckMoves DEF FromTo, SameAsk, Stages
<1>6. ASSUME NEW r \in Request, Onward(r) PROVE Sound(r) /\ Moved(r)
  BY <1>6 DEF Onward, SameAsk, Stages, Past
<1>7. ASSUME NEW r \in Request, StoreStep(r) PROVE Sound(r) /\ Moved(r)
  BY <1>7, FindPendingMoves, CreatePendingMoves, MarkMoves, WriteExecutedMoves, ZenonT(40)
  DEF StoreStep, FromTo, SameUse, SameAsk, Stages
<1>8. ASSUME NEW o \in Operator, VerdictStep(o) PROVE Stages'
  BY <1>8 DEF VerdictStep, ReadForVerdict, WriteVerdict, Stages
<1>9. CASE ApprovalTick \/ UNCHANGED avars
  BY <1>9 DEF ApprovalTick, avars, Stages
<1>10. ASSUME NEW r \in Request, CancelRequest(r) PROVE Sound(r) /\ Moved(r)
  BY <1>10, CancelMoves DEF SameAsk, Stages
<1>11. ASSUME NEW r \in Request, MarkLands(r) PROVE Stages'
  BY <1>11 DEF MarkLands, Stages
<1>12. ASSUME NEW a \in Approval, PendingLands(a) PROVE Stages'
  BY <1>12 DEF PendingLands, Stages
<1> HIDE DEF Sound
<1> QED
  BY <1>1, <1>2, <1>3, <1>4, <1>5, <1>6, <1>7, <1>8, <1>9, <1>10, <1>11, <1>12, KindsOfSteps DEF QuietStep

(* A record that was created keeps what it is for, and one that was granted stays. *)
LEMMA RecordsKept ==
  ASSUME Types, Stages, Store, Writers, [ANext]_avars
  PROVE  /\ granted \subseteq granted' /\ cut \subseteq cut'
         /\ \A a \in Approval : approvals[a].status # "none" =>
              /\ approvals'[a].status # "none"
              /\ approvals'[a].kind = approvals[a].kind /\ approvals'[a].decision = approvals[a].decision
         /\ \A a \in Approval : approvals[a].status \notin {"none", "adrift"} =>
              approvals'[a].status \notin {"none", "adrift"}
         /\ \A a \in Approval : approvals[a].status = "executed" /\ approvals'[a].status # "executed" =>
              a \in cut /\ \E o \in Operator : op[o].pc = "write" /\ op[o].approval = a
         /\ \A a \in Approval : approvals'[a].status \in {"approved", "executed"} =>
              a \in granted' \/ approvals[a].status \in {"approved", "executed"}
         /\ \A a \in granted' \ granted : approvals'[a].status \notin {"none", "adrift"}
         /\ \A a \in Approval : approvals'[a].status = "adrift" => a \in cut'
         /\ mode' = mode
<1> DEFINE Goal ==
         /\ granted \subseteq granted' /\ cut \subseteq cut'
         /\ \A a \in Approval : approvals[a].status # "none" =>
              /\ approvals'[a].status # "none"
              /\ approvals'[a].kind = approvals[a].kind /\ approvals'[a].decision = approvals[a].decision
         /\ \A a \in Approval : approvals[a].status \notin {"none", "adrift"} =>
              approvals'[a].status \notin {"none", "adrift"}
         /\ \A a \in Approval : approvals[a].status = "executed" /\ approvals'[a].status # "executed" =>
              a \in cut /\ \E o \in Operator : op[o].pc = "write" /\ op[o].approval = a
         /\ \A a \in Approval : approvals'[a].status \in {"approved", "executed"} =>
              a \in granted' \/ approvals[a].status \in {"approved", "executed"}
         /\ \A a \in granted' \ granted : approvals'[a].status \notin {"none", "adrift"}
         /\ \A a \in Approval : approvals'[a].status = "adrift" => a \in cut'
         /\ mode' = mode
<1>1. ASSUME UNCHANGED <<mode, approvals, granted>>, cut \subseteq cut' PROVE Goal
  BY <1>1 DEF Store
<1>2. ASSUME NEW r \in Request, CreatePending(r) PROVE Goal
  <2>1. PICK a \in Approval :
          /\ approvals[a].status = "none"
          /\ approvals' = [approvals EXCEPT ![a] = [status |-> "pending", decision |-> req[r].decision,
                                                    kind |-> req[r].seen, expires |-> None]]
    BY <1>2, CreatePendingMoves
  <2>2. approvals'[a].status = "pending" /\ \A b \in Approval \ {a} : approvals'[b] = approvals[b]
    BY <2>1 DEF Types
  <2> QED
    BY <1>2, <2>1, <2>2, CreatePendingMoves DEF Store
<1>3. ASSUME NEW r \in Request, WriteExecuted(r) PROVE Goal
  <2>1. PICK a \in Approval : /\ approvals' = [approvals EXCEPT ![a].status = "executed"]
                              /\ approvals[a].status \in {"approved", "executed"}
    BY <1>3, WriteExecutedMoves DEF Stages, Writers, WriteExecuted
  <2>2. /\ approvals'[a].status = "executed" /\ approvals'[a].kind = approvals[a].kind
        /\ approvals'[a].decision = approvals[a].decision
        /\ \A b \in Approval \ {a} : approvals'[b] = approvals[b]
    BY <2>1 DEF Types, Record
  <2> QED
    BY <1>3, <2>1, <2>2, WriteExecutedMoves DEF Store
<1>4. ASSUME NEW o \in Operator, WriteVerdict(o) PROVE Goal
  <2>1. PICK a \in Approval, v \in {"approved", "rejected"} :
          /\ a = op[o].approval /\ v = op[o].verdict /\ op[o].pc = "write"
          /\ approvals[a].status \notin {"none", "adrift"} /\ (approvals[a].status = "executed" => a \in cut)
    BY <1>4 DEF WriteVerdict, Writers
  <2>2. PICK x : x = IF v = "approved" THEN clock + TTL ELSE None
    OBVIOUS
  <2>3. approvals' = [approvals EXCEPT ![a] = [approvals[a] EXCEPT !.status = v, !.expires = x]]
    BY <1>4, <2>1, <2>2 DEF WriteVerdict, Types, Record
  <2>4. /\ approvals'[a].status = v /\ approvals'[a].kind = approvals[a].kind
        /\ approvals'[a].decision = approvals[a].decision
        /\ \A b \in Approval \ {a} : approvals'[b] = approvals[b]
    BY <2>3 DEF Types, Record
  <2>5. granted' = (IF v = "approved" THEN granted \cup {a} ELSE granted) /\ mode' = mode /\ cut' = cut
    BY <1>4, <2>1 DEF WriteVerdict
  <2>6. granted \subseteq granted' /\ (v = "approved" => a \in granted') /\ granted' \ granted \subseteq {a}
    BY <2>5
  <2>7. \A b \in Approval \ {a} : approvals'[b].status = "adrift" => b \in cut'
    BY <2>4, <2>5 DEF Store
  <2> QED
    BY <2>1, <2>4, <2>5, <2>6, <2>7
<1>5. ASSUME NEW r \in Request, QuietStep(r) PROVE Goal
  BY <1>1, <1>5, QuietSteps DEF Quiet, StoreSame
<1>6. ASSUME NEW r \in Request, FindPending(r) \/ (Mark(r) /\ ~ Onward(r)) PROVE Goal
  BY <1>1, <1>6, FindPendingMoves, MarkMoves
<1>7. ASSUME NEW o \in Operator, ReadForVerdict(o) PROVE Goal
  BY <1>1, <1>7 DEF ReadForVerdict
<1>8. CASE ApprovalTick \/ UNCHANGED avars
  BY <1>1, <1>8 DEF ApprovalTick, avars
<1>9. ASSUME NEW r \in Request, CancelRequest(r) PROVE Goal
  <2>1. UNCHANGED <<mode, granted>>
    BY <1>9, CancelMoves
  <2>2. CASE LeavesNothing \/ LeavesMark(r)
    BY <1>1, <2>1, <2>2 DEF LeavesNothing, LeavesMark
  <2>3. ASSUME NEW a \in Approval, LeavesQuestion(r, a) PROVE Goal
    <3>1. approvals'[a].status = "adrift" /\ \A b \in Approval \ {a} : approvals'[b] = approvals[b]
      BY <2>3 DEF LeavesQuestion, Types
    <3> QED
      BY <2>1, <2>3, <3>1 DEF LeavesQuestion, Store
  <2> QED
    BY <1>9, <2>2, <2>3, CancelMoves
<1>10. ASSUME NEW r \in Request, MarkLands(r) PROVE Goal
  <2>1. PICK a \in Approval : a = req[r].uses /\ a \in granted
    BY <1>10 DEF MarkLands, Writers, Types
  <2>2. approvals' = [approvals EXCEPT ![a].status = "executed"] /\ UNCHANGED <<mode, granted, cut>>
    BY <1>10, <2>1 DEF MarkLands
  <2>3. /\ approvals'[a].status = "executed" /\ approvals'[a].kind = approvals[a].kind
        /\ approvals'[a].decision = approvals[a].decision
        /\ \A b \in Approval \ {a} : approvals'[b] = approvals[b]
    BY <2>2 DEF Types, Record
  <2> QED
    BY <2>1, <2>2, <2>3 DEF Store
<1>11. ASSUME NEW a \in Approval, PendingLands(a) PROVE Goal
  <2>1. /\ approvals[a].status = "adrift" /\ approvals' = [approvals EXCEPT ![a].status = "pending"]
        /\ UNCHANGED <<mode, granted, cut>>
    BY <1>11 DEF PendingLands
  <2>2. /\ approvals'[a].status = "pending" /\ approvals'[a].kind = approvals[a].kind
        /\ approvals'[a].decision = approvals[a].decision
        /\ \A b \in Approval \ {a} : approvals'[b] = approvals[b]
    BY <2>1 DEF Types, Record
  <2> QED
    BY <2>1, <2>2 DEF Store
<1> QED
  BY <1>2, <1>3, <1>4, <1>5, <1>6, <1>7, <1>8, <1>9, <1>10, <1>11, KindsOfSteps DEF StoreStep, VerdictStep

LEMMA StoreKept ==
  Types /\ Stages /\ Writers /\ Store /\ [ANext]_avars => Store'
<1> SUFFICES ASSUME Types, Stages, Writers, Store, [ANext]_avars PROVE Store'
  OBVIOUS
<1>1. \A a \in Approval : approvals'[a].status \in {"approved", "executed"} => a \in granted'
  BY RecordsKept DEF Store
<1>2. \A a \in granted' : approvals'[a].status \notin {"none", "adrift"}
  BY RecordsKept DEF Store, Types
<1>3. ASSUME NEW a \in Approval, approvals'[a].status # "none" PROVE approvals'[a].decision \in Decisions
  <2>1. CASE approvals[a].status # "none"
    BY <2>1, RecordsKept DEF Store
  <2>2. CASE approvals'[a] = approvals[a]
    BY <1>3, <2>2 DEF Store
  <2>3. ASSUME NEW r \in Request, CreatePending(r), approvals[a].status = "none", approvals'[a] # approvals[a]
        PROVE  approvals'[a].decision \in Decisions
    <3>1. PICK b \in Approval :
            approvals' = [approvals EXCEPT ![b] = [status |-> "pending", decision |-> req[r].decision,
                                                   kind |-> req[r].seen, expires |-> None]]
      BY <2>3, CreatePendingMoves
    <3>2. a = b /\ approvals'[a].decision = req[r].decision
      BY <2>3, <3>1 DEF Types
    <3> QED
      BY <2>3, <3>2 DEF CreatePending, Stages
  <2>4. ASSUME NEW r \in Request, WriteExecuted(r), approvals[a].status = "none" PROVE approvals'[a] = approvals[a]
    BY <2>4, WriteExecutedMoves DEF Types, Writers, WriteExecuted
  <2>5. ASSUME NEW o \in Operator, WriteVerdict(o), approvals[a].status = "none" PROVE approvals'[a] = approvals[a]
    BY <2>5 DEF WriteVerdict, Writers, Types
  <2>6. ASSUME NEW r \in Request, QuietStep(r) PROVE approvals' = approvals
    BY <2>6, QuietSteps DEF Quiet, StoreSame
  <2>7. ASSUME NEW r \in Request, FindPending(r) \/ (Mark(r) /\ ~ Onward(r)) PROVE approvals' = approvals
    BY <2>7, FindPendingMoves, MarkMoves
  <2>8. ASSUME NEW o \in Operator, ReadForVerdict(o) PROVE approvals' = approvals
    BY <2>8 DEF ReadForVerdict
  <2>9. CASE ApprovalTick \/ UNCHANGED avars
    BY <2>2, <2>9 DEF ApprovalTick, avars
  <2>10. ASSUME NEW r \in Request, CancelRequest(r), approvals[a].status = "none", approvals'[a] # approvals[a]
         PROVE  approvals'[a].decision \in Decisions
    <3>1. PICK b \in Approval : LeavesQuestion(r, b)
      BY <2>10, CancelMoves DEF LeavesNothing, LeavesMark
    <3>2. a = b /\ approvals'[a].decision = req[r].decision
      BY <2>10, <3>1 DEF LeavesQuestion, Types
    <3> QED
      BY <3>1, <3>2 DEF LeavesQuestion, Stages
  <2>11. ASSUME NEW r \in Request, MarkLands(r), approvals[a].status = "none" PROVE approvals'[a] = approvals[a]
    BY <2>11 DEF MarkLands, Writers, Store, Types
  <2>12. ASSUME NEW b \in Approval, PendingLands(b), approvals[a].status = "none" PROVE approvals'[a] = approvals[a]
    BY <2>12 DEF PendingLands, Types
  <2> QED
    BY <2>1, <2>2, <2>3, <2>4, <2>5, <2>6, <2>7, <2>8, <2>9, <2>10, <2>11, <2>12, KindsOfSteps
    DEF StoreStep, VerdictStep
<1> QED
  BY <1>1, <1>2, <1>3, RecordsKept DEF Store

(* A request that is done stays as it is.                                  *)
LEMMA DoneStays ==
  ASSUME Types, Stages, Store, Writers, [ANext]_avars, NEW q \in Request, req[q].pc = "done"
  PROVE  req'[q] = req[q]
<1>1. ASSUME NEW r \in Request, Others(r), req[r].pc # "done" PROVE req'[q] = req[q]
  BY <1>1 DEF Others
<1>2. ASSUME NEW r \in Request, Submit(r) \/ ExecuteApproval(r) \/ Direct(r) \/ Govern(r)
      PROVE  req'[q] = req[q]
  BY <1>1, <1>2, SubmitMoves, ExecuteApprovalMoves, DirectMoves, GovernMoves DEF FromTo, Moved
<1>3. ASSUME NEW r \in Request, Check(r) \/ Recheck(r) PROVE req'[q] = req[q]
  BY <1>1, <1>3, CheckMoves, RecheckMoves DEF FromTo, Moved
<1>4. ASSUME NEW r \in Request, Onward(r) PROVE req'[q] = req[q]
  BY <1>1, <1>4 DEF Onward, Moved, Past
<1>5. ASSUME NEW r \in Request, FindPending(r) \/ CreatePending(r) \/ (Mark(r) /\ ~ Onward(r)) \/ WriteExecuted(r)
      PROVE  req'[q] = req[q]
  BY <1>1, <1>5, FindPendingMoves, CreatePendingMoves, MarkMoves, WriteExecutedMoves DEF FromTo, Moved
<1>6. ASSUME NEW r \in Request, CancelRequest(r) PROVE req'[q] = req[q]
  BY <1>1, <1>6, CancelMoves DEF Moved
<1>7. ASSUME req' = req PROVE req'[q] = req[q]
  BY <1>7
<1>8. ASSUME NEW r \in Request, MarkLands(r) PROVE req'[q] = req[q]
  BY <1>8 DEF MarkLands
<1>9. ASSUME NEW a \in Approval, PendingLands(a) PROVE req'[q] = req[q]
  BY <1>9 DEF PendingLands
<1>10. ASSUME NEW o \in Operator, VerdictStep(o) PROVE req'[q] = req[q]
  BY <1>10 DEF VerdictStep, ReadForVerdict, WriteVerdict
<1>11. CASE ApprovalTick \/ UNCHANGED avars
  BY <1>11 DEF ApprovalTick, avars
<1> QED
  BY <1>2, <1>3, <1>4, <1>5, <1>6, <1>8, <1>9, <1>10, <1>11, KindsOfSteps DEF QuietStep, StoreStep

(* Only a cancellation leaves a mark to a thread.                          *)
LEMMA StraysMove ==
  ASSUME Types, Stages, Store, Writers, [ANext]_avars, NEW q \in strays' \ strays
  PROVE  CancelRequest(q) /\ LeavesMark(q)
<1>1. strays' # strays
  OBVIOUS
<1>2. ASSUME NEW r \in Request, QuietStep(r) PROVE strays' = strays
  BY <1>2, QuietSteps DEF Quiet, StoreSame
<1>3. ASSUME NEW r \in Request, StoreStep(r) PROVE strays' = strays
  BY <1>3, FindPendingMoves, CreatePendingMoves, MarkMoves, WriteExecutedMoves DEF StoreStep
<1>4. ASSUME NEW r \in Request, CancelRequest(r) PROVE CancelRequest(q) /\ LeavesMark(q)
  BY <1>4, CancelMoves DEF LeavesNothing, LeavesQuestion, LeavesMark
<1>5. ASSUME NEW r \in Request, MarkLands(r) PROVE FALSE
  BY <1>5 DEF MarkLands
<1>6. ASSUME NEW a \in Approval, PendingLands(a) PROVE strays' = strays
  BY <1>6 DEF PendingLands
<1>7. ASSUME NEW o \in Operator, VerdictStep(o) PROVE strays' = strays
  BY <1>7 DEF VerdictStep, ReadForVerdict, WriteVerdict
<1>8. CASE ApprovalTick \/ UNCHANGED avars
  BY <1>8 DEF ApprovalTick, avars
<1> QED
  BY <1>1, <1>2, <1>3, <1>4, <1>5, <1>6, <1>7, <1>8, KindsOfSteps

LEMMA StraysKept ==
  ASSUME Types, Stages, Store, Writers, [ANext]_avars
  PROVE  \A r \in strays' : req'[r].pc = "done" /\ req'[r].uses \in granted' \cap cut'
<1> SUFFICES ASSUME NEW r \in strays' PROVE req'[r].pc = "done" /\ req'[r].uses \in granted' \cap cut'
  OBVIOUS
<1>1. granted \subseteq granted' /\ cut \subseteq cut'
  BY RecordsKept
<1>2. CASE r \in strays
  <2>1. req'[r] = req[r]
    BY <1>2, DoneStays DEF Writers, Types
  <2> QED
    BY <1>1, <1>2, <2>1 DEF Writers
<1>3. CASE r \notin strays
  <2>1. CancelRequest(r) /\ LeavesMark(r)
    BY <1>3, StraysMove
  <2>2. r \in Request
    BY TypesKept DEF Types
  <2>3. req'[r].pc = "done" /\ req'[r].uses = req[r].uses
    BY <2>1, <2>2, CancelMoves
  <2>4. req[r].uses \in granted
    BY <2>1, <2>2 DEF LeavesMark, Writers, Store, Stages
  <2> QED
    BY <1>1, <2>1, <2>3, <2>4 DEF LeavesMark
<1> QED
  BY <1>2, <1>3

(* Who writes the store has found it as it still is: nobody else has its lock, *)
(* and what a thread writes is an approval of which a write was cut off.    *)
LEMMA WritersKept ==
  Types /\ Locks /\ Stages /\ Store /\ Writers /\ [ANext]_avars => Writers'
<1> SUFFICES ASSUME Types, Locks, Stages, Store, Writers, [ANext]_avars PROVE Writers'
  OBVIOUS
<1> DEFINE Free == /\ \A r \in Request : req[r].pc \notin {"create", "persist"}
                   /\ \A o \in Operator : op[o].pc # "write"
<1>0. \A r \in strays' : req'[r].pc = "done" /\ req'[r].uses \in granted' \cap cut'
  BY StraysKept
<1>1. ASSUME NEW r \in Request, QuietStep(r) PROVE Writers'
  BY <1>0, <1>1, QuietSteps DEF Quiet, Moved, Others, StoreSame, Writers
<1>2. storeLock = None => Free
  BY NoneApart DEF Locks
<1>3. ASSUME NEW r \in Request, FindPending(r) PROVE Writers'
  <2>1. CASE req'[r].pc = "done"
    BY <1>0, <1>3, <2>1, FindPendingMoves DEF FromTo, Moved, Others, Writers
  <2>2. CASE req'[r].pc = "create"
    <3>1. Free /\ Moved(r) /\ op' = op /\ cut' = cut /\ approvals' = approvals /\ req'[r].decision = req[r].decision
          /\ req'[r].seen \in Kinds /\ \E a \in Approval : approvals[a].status = "none"
      BY <1>2, <1>3, <2>2, FindPendingMoves DEF FromTo
    <3>2. PendingFor(req[r].decision, req'[r].seen) = {}
      BY <1>3, <2>2, FindPendingMoves
    <3>3. \A a \in Approval : ~ (/\ approvals[a].status = "pending" /\ approvals[a].kind = req'[r].seen
                                 /\ approvals[a].decision = req[r].decision)
      BY <3>2 DEF PendingFor
    <3> QED
      BY <1>0, <2>2, <3>1, <3>3 DEF Moved, Others, Writers
  <2> QED
    BY <1>3, <2>1, <2>2, FindPendingMoves DEF FromTo
<1>4. ASSUME NEW r \in Request, Mark(r), ~ Onward(r) PROVE Writers'
  <2>1. Free /\ FromTo(r, "mark", {"persist"}) /\ op' = op /\ approvals' = approvals /\ cut' = cut
        /\ req'[r].uses = req[r].uses /\ approvals[req[r].uses].status = "approved"
    BY <1>2, <1>4, MarkMoves DEF SameUse
  <2> QED
    BY <1>0, <2>1 DEF FromTo, Moved, Others, Writers
<1>5. ASSUME NEW r \in Request, CreatePending(r) \/ WriteExecuted(r) PROVE Writers'
  <2>1. /\ Moved(r) /\ req[r].pc \in {"create", "persist"} /\ req'[r].pc = "done" /\ op' = op
    BY <1>5, CreatePendingMoves, WriteExecutedMoves DEF FromTo
  <2>2. storeLock = r
    BY <2>1 DEF Locks
  <2>3. \A o \in Operator : op[o].pc # "write"
    BY <2>2, ActionsAssumption DEF Locks
  <2>4. \A q \in Request \ {r} : req[q].pc \notin {"create", "persist"}
    BY <2>2 DEF Locks
  <2> QED
    BY <1>0, <2>1, <2>3, <2>4 DEF Moved, Others, Writers
<1>6. ASSUME NEW o \in Operator, ReadForVerdict(o) PROVE Writers'
  <2>1. Free /\ req' = req /\ approvals' = approvals /\ \A p \in Operator \ {o} : op'[p] = op[p]
    BY <1>2, <1>6 DEF ReadForVerdict, Types
  <2>2. PICK a \in Approval, v \in {"approved", "rejected"} :
          /\ approvals[a].status \notin {"none", "adrift", "executed"}
          /\ op' = [op EXCEPT ![o] = [pc |-> "write", approval |-> a, verdict |-> v]]
    BY <1>6 DEF ReadForVerdict
  <2>3. op'[o].approval = a /\ op'[o].verdict = v
    BY <2>2 DEF Types
  <2> QED
    BY <1>0, <2>1, <2>2, <2>3 DEF Writers
<1>7. ASSUME NEW o \in Operator, WriteVerdict(o) PROVE Writers'
  <2>1. storeLock = o
    BY <1>7 DEF WriteVerdict, Locks
  <2>2. /\ \A r \in Request : req[r].pc \notin {"create", "persist"}
        /\ \A p \in Operator \ {o} : op[p].pc # "write"
    BY <2>1, ActionsAssumption DEF Locks
  <2>3. req' = req /\ op'[o].pc = "idle" /\ \A p \in Operator \ {o} : op'[p] = op[p]
    BY <1>7 DEF WriteVerdict, Types
  <2> QED
    BY <1>0, <2>2, <2>3 DEF Writers
<1>8. CASE ApprovalTick \/ UNCHANGED avars
  BY <1>0, <1>8 DEF ApprovalTick, avars, Writers
<1>9. ASSUME NEW r \in Request, CancelRequest(r) PROVE Writers'
  <2>1. Moved(r) /\ req'[r].pc = "done" /\ op' = op
    BY <1>9, CancelMoves
  <2>2. CASE LeavesNothing
    BY <1>0, <2>1, <2>2 DEF LeavesNothing, Moved, Others, Writers
  <2>3. CASE req[r].pc \in {"create", "persist"}
    <3>1. storeLock = r
      BY <2>3 DEF Locks
    <3>2. /\ \A o \in Operator : op[o].pc # "write"
          /\ \A q \in Request \ {r} : req[q].pc \notin {"create", "persist"}
      BY <3>1, ActionsAssumption DEF Locks
    <3> QED
      BY <1>0, <2>1, <3>2 DEF Moved, Others, Writers
  <2> QED
    BY <1>9, <2>2, <2>3, CancelMoves DEF LeavesQuestion, LeavesMark
<1>10. ASSUME NEW r \in Request, MarkLands(r) PROVE Writers'
  <2>1. PICK a \in Approval : a = req[r].uses /\ a \in cut
    BY <1>10 DEF MarkLands, Writers, Types
  <2>2. approvals' = [approvals EXCEPT ![a].status = "executed"] /\ UNCHANGED <<req, op, cut>>
    BY <1>10, <2>1 DEF MarkLands
  <2>3. approvals'[a].status = "executed" /\ \A b \in Approval \ {a} : approvals'[b] = approvals[b]
    BY <2>2 DEF Types, Record
  <2>4. approvals[a].status # "none"
    BY <1>10, <2>1 DEF MarkLands, Writers, Store
  <2> QED
    BY <1>0, <2>1, <2>2, <2>3, <2>4 DEF Writers, Stages
<1>11. ASSUME NEW a \in Approval, PendingLands(a) PROVE Writers'
  <2>1. approvals[a].status = "adrift" /\ a \in cut /\ UNCHANGED <<req, op, cut>>
    BY <1>11 DEF PendingLands, Store
  <2>2. approvals'[a].status = "pending" /\ \A b \in Approval \ {a} : approvals'[b] = approvals[b]
    BY <1>11 DEF PendingLands, Types, Record
  <2> QED
    BY <1>0, <2>1, <2>2 DEF Writers, Stages
<1> QED
  BY <1>1, <1>3, <1>4, <1>5, <1>6, <1>7, <1>8, <1>9, <1>10, <1>11, KindsOfSteps DEF StoreStep, VerdictStep

(* Only CreatePending makes a record pending, and it has just seen that none is, but for *)
(* a record that was left to its thread.                                                 *)
LEMMA OnePendingKept ==
  Types /\ Stages /\ Store /\ Writers /\ OnePendingEach /\ [ANext]_avars => OnePendingEach'
<1> SUFFICES ASSUME Types, Stages, Store, Writers, OnePendingEach, [ANext]_avars PROVE OnePendingEach'
  OBVIOUS
<1>0. cut \subseteq cut'
  BY RecordsKept
<1>1. ASSUME \A a \in Approval \ cut' : approvals'[a].status = "pending" => approvals'[a] = approvals[a]
      PROVE  OnePendingEach'
  BY <1>0, <1>1 DEF OnePendingEach
<1>2. ASSUME NEW r \in Request, CreatePending(r) PROVE OnePendingEach'
  <2>1. PICK a \in Approval :
          /\ approvals[a].status = "none"
          /\ approvals' = [approvals EXCEPT ![a] = [status |-> "pending", decision |-> req[r].decision,
                                                    kind |-> req[r].seen, expires |-> None]]
    BY <1>2, CreatePendingMoves
  <2>2. /\ approvals'[a].kind = req[r].seen /\ approvals'[a].decision = req[r].decision
        /\ \A b \in Approval \ {a} : approvals'[b] = approvals[b]
    BY <2>1 DEF Types
  <2>3. \A b \in Approval \ cut : ~ (/\ approvals[b].status = "pending" /\ approvals[b].kind = req[r].seen
                                     /\ approvals[b].decision = req[r].decision)
    BY <1>2 DEF CreatePending, Writers
  <2>4. cut' = cut
    BY <1>2, CreatePendingMoves
  <2> QED
    BY <2>2, <2>3, <2>4 DEF OnePendingEach
<1>3. ASSUME NEW r \in Request, WriteExecuted(r) PROVE OnePendingEach'
  <2>1. PICK a \in Approval : approvals' = [approvals EXCEPT ![a].status = "executed"]
    BY <1>3, WriteExecutedMoves DEF Stages, WriteExecuted
  <2>2. approvals'[a].status = "executed" /\ \A b \in Approval \ {a} : approvals'[b] = approvals[b]
    BY <2>1 DEF Types, Record
  <2> QED
    BY <1>1, <2>2
<1>4. ASSUME NEW o \in Operator, WriteVerdict(o) PROVE OnePendingEach'
  <2>1. PICK a \in Approval, v \in {"approved", "rejected"} : a = op[o].approval /\ v = op[o].verdict
    BY <1>4 DEF WriteVerdict, Writers
  <2>2. PICK x : x = IF v = "approved" THEN clock + TTL ELSE None
    OBVIOUS
  <2>3. approvals' = [approvals EXCEPT ![a] = [approvals[a] EXCEPT !.status = v, !.expires = x]]
    BY <1>4, <2>1, <2>2 DEF WriteVerdict, Types, Record
  <2>4. approvals'[a].status = v /\ \A b \in Approval \ {a} : approvals'[b] = approvals[b]
    BY <2>3 DEF Types, Record
  <2> QED
    BY <1>1, <2>4
<1>5. ASSUME NEW r \in Request, QuietStep(r) PROVE OnePendingEach'
  BY <1>1, <1>5, QuietSteps DEF Quiet, StoreSame
<1>6. ASSUME NEW r \in Request, FindPending(r) \/ (Mark(r) /\ ~ Onward(r)) PROVE OnePendingEach'
  BY <1>1, <1>6, FindPendingMoves, MarkMoves
<1>7. ASSUME NEW o \in Operator, ReadForVerdict(o) PROVE OnePendingEach'
  BY <1>1, <1>7 DEF ReadForVerdict
<1>8. CASE ApprovalTick \/ UNCHANGED avars
  BY <1>1, <1>8 DEF ApprovalTick, avars
<1>9. ASSUME NEW r \in Request, CancelRequest(r) PROVE OnePendingEach'
  <2>1. CASE approvals' = approvals
    BY <1>1, <2>1
  <2>2. ASSUME NEW a \in Approval, LeavesQuestion(r, a) PROVE OnePendingEach'
    <3>1. a \in cut' /\ \A b \in Approval \ {a} : approvals'[b] = approvals[b]
      BY <2>2 DEF LeavesQuestion, Types
    <3> QED
      BY <1>1, <3>1
  <2> QED
    BY <1>9, <2>1, <2>2, CancelMoves DEF LeavesNothing, LeavesMark
<1>10. ASSUME NEW r \in Request, MarkLands(r) PROVE OnePendingEach'
  <2>1. PICK a \in Approval : approvals' = [approvals EXCEPT ![a].status = "executed"]
    BY <1>10 DEF MarkLands, Writers, Types
  <2>2. approvals'[a].status = "executed" /\ \A b \in Approval \ {a} : approvals'[b] = approvals[b]
    BY <2>1 DEF Types, Record
  <2> QED
    BY <1>1, <2>2
<1>11. ASSUME NEW a \in Approval, PendingLands(a) PROVE OnePendingEach'
  <2>1. a \in cut' /\ \A b \in Approval \ {a} : approvals'[b] = approvals[b]
    BY <1>11 DEF PendingLands, Store, Types
  <2> QED
    BY <1>1, <2>1
<1> QED
  BY <1>2, <1>3, <1>4, <1>5, <1>6, <1>7, <1>8, <1>9, <1>10, <1>11, KindsOfSteps DEF StoreStep, VerdictStep

-----------------------------------------------------------------------------
(* Clearance.                                                              *)

Cleared(r) ==
  /\ req[r].pc \in Past \/ req[r].effect => GrantedFor(r, Needed(r))
  /\ req[r].pc = "recheck" /\ req[r].profile # "direct" => GrantedFor(r, Needed(r))
  /\ req[r].pc = "check" /\ req[r].profile = "governed"
       => GrantedFor(r, GovernedKind(req[r].decision))

(* What is needed, and that it is granted, does not change under a request. *)
LEMMA GrantLasts ==
  ASSUME Types, Stages, Store, Writers, [ANext]_avars, NEW q \in Request,
         req'[q].decision = req[q].decision, req'[q].profile = req[q].profile,
         req'[q].approval = req[q].approval
  PROVE  /\ Needed(q)' = Needed(q)
         /\ GovernedKind(req[q].decision)' = GovernedKind(req[q].decision)
         /\ \A k : GrantedFor(q, k) => GrantedFor(q, k)'
<1>1. mode' = mode
  BY RecordsKept
<1>2. Needed(q)' = Needed(q) /\ GovernedKind(req[q].decision)' = GovernedKind(req[q].decision)
  BY <1>1 DEF Needed, AskedKind, ApprovalKind, GovernedKind
<1>3. ASSUME NEW k, GrantedFor(q, k) PROVE GrantedFor(q, k)'
  BY <1>3, RecordsKept DEF GrantedFor, Store, Types
<1> QED
  BY <1>2, <1>3

LEMMA ApprovedIsGranted ==
  ASSUME Types, Store, NEW r \in Request, NEW k,
         k = None \/ (req[r].approval # None /\ Approved(req[r].approval, k, req[r].decision))
  PROVE  GrantedFor(r, k)
BY DEF Types, Doing, Store, Approved, GrantedFor

LEMMA ClearanceKept ==
  Types /\ Stages /\ Store /\ Writers /\ Clearance /\ [ANext]_avars => Clearance'
<1> SUFFICES ASSUME Types, Stages, Store, Writers, Clearance, [ANext]_avars PROVE Clearance'
  OBVIOUS
<1>1. ASSUME NEW q \in Request, req'[q] = req[q] PROVE Cleared(q)'
  <2>1. /\ Needed(q)' = Needed(q) /\ GovernedKind(req[q].decision)' = GovernedKind(req[q].decision)
        /\ \A k : GrantedFor(q, k) => GrantedFor(q, k)'
    BY <1>1, GrantLasts
  <2> QED
    BY <1>1, <2>1 DEF Clearance, Cleared
<1>2. ASSUME NEW r \in Request, Moved(r), Cleared(r)' PROVE Clearance'
  BY <1>1, <1>2 DEF Moved, Others, Clearance, Cleared
<1>3. ASSUME req' = req PROVE Clearance'
  BY <1>1, <1>3 DEF Clearance, Cleared
<1>4. ASSUME NEW r \in Request, Submit(r) \/ ExecuteApproval(r) \/ Direct(r) PROVE Clearance'
  <2>1. CASE Submit(r)
    BY <1>2, <2>1, SubmitMoves DEF FromTo, SameUse, Cleared, Stages, Past
  <2>2. CASE ExecuteApproval(r)
    BY <1>2, <2>2, ExecuteApprovalMoves DEF FromTo, SameUse, Cleared, Stages, Past
  <2>3. CASE Direct(r)
    <3>1. req'[r].pc = "queued" => Needed(r)' = None
      BY <2>3, DirectMoves DEF Needed, Plain
    <3> QED
      BY <1>2, <2>3, <3>1, DirectMoves DEF FromTo, SameUse, Cleared, Stages, Past, GrantedFor
  <2> QED
    BY <1>4, <2>1, <2>2, <2>3
<1>5. ASSUME NEW r \in Request, Govern(r) PROVE Clearance'
  <2>1. /\ Moved(r) /\ SameAsk(r) /\ ~ req'[r].effect /\ req'[r].pc \in {"check", "ask", "done"}
    BY <1>5, GovernMoves DEF FromTo, SameUse, Stages
  <2>2. req'[r].pc = "check" => GrantedFor(r, GovernedKind(req[r].decision))
    BY <1>5, GovernMoves, ApprovedIsGranted
  <2>3. req'[r].pc = "check" => GrantedFor(r, GovernedKind(req[r].decision))'
    BY <2>1, <2>2, GrantLasts DEF SameAsk
  <2> QED
    BY <1>2, <2>1, <2>3 DEF Cleared, Past
<1>6. ASSUME NEW r \in Request, Check(r) PROVE Clearance'
  <2>1. /\ Moved(r) /\ SameAsk(r) /\ ~ req'[r].effect /\ req'[r].pc \in {"recheck", "start", "ask", "done"}
        /\ req[r].pc = "check" /\ req[r].profile # "direct"
    BY <1>6, CheckMoves DEF FromTo, Stages
  <2>2. req'[r].pc \in {"recheck", "start"} => GrantedFor(r, ApprovalKind(req[r].decision))
    BY <1>6, CheckMoves, ApprovedIsGranted
  <2>3. req'[r].pc \in {"recheck", "start"} => GrantedFor(r, Needed(r))
    BY <2>1, <2>2 DEF Needed, AskedKind, Clearance
  <2>4. req'[r].pc \in {"recheck", "start"} => GrantedFor(r, Needed(r))'
    BY <2>1, <2>3, GrantLasts DEF SameAsk
  <2> QED
    BY <1>2, <2>1, <2>4 DEF Cleared, Past
<1>7. ASSUME NEW r \in Request, Recheck(r) PROVE Clearance'
  <2>1. /\ Moved(r) /\ SameAsk(r) /\ ~ req'[r].effect /\ req'[r].pc \in {"start", "ask", "done"}
        /\ req[r].pc = "recheck"
    BY <1>7, RecheckMoves DEF FromTo, Stages
  <2>2. req'[r].pc = "start" => GrantedFor(r, Needed(r))
    <3>1. CASE req[r].profile # "direct"
      BY <2>1, <3>1 DEF Clearance
    <3>2. CASE req[r].profile = "direct"
      <4>1. req[r].decision = Upload /\ Needed(r) = ApprovalKind(Upload)
        BY <2>1, <3>2 DEF Stages, Needed, AskedKind, Upload
      <4> QED
        BY <1>7, <4>1, RecheckMoves, ApprovedIsGranted
    <3> QED
      BY <3>1, <3>2
  <2>3. req'[r].pc = "start" => GrantedFor(r, Needed(r))'
    BY <2>1, <2>2, GrantLasts DEF SameAsk
  <2> QED
    BY <1>2, <2>1, <2>3 DEF Cleared, Past
<1>8. ASSUME NEW r \in Request, Moved(r), SameAsk(r), req[r].pc \in Past,
             req'[r].pc \in Past \cup {"done"}
      PROVE  Clearance'
  <2>1. GrantedFor(r, Needed(r))
    BY <1>8 DEF Clearance
  <2>2. GrantedFor(r, Needed(r))'
    BY <1>8, <2>1, GrantLasts DEF SameAsk
  <2> QED
    BY <1>2, <1>8, <2>2 DEF Cleared, Past
<1>9. ASSUME NEW r \in Request, Onward(r) PROVE Clearance'
  BY <1>8, <1>9 DEF Onward
<1>10. ASSUME NEW r \in Request, FindPending(r) \/ CreatePending(r) PROVE Clearance'
  <2>1. /\ Moved(r) /\ ~ req'[r].effect /\ req'[r].pc \in {"done", "create"}
    BY <1>10, FindPendingMoves, CreatePendingMoves DEF FromTo, SameUse, Stages
  <2> QED
    BY <1>2, <2>1 DEF Cleared, Past
<1>11. ASSUME NEW r \in Request, (Mark(r) /\ ~ Onward(r)) \/ WriteExecuted(r) PROVE Clearance'
  <2>1. Moved(r) /\ SameAsk(r) /\ req[r].pc \in Past /\ req'[r].pc \in Past \cup {"done"}
    BY <1>11, MarkMoves, WriteExecutedMoves DEF FromTo, Past
  <2> QED
    BY <1>8, <2>1
<1>12. ASSUME NEW o \in Operator, VerdictStep(o) PROVE Clearance'
  BY <1>3, <1>12 DEF VerdictStep, ReadForVerdict, WriteVerdict
<1>13. CASE ApprovalTick \/ UNCHANGED avars
  BY <1>3, <1>13 DEF ApprovalTick, avars
<1>14. ASSUME NEW r \in Request, CancelRequest(r) PROVE Clearance'
  <2>1. Moved(r) /\ SameAsk(r) /\ req'[r].pc = "done" /\ (req'[r].effect = req[r].effect \/ req[r].pc \in Past)
    BY <1>14, CancelMoves DEF Past
  <2>2. req'[r].effect => GrantedFor(r, Needed(r))
    BY <2>1 DEF Clearance
  <2>3. req'[r].effect => GrantedFor(r, Needed(r))'
    BY <2>1, <2>2, GrantLasts DEF SameAsk
  <2> QED
    BY <1>2, <2>1, <2>3 DEF Cleared, Past
<1>15. ASSUME NEW r \in Request, MarkLands(r) PROVE Clearance'
  BY <1>3, <1>15 DEF MarkLands
<1>16. ASSUME NEW a \in Approval, PendingLands(a) PROVE Clearance'
  BY <1>3, <1>16 DEF PendingLands
<1> QED
  BY <1>4, <1>5, <1>6, <1>7, <1>9, <1>10, <1>11, <1>12, <1>13, <1>14, <1>15, <1>16, KindsOfSteps
  DEF QuietStep, StoreStep

LEMMA ContextKept ==
  Types /\ Stages /\ Store /\ Writers /\ NoLeftoverContext /\ [ANext]_avars => NoLeftoverContext'
<1> SUFFICES ASSUME Types, Stages, Store, Writers, NoLeftoverContext, [ANext]_avars
             PROVE  NoLeftoverContext'
  OBVIOUS
<1> DEFINE Under(r) == /\ req[r].profile # "direct"
                       /\ req[r].pc \in Within
           UnderNext(r) == /\ req'[r].profile # "direct"
                           /\ req'[r].pc \in Within
<1>1. (context' # None => \E r \in Request : UnderNext(r)) => NoLeftoverContext'
  BY DEF NoLeftoverContext
<1>2. context # None => \E r \in Request : Under(r)
  BY DEF NoLeftoverContext
<1>3. ASSUME NEW r \in Request, Moved(r), context' = context, Under(r) => UnderNext(r)
      PROVE  NoLeftoverContext'
  BY <1>1, <1>2, <1>3 DEF Moved, Others
<1>4. ASSUME NEW r \in Request, Moved(r), SameAsk(r), Finally(r) PROVE NoLeftoverContext'
  <2>1. CASE req[r].profile = "direct"
    BY <1>3, <1>4, <2>1 DEF Finally
  <2>2. CASE req[r].profile # "direct"
    BY <1>1, <1>4, <2>2 DEF Finally
  <2> QED
    BY <2>1, <2>2
<1>5. ASSUME NEW r \in Request, Submit(r) \/ ExecuteApproval(r) \/ Direct(r) PROVE NoLeftoverContext'
  <2>1. FromTo(r, "idle", {"govern", "check", "queued", "recheck"}) /\ context' = context
    BY <1>5, SubmitMoves, ExecuteApprovalMoves, DirectMoves DEF FromTo
  <2> QED
    BY <1>3, <2>1 DEF FromTo, Within
<1>6. ASSUME NEW r \in Request, Govern(r) PROVE NoLeftoverContext'
  BY <1>3, <1>6, GovernMoves DEF FromTo, Within
<1>7. ASSUME NEW r \in Request, Check(r) PROVE NoLeftoverContext'
  <2>1. CASE req'[r].pc \in {"recheck", "start"}
    BY <1>1, <1>7, <2>1, CheckMoves DEF FromTo, SameAsk, Stages, Within
  <2>2. CASE req'[r].pc \notin {"recheck", "start"}
    BY <1>3, <1>7, <2>2, CheckMoves DEF FromTo, Within
  <2> QED
    BY <2>1, <2>2
<1>8. ASSUME NEW r \in Request, Recheck(r) PROVE NoLeftoverContext'
  <2>1. CASE req'[r].pc = "start"
    BY <1>3, <1>8, <2>1, RecheckMoves DEF FromTo, SameAsk, Within
  <2>2. CASE req'[r].pc # "start"
    BY <1>4, <1>8, <2>2, RecheckMoves DEF FromTo
  <2> QED
    BY <2>1, <2>2
<1>9. ASSUME NEW r \in Request, Onward(r) PROVE NoLeftoverContext'
  BY <1>1, <1>3, <1>9 DEF Onward, SameAsk, Past, Within
<1>10. ASSUME NEW r \in Request, FindPending(r) \/ CreatePending(r) PROVE NoLeftoverContext'
  BY <1>3, <1>10, FindPendingMoves, CreatePendingMoves DEF FromTo, Within
<1>11. ASSUME NEW r \in Request, Mark(r), ~ Onward(r) PROVE NoLeftoverContext'
  BY <1>3, <1>11, MarkMoves DEF FromTo, SameAsk, Within
<1>12. ASSUME NEW r \in Request, WriteExecuted(r) PROVE NoLeftoverContext'
  BY <1>4, <1>12, WriteExecutedMoves DEF FromTo
<1>13. ASSUME req' = req, context' = context PROVE NoLeftoverContext'
  BY <1>1, <1>2, <1>13
<1>14. ASSUME NEW o \in Operator, VerdictStep(o) PROVE NoLeftoverContext'
  BY <1>13, <1>14 DEF VerdictStep, ReadForVerdict, WriteVerdict
<1>15. CASE ApprovalTick \/ UNCHANGED avars
  BY <1>13, <1>15 DEF ApprovalTick, avars
<1>16. ASSUME NEW r \in Request, CancelRequest(r) PROVE NoLeftoverContext'
  <2>1. Moved(r) /\ (context' = None \/ (context' = context /\ req[r].pc \notin Within))
    BY <1>16, CancelMoves
  <2> QED
    BY <1>1, <1>3, <2>1
<1>17. ASSUME NEW r \in Request, MarkLands(r) PROVE NoLeftoverContext'
  BY <1>13, <1>17 DEF MarkLands
<1>18. ASSUME NEW a \in Approval, PendingLands(a) PROVE NoLeftoverContext'
  BY <1>13, <1>18 DEF PendingLands
<1> HIDE DEF Under, UnderNext
<1> QED
  BY <1>5, <1>6, <1>7, <1>8, <1>9, <1>10, <1>11, <1>12, <1>14, <1>15, <1>16, <1>17, <1>18, KindsOfSteps
  DEF QuietStep, StoreStep

-----------------------------------------------------------------------------

LEMMA InitialRecords ==
  ASSUME mode \in Modes, approvals \in InitialStores
  PROVE  /\ approvals \in [Approval -> Record]
         /\ \A a \in Approval : approvals[a].status \in {"none", "pending"}
         /\ \A a \in Approval : approvals[a].status # "none" =>
              approvals[a].decision \in Decisions /\ approvals[a].kind # None
         /\ \A a, b \in Approval : approvals[a].status = "pending" /\ approvals[b].status = "pending" => a = b
<1> DEFINE empty == [a \in Approval |-> NoRecord]
           first == CHOOSE a \in Approval : TRUE
           asked == {<<ask[1], IF ask[2] = "governed" THEN GovernedKind(ask[1]) ELSE ApprovalKind(ask[1])>>
                       : ask \in mode.asks}
<1>1. NoRecord \in Record /\ NoRecord.status = "none"
  BY DEF NoRecord, Record, Kinds
<1>2. CASE approvals = empty
  BY <1>1, <1>2
<1>3. ASSUME NEW q \in asked, q[2] # None,
             approvals = [empty EXCEPT ![first] = [status |-> "pending", decision |-> q[1],
                                                   kind |-> q[2], expires |-> None]]
      PROVE  /\ approvals \in [Approval -> Record]
             /\ \A a \in Approval : approvals[a].status \in {"none", "pending"}
             /\ \A a \in Approval : approvals[a].status # "none" =>
                  approvals[a].decision \in Decisions /\ approvals[a].kind # None
             /\ \A a, b \in Approval : approvals[a].status = "pending" /\ approvals[b].status = "pending" => a = b
  <2>1. PICK d \in Decisions, k \in Kinds : d = q[1] /\ k = q[2] /\ k # None
    BY <1>3, KindsOf DEF Decisions
  <2>2. PICK x \in Record : x = [status |-> "pending", decision |-> d, kind |-> k, expires |-> None]
    BY DEF Record
  <2>3. x.status = "pending" /\ x.decision = d /\ x.kind # None
    BY <2>1, <2>2
  <2>4. approvals = [empty EXCEPT ![first] = x]
    BY <1>3, <2>1, <2>2
  <2> HIDE DEF first, asked
  <2>5. approvals \in [Approval -> Record]
    BY <1>1, <2>4
  <2>6. \A a \in Approval : approvals[a] = IF a = first THEN x ELSE NoRecord
    BY <2>4
  <2> QED
    BY <1>1, <2>3, <2>5, <2>6
<1>4. approvals = empty \/ \E q \in asked :
         q[2] # None /\ approvals = [empty EXCEPT ![first] = [status |-> "pending", decision |-> q[1],
                                                            kind |-> q[2], expires |-> None]]
  BY DEF InitialStores
<1> QED
  BY <1>2, <1>3, <1>4

LEMMA InitInv == AInit => Inv
<1> SUFFICES ASSUME AInit PROVE Inv
  OBVIOUS
<1>1. \A r \in Request : /\ req[r].pc = "idle" /\ req[r].effect = FALSE
                         /\ req[r] \in Doing
  BY DEF AInit, Doing, Steps, Contexts, Outcomes
<1>2. \A o \in Operator : op[o].pc = "idle" /\ op[o] \in Deciding
  BY DEF AInit, Deciding
<1>3. req \in [Request -> Doing] /\ op \in [Operator -> Deciding]
  BY <1>1, <1>2 DEF AInit
<1>4. Types
  BY <1>3, InitialRecords DEF AInit, Types, Contexts
<1>5. Locks /\ Stages /\ Writers
  BY <1>1, <1>2 DEF AInit, Locks, Stages, Writers
<1>6. Store /\ OnePendingEach
  BY InitialRecords DEF AInit, Store, OnePendingEach
<1>7. Clearance
  BY <1>1 DEF Clearance, Past
<1>8. NoLeftoverContext
  BY DEF AInit, NoLeftoverContext
<1> QED
  BY <1>4, <1>5, <1>6, <1>7, <1>8 DEF Inv

LEMMA StepKeeps == Inv /\ [ANext]_avars => Inv'
BY TypesKept, LocksKept, StagesKept, StoreKept, WritersKept, OnePendingKept, ClearanceKept, ContextKept
DEF Inv

LEMMA Invariant == ASpec => []Inv
BY InitInv, StepKeeps, PTL DEF ASpec

\* An action that needs an approval acts on the page only with one that an operator granted,
\* of that kind and for that very decision (execute_decision, approvals.require_approved),
\* however many requests and operators there are.
THEOREM EffectsGranted == ASpec => []EffectsAreGranted
<1>1. Inv => EffectsAreGranted
  BY DEF Inv, Clearance, GrantedFor, EffectsAreGranted
<1> QED
  BY <1>1, Invariant, PTL

\* No two requests for the same action have two approvals pending for it, unless one of them
\* was cancelled while a thread wrote its question (approvals.create_or_reuse_pending).
THEOREM AskedOnce == ASpec => []OnePendingEach
<1>1. Inv => OnePendingEach
  BY DEF Inv
<1> QED
  BY <1>1, Invariant, PTL

\* The context of a decision is gone once no decision is being executed: no direct call
\* runs under a context that an earlier decision left (the finally of execute_decision).
THEOREM ContextCleared == ASpec => []NoLeftoverContext
<1>1. Inv => NoLeftoverContext
  BY DEF Inv
<1> QED
  BY <1>1, Invariant, PTL

(* Nobody begins to use an approval that is spent.                         *)
LEMMA NoUseOfExecuted ==
  ASSUME Types, Stages, Store, Writers, [ANext]_avars, NEW a \in Approval, approvals[a].status = "executed",
         NEW r \in Request, req'[r].uses = a
  PROVE  req[r].uses = a
<1>1. ASSUME NEW q \in Request, Moved(q), req'[q].uses = req[q].uses PROVE req[r].uses = a
  BY <1>1 DEF Moved, Others
<1>2. ASSUME NEW q \in Request, Submit(q) \/ ExecuteApproval(q) \/ Direct(q) \/ Govern(q) PROVE req[r].uses = a
  BY <1>1, <1>2, SubmitMoves, ExecuteApprovalMoves, DirectMoves, GovernMoves DEF FromTo, SameUse
<1>3. ASSUME NEW q \in Request, Check(q) PROVE req[r].uses = a
  BY <1>3, CheckMoves, NoneApart DEF FromTo, Moved, Others, Approved
<1>4. ASSUME NEW q \in Request, Recheck(q) PROVE req[r].uses = a
  BY <1>4, RecheckMoves DEF FromTo, Moved, Others, Approved
<1>5. ASSUME NEW q \in Request, Onward(q) PROVE req[r].uses = a
  BY <1>1, <1>5 DEF Onward
<1>6. ASSUME NEW q \in Request, FindPending(q) \/ CreatePending(q) PROVE req[r].uses = a
  BY <1>1, <1>6, FindPendingMoves, CreatePendingMoves DEF FromTo, SameUse
<1>7. ASSUME NEW q \in Request, (Mark(q) /\ ~ Onward(q)) \/ WriteExecuted(q) PROVE req[r].uses = a
  BY <1>1, <1>7, MarkMoves, WriteExecutedMoves DEF FromTo, SameUse
<1>8. ASSUME NEW o \in Operator, VerdictStep(o) PROVE req[r].uses = a
  BY <1>8 DEF VerdictStep, ReadForVerdict, WriteVerdict
<1>9. CASE ApprovalTick \/ UNCHANGED avars
  BY <1>9 DEF ApprovalTick, avars
<1>10. ASSUME NEW q \in Request, CancelRequest(q) PROVE req[r].uses = a
  BY <1>1, <1>10, CancelMoves
<1>11. ASSUME NEW q \in Request, MarkLands(q) PROVE req[r].uses = a
  BY <1>11 DEF MarkLands
<1>12. ASSUME NEW b \in Approval, PendingLands(b) PROVE req[r].uses = a
  BY <1>12 DEF PendingLands
<1> QED
  BY <1>2, <1>3, <1>4, <1>5, <1>6, <1>7, <1>8, <1>9, <1>10, <1>11, <1>12, KindsOfSteps DEF QuietStep, StoreStep

\* No request that had not chosen an executed approval before takes it up, and it stays
\* executed; only where its mark was left to a thread may a verdict that was read before
\* write over it (approvals.mark_executed, _transition).
THEOREM Spent == ASpec => SpentForGood
<1>1. Inv /\ [ANext]_avars =>
        [\A a \in Approval : approvals[a].status = "executed" =>
           /\ \A r \in Request : req'[r].uses = a => req[r].uses = a
           /\ approvals'[a].status # "executed" =>
                a \in cut /\ \E o \in Operator : op[o].pc = "write" /\ op[o].approval = a]_avars
  BY RecordsKept, NoUseOfExecuted DEF Inv
<1> QED
  BY <1>1, Invariant, PTL DEF ASpec, SpentForGood

-----------------------------------------------------------------------------
(***************************************************************************)
(* The approvals implement ApprovalLife.                                   *)
(*                                                                         *)
(* A request is outside until the last check that asks for an approval is  *)
(* passed.  What the invariant lacks for that: a request carries what it   *)
(* needs along with it (Carried) - who goes to ask an operator needs an    *)
(* approval and asks for just that one, what a request uses is what it was *)
(* let in with, and only a request that has acted comes to its mark or     *)
(* leaves it to a thread.                                                  *)
(***************************************************************************)

Carries(r) ==
  /\ req[r].pc = "govern" => req[r].profile = "governed"
  /\ req[r].pc = "recheck" => req[r].decision.action = "upload"
  /\ req[r].pc \in {"ask", "create"} => Needed(r) # None
  /\ req[r].pc = "create" => req[r].seen = Needed(r)
  /\ req[r].uses # None /\ req[r].pc # "done" =>
       /\ req[r].pc \in Past \cup {"recheck"}
       /\ req[r].uses = req[r].approval /\ Needed(r) # None
  /\ req[r].pc = "record" /\ req[r].outcome = "ok" => req[r].effect
  /\ req[r].pc \in {"mark", "persist"} => req[r].effect

HasUsed(r) == req[r].effect /\ req[r].uses = req[r].approval /\ Needed(r) # None

Carried ==
  /\ \A r \in Request : Carries(r)
  /\ \A r \in strays : HasUsed(r)

SameWant(r) == req'[r].decision = req[r].decision /\ req'[r].profile = req[r].profile

LEMMA WantLasts ==
  ASSUME mode' = mode, NEW r \in Request, SameWant(r)
  PROVE  Needed(r)' = Needed(r) /\ Wanted(r)' = Wanted(r)
<1>1. Needed(r)' = Needed(r)
  BY DEF SameWant, Needed, AskedKind, ApprovalKind, GovernedKind
<1> QED
  BY <1>1 DEF Wanted, SameWant

(* What goes on in the pipeline: only the operation itself has an effect.   *)
Quieter(r) ==
  /\ req'[r].effect = req[r].effect
  /\ req'[r].pc = "record" => req'[r].outcome # "ok"
  /\ req'[r].pc = "mark" => req[r].pc = "record" /\ req[r].outcome = "ok"

LEMMA PipelineQuieter ==
  ASSUME Types, NEW r \in Request, StartAction(r) \/ Prepare(r) \/ Block(r) \/ WriteReceipt(r) \/ Mark(r)
  PROVE  Quieter(r)
<1>1. req \in [Request -> Doing]
  BY DEF Types
<1>2. CASE StartAction(r)
  BY <1>1, <1>2 DEF StartAction, Goto, End, Quieter, Doing
<1>3. CASE Prepare(r)
  BY <1>1, <1>3 DEF Prepare, Quieter, Doing
<1>4. CASE Block(r)
  BY <1>1, <1>4 DEF Block, Quieter, Doing
<1>5. CASE WriteReceipt(r)
  <2>1. PICK s \in {"mark", "done"} : s = IF req[r].outcome = "ok" /\ req[r].uses # None THEN "mark" ELSE "done"
    OBVIOUS
  <2>2. req' = [req EXCEPT ![r] = [req[r] EXCEPT !.pc = s, !.seen = None]]
    BY <1>1, <1>5, <2>1 DEF WriteReceipt, Doing
  <2>3. req'[r].effect = req[r].effect /\ req'[r].pc = s
    BY <1>1, <2>2 DEF Doing
  <2> QED
    BY <1>5, <2>1, <2>3 DEF WriteReceipt, Quieter
<1>6. CASE Mark(r)
  BY <1>1, <1>6 DEF Mark, Goto, End, Quieter, Doing
<1> QED
  BY <1>2, <1>3, <1>4, <1>5, <1>6

LEMMA RunsTo ==
  ASSUME Types, NEW r \in Request, Execute(r) \/ Unrecorded(r)
  PROVE  /\ req[r].pc = "run" /\ req'[r].pc \in {"record", "done"}
         /\ req'[r].pc = "record" /\ req'[r].outcome = "ok" => req'[r].effect
<1>1. req \in [Request -> Doing]
  BY DEF Types
<1>2. CASE Execute(r)
  <2>1. ASSUME NEW x \in {"ok", "failed", "blocked"},
               req' = [req EXCEPT ![r].pc = "record", ![r].effect = TRUE, ![r].outcome = x]
        PROVE  req'[r].pc = "record" /\ req'[r].effect
    BY <1>1, <2>1 DEF Doing
  <2>2. ASSUME NEW x \in {"failed", "blocked"}, req' = [req EXCEPT ![r].pc = "record", ![r].outcome = x]
        PROVE  req'[r].pc = "record" /\ req'[r].outcome # "ok"
    BY <1>1, <2>2 DEF Doing
  <2> QED
    BY <1>2, <2>1, <2>2 DEF Execute
<1>3. CASE Unrecorded(r)
  <2>1. PICK e \in BOOLEAN :
          req' = [req EXCEPT ![r].pc = "done", ![r].outcome = "raised", ![r].effect = e, ![r].seen = None]
    BY <1>3 DEF Unrecorded
  <2>2. req'[r].pc = "done"
    BY <1>1, <2>1 DEF Doing
  <2> QED
    BY <1>3, <2>2 DEF Unrecorded
<1> QED
  BY <1>2, <1>3

LEMMA NeededKind ==
  ASSUME NEW r \in Request
  PROVE  /\ ApprovalKind(req[r].decision) # None /\ (req[r].profile = "direct" => req[r].decision.action = "upload")
              => Needed(r) = ApprovalKind(req[r].decision)
         /\ req[r].profile = "governed" /\ ApprovalKind(req[r].decision) = None
              => Needed(r) = GovernedKind(req[r].decision)
         /\ req[r].profile # "governed" /\ ApprovalKind(req[r].decision) = None => Needed(r) = None
         /\ req[r].decision.action = "upload" => ApprovalKind(req[r].decision) = ApprovalKind(Upload)
BY DEF Needed, AskedKind, ApprovalKind, Upload

LEMMA UseKept ==
  ASSUME Inv, Carried, [ANext]_avars
  PROVE  \A r \in strays' : HasUsed(r)'
<1>1. Types /\ Types' /\ Stages /\ Store /\ Writers /\ mode' = mode
  BY RecordsKept, TypesKept DEF Inv
<1> SUFFICES ASSUME NEW r \in Request, r \in strays' PROVE HasUsed(r)'
  BY <1>1 DEF Types
<1>2. CASE r \in strays
  <2>1. req'[r] = req[r]
    BY <1>1, <1>2, DoneStays DEF Writers
  <2>2. Needed(r)' = Needed(r) /\ HasUsed(r)
    BY <1>1, <1>2, <2>1, WantLasts DEF SameWant, Carried
  <2> QED
    BY <2>1, <2>2 DEF HasUsed
<1>3. CASE r \notin strays
  <2>1. CancelRequest(r) /\ req[r].pc = "persist"
    BY <1>1, <1>3, StraysMove DEF LeavesMark
  <2>2. SameAsk(r) /\ req'[r].uses = req[r].uses /\ req'[r].effect = req[r].effect
    BY <1>1, <2>1, CancelMoves
  <2>3. Needed(r)' = Needed(r)
    BY <1>1, <2>2, WantLasts DEF SameAsk, SameWant
  <2>4. req[r].uses # None
    BY <1>1, <2>1, NoneApart DEF Stages
  <2>5. HasUsed(r)
    BY <2>1, <2>4 DEF Carried, Carries, HasUsed
  <2> QED
    BY <2>2, <2>3, <2>5 DEF SameAsk, HasUsed
<1> QED
  BY <1>2, <1>3

LEMMA CarriedKept ==
  ASSUME Inv, Carried, [ANext]_avars
  PROVE  Carried'
<1>0. \A r \in strays' : HasUsed(r)'
  BY UseKept
<1>1. Types /\ Stages /\ Store /\ Writers /\ mode' = mode
  BY RecordsKept DEF Inv
<1>2. ASSUME NEW q \in Request, req'[q] = req[q] PROVE Carries(q)'
  BY <1>1, <1>2, WantLasts DEF SameWant, Carried, Carries
<1>3. ASSUME NEW r \in Request, Moved(r), Carries(r)' PROVE Carried'
  BY <1>0, <1>2, <1>3 DEF Moved, Others, Carried
<1>4. ASSUME NEW r \in Request, Submit(r) \/ ExecuteApproval(r) \/ Direct(r) PROVE Carried'
  <2>1. /\ Moved(r) /\ req[r].pc = "idle" /\ SameUse(r)
        /\ req'[r].pc \in {"govern", "check", "queued", "recheck"}
        /\ req'[r].pc = "govern" => req'[r].profile = "governed"
        /\ req'[r].pc = "recheck" => req'[r].decision.action = "upload"
    BY <1>1, <1>4, SubmitMoves, ExecuteApprovalMoves, DirectMoves DEF FromTo, Upload
  <2>2. req[r].uses = None
    BY <2>1 DEF Carried, Carries, Past
  <2>3. Carries(r)'
    BY <2>1, <2>2 DEF SameUse, Carries
  <2> QED
    BY <1>3, <2>1, <2>3
<1>5. ASSUME NEW r \in Request, Govern(r) PROVE Carried'
  <2>1. /\ Moved(r) /\ req[r].pc = "govern" /\ SameUse(r) /\ SameAsk(r) /\ req'[r].pc \in {"check", "ask", "done"}
        /\ req'[r].pc = "ask" => GovernedKind(req[r].decision) # None
    BY <1>1, <1>5, GovernMoves DEF FromTo
  <2>2. req[r].uses = None /\ req[r].profile = "governed"
    BY <2>1 DEF Carried, Carries, Past
  <2>3. req'[r].pc = "ask" => Needed(r)' # None
    BY <1>1, <2>1, <2>2, NeededKind, WantLasts DEF SameAsk, SameWant
  <2>4. Carries(r)'
    BY <2>1, <2>2, <2>3 DEF SameUse, Carries
  <2> QED
    BY <1>3, <2>1, <2>4
<1>6. ASSUME NEW r \in Request, Check(r) PROVE Carried'
  <2> DEFINE kind == ApprovalKind(req[r].decision)
  <2>1. /\ Moved(r) /\ req[r].pc = "check" /\ SameAsk(r) /\ req'[r].pc \in {"recheck", "start", "ask", "done"}
        /\ req'[r].pc = "recheck" => req[r].decision.action = "upload"
        /\ req'[r].pc \in {"ask", "done"} => kind # None /\ SameUse(r)
        /\ req'[r].pc \in {"recheck", "start"} =>
              \/ kind = None /\ req'[r].uses = None
              \/ kind # None /\ req'[r].uses = req[r].approval
    BY <1>1, <1>6, CheckMoves DEF FromTo
  <2>2. req[r].uses = None /\ req[r].profile # "direct"
    BY <1>1, <2>1 DEF Carried, Carries, Past, Stages
  <2>3. kind # None => Needed(r)' # None
    BY <1>1, <2>1, <2>2, NeededKind, WantLasts DEF SameAsk, SameWant
  <2> HIDE DEF kind
  <2>4. Carries(r)'
    BY <2>1, <2>2, <2>3 DEF SameUse, SameAsk, Carries, Past
  <2> QED
    BY <1>3, <2>1, <2>4
<1>7. ASSUME NEW r \in Request, Recheck(r) PROVE Carried'
  <2>1. /\ Moved(r) /\ req[r].pc = "recheck" /\ SameAsk(r) /\ req'[r].pc \in {"start", "ask", "done"}
        /\ \/ req'[r].uses = req[r].uses
           \/ req'[r].uses = req[r].approval /\ ApprovalKind(Upload) # None /\ req'[r].pc = "start"
        /\ req'[r].pc = "ask" => ApprovalKind(Upload) # None /\ req[r].approval = None
    BY <1>1, <1>7, RecheckMoves DEF FromTo
  <2>2. /\ req[r].decision.action = "upload"
        /\ req[r].uses # None => req[r].uses = req[r].approval /\ Needed(r) # None
    BY <2>1 DEF Carried, Carries
  <2>3. ApprovalKind(Upload) # None => Needed(r) # None
    BY <2>2, NeededKind
  <2>4. Needed(r)' = Needed(r)
    BY <1>1, <2>1, WantLasts DEF SameAsk, SameWant
  <2>5. Carries(r)'
    BY <2>1, <2>2, <2>3, <2>4 DEF SameAsk, Carries, Past
  <2> QED
    BY <1>3, <2>1, <2>5
<1>8. ASSUME NEW r \in Request, FindPending(r) PROVE Carried'
  <2>1. /\ Moved(r) /\ req[r].pc = "ask" /\ SameUse(r) /\ SameWant(r) /\ req'[r].pc \in {"done", "create"}
        /\ req'[r].pc = "create" => req'[r].seen = AskedKind(r)
    BY <1>1, <1>8, FindPendingMoves DEF FromTo, SameWant
  <2>2. req[r].uses = None /\ Needed(r) # None
    BY <2>1 DEF Carried, Carries, Past
  <2>3. Needed(r)' = Needed(r) /\ Needed(r) = AskedKind(r)
    BY <1>1, <2>1, <2>2, WantLasts DEF Needed
  <2>4. Carries(r)'
    BY <2>1, <2>2, <2>3 DEF SameUse, Carries
  <2> QED
    BY <1>3, <2>1, <2>4
<1>9. ASSUME NEW r \in Request, CreatePending(r) PROVE Carried'
  <2>1. Moved(r) /\ req'[r].pc = "done"
    BY <1>1, <1>9, CreatePendingMoves DEF FromTo
  <2>2. Carries(r)'
    BY <2>1 DEF Carries
  <2> QED
    BY <1>3, <2>1, <2>2
<1>10. ASSUME NEW r \in Request, req[r].pc \in Past, req'[r].pc \in (Past \ {"start"}) \cup {"done"}, Moved(r),
              SameAsk(r), req'[r].uses = req[r].uses,
              req'[r].pc = "record" /\ req'[r].outcome = "ok" => req'[r].effect,
              req'[r].pc \in {"mark", "persist"} => req'[r].effect
       PROVE  Carried'
  <2>1. req[r].uses # None => req[r].uses = req[r].approval /\ Needed(r) # None
    BY <1>10 DEF Carried, Carries, Past
  <2>2. Needed(r)' = Needed(r)
    BY <1>1, <1>10, WantLasts DEF SameAsk, SameWant
  <2>3. Carries(r)'
    BY <1>10, <2>1, <2>2 DEF SameAsk, Carries, Past
  <2> QED
    BY <1>3, <1>10, <2>3
<1>11. ASSUME NEW r \in Request, Onward(r), Quieter(r) PROVE Carried'
  <2>1. req'[r].pc = "mark" => req'[r].effect
    BY <1>11 DEF Quieter, Carried, Carries
  <2> QED
    BY <1>10, <1>11, <2>1 DEF Onward, Quieter, Past
<1>12. ASSUME NEW r \in Request, Execute(r) \/ Unrecorded(r) PROVE Carried'
  <2>1. Onward(r)
    BY <1>1, <1>12, ExecuteOnward, UnrecordedOnward
  <2> QED
    BY <1>1, <1>10, <1>12, <2>1, RunsTo DEF Onward, Past
<1>13. ASSUME NEW r \in Request, Mark(r), ~ Onward(r) PROVE Carried'
  <2>1. /\ Moved(r) /\ SameAsk(r) /\ SameUse(r) /\ req[r].pc = "mark" /\ req'[r].pc = "persist"
    BY <1>1, <1>13, MarkMoves DEF FromTo
  <2>2. req[r].effect
    BY <2>1 DEF Carried, Carries
  <2> QED
    BY <1>10, <2>1, <2>2 DEF SameUse, Past
<1>14. ASSUME NEW r \in Request, WriteExecuted(r) PROVE Carried'
  <2>1. Moved(r) /\ req'[r].pc = "done"
    BY <1>1, <1>14, WriteExecutedMoves DEF FromTo
  <2>2. Carries(r)'
    BY <2>1 DEF Carries
  <2> QED
    BY <1>3, <2>1, <2>2
<1>15. ASSUME req' = req PROVE Carried'
  BY <1>0, <1>2, <1>15 DEF Carried
<1>16. ASSUME NEW o \in Operator, ReadForVerdict(o) \/ WriteVerdict(o) PROVE Carried'
  BY <1>15, <1>16 DEF ReadForVerdict, WriteVerdict
<1>17. CASE ApprovalTick \/ UNCHANGED avars
  BY <1>15, <1>17 DEF ApprovalTick, avars
<1>19. ASSUME NEW r \in Request, CancelRequest(r) PROVE Carried'
  <2>1. Moved(r) /\ req'[r].pc = "done"
    BY <1>1, <1>19, CancelMoves
  <2>2. Carries(r)'
    BY <2>1 DEF Carries
  <2> QED
    BY <1>3, <2>1, <2>2
<1>20. ASSUME NEW r \in Request, MarkLands(r) PROVE Carried'
  BY <1>15, <1>20 DEF MarkLands
<1>21. ASSUME NEW a \in Approval, PendingLands(a) PROVE Carried'
  BY <1>15, <1>21 DEF PendingLands
<1>18. ASSUME NEW r \in Request, StartAction(r) \/ Prepare(r) \/ Block(r) \/ WriteReceipt(r) \/ Mark(r) PROVE Carried'
  BY <1>1, <1>11, <1>13, <1>18, PipelineQuieter, StartOnward, PrepareOnward, BlockOnward, WriteReceiptOnward
<1> QED
  BY <1>4, <1>5, <1>6, <1>7, <1>8, <1>9, <1>12, <1>14, <1>16, <1>17, <1>18, <1>19, <1>20, <1>21 DEF ANext, Advance

(* The row of a request, by where it is.                                   *)
Held(r) == IF Needed(r) = None THEN None ELSE req[r].approval

RowOf(r) ==
  /\ req[r].effect => RequestRow(r) = [place |-> "acted", want |-> Wanted(r), held |-> Held(r)]
  /\ ~ req[r].effect /\ req[r].pc = "idle" => RequestRow(r) = [place |-> "away", want |-> None, held |-> None]
  /\ ~ req[r].effect /\ req[r].pc = "done"
       => RequestRow(r) = [place |-> "gone", want |-> Wanted(r), held |-> None]
  /\ ~ req[r].effect /\ req[r].pc \notin {"idle", "done"} /\ LetIn(r)
       => RequestRow(r) = [place |-> "inside", want |-> Wanted(r), held |-> Held(r)]
  /\ ~ req[r].effect /\ req[r].pc \notin {"idle", "done"} /\ ~ LetIn(r)
       => RequestRow(r) = [place |-> "outside", want |-> Wanted(r), held |-> None]

RowsOf == \A r \in Request : RowOf(r)

LEMMA RowsAre == RowsOf
<1> SUFFICES ASSUME NEW r \in Request PROVE RowOf(r)
  BY DEF RowsOf
<1>1. CASE req[r].effect
  BY <1>1 DEF RowOf, RequestRow, Held
<1>2. CASE ~ req[r].effect
  <2>1. CASE req[r].pc = "idle"
    BY <1>2, <2>1 DEF RowOf, RequestRow
  <2>2. CASE req[r].pc = "done"
    BY <1>2, <2>2 DEF RowOf, RequestRow
  <2>3. CASE req[r].pc \notin {"idle", "done"}
    BY <1>2, <2>3 DEF RowOf, RequestRow, Held
  <2> QED
    BY <2>1, <2>2, <2>3
<1> QED
  BY <1>1, <1>2

LEMMA RowIs ==
  ASSUME NEW r \in Request
  PROVE  RowOf(r) /\ RowOf(r)'
<1>1. RowsOf'
  BY RowsAre, PTL
<1> QED
  BY <1>1, RowsAre DEF RowsOf

LEMMA RowsMove ==
  ASSUME mode' = mode, NEW r \in Request, Moved(r)
  PROVE  RequestRows' = [RequestRows EXCEPT ![r] = RequestRow(r)']
<1>1. ASSUME NEW q \in Request, req'[q] = req[q] PROVE RequestRow(q)' = RequestRow(q)
  <2>1. Needed(q)' = Needed(q) /\ Wanted(q)' = Wanted(q)
    BY <1>1, WantLasts DEF SameWant
  <2>2. LetIn(q)' = LetIn(q)
    BY <1>1, <2>1 DEF LetIn, Within, ApprovalKind
  <2> QED
    BY <1>1, <2>1, <2>2 DEF RequestRow
<1>2. \A q \in Request \ {r} : RequestRow(q)' = RequestRow(q)
  BY <1>1 DEF Moved, Others
<1> QED
  BY <1>2 DEF RequestRows

LEMMA RowStays ==
  ASSUME mode' = mode, NEW r \in Request, Moved(r), RequestRow(r)' = RequestRow(r)
  PROVE  RequestRows' = RequestRows
BY RowsMove DEF RequestRows

(* The moves of ApprovalLife, each from what it takes of the requests.      *)
LEMMA Stays ==
  ASSUME Types, Types', mode' = mode, NEW r \in Request, Moved(r), SameAsk(r),
         \/ req[r].effect /\ req'[r].effect
         \/ /\ ~ req[r].effect /\ ~ req'[r].effect /\ (LetIn(r)' <=> LetIn(r))
            /\ req[r].pc \notin {"idle", "done"} /\ req'[r].pc \notin {"idle", "done"}
  PROVE  RequestRows' = RequestRows
<1>1. RowOf(r) /\ RowOf(r)'
  BY RowIs
<1>2. Needed(r)' = Needed(r) /\ Wanted(r)' = Wanted(r) /\ Held(r)' = Held(r)
  BY WantLasts DEF SameAsk, SameWant, Held
<1>3. RequestRow(r)' = RequestRow(r)
  BY <1>1, <1>2 DEF RowOf
<1> QED
  BY <1>3, RowStays

LEMMA Arrives ==
  ASSUME Types, Types', mode' = mode, approvals' = approvals, cut' = cut, NEW r \in Request, Moved(r),
         ~ req[r].effect, ~ req'[r].effect, req[r].pc = "idle", req'[r].pc \notin {"idle", "done"},
         LetIn(r)' => Needed(r)' = None, req'[r].decision \in Decisions
  PROVE  Life!Arrive(r)
<1>1. RowOf(r) /\ RowOf(r)'
  BY RowIs
<1>2. RequestRows[r].place = "away" /\ RequestRow(r)' \in
        {[place |-> "inside", want |-> None, held |-> None]}
          \cup {[place |-> "outside", want |-> s, held |-> None] : s \in Subjects}
  <2>1. RequestRows[r] = RequestRow(r) /\ RequestRow(r).place = "away"
    BY <1>1 DEF RowOf, RequestRows
  <2>2. CASE Needed(r)' = None
    <3>1. LetIn(r)' /\ Wanted(r)' = None /\ Held(r)' = None
      BY <2>2 DEF LetIn, Within, Wanted, Held
    <3> QED
      BY <1>1, <2>1, <3>1 DEF RowOf
  <2>3. CASE Needed(r)' # None
    <3>1. PICK k \in Kinds, d \in Decisions : k = Needed(r)' /\ d = req'[r].decision
      <4>1. Needed(r)' \in Kinds
        BY DEF Needed, AskedKind, ApprovalKind, GovernedKind, Kinds, Risky
      <4> QED
        BY <4>1
    <3>2. Wanted(r)' = <<k, d>> /\ k # None
      BY <2>3, <3>1 DEF Wanted
    <3>3. <<k, d>> \in Subjects
      BY <3>1, <3>2 DEF Subjects, Kinds, Decisions
    <3>4. RequestRow(r)' = [place |-> "outside", want |-> <<k, d>>, held |-> None]
      BY <1>1, <2>3, <3>2 DEF RowOf
    <3> QED
      BY <2>1, <3>3, <3>4
  <2> QED
    BY <2>2, <2>3
<1>3. RequestRows' = [RequestRows EXCEPT ![r] = RequestRow(r)']
  BY RowsMove
<1>4. ApprovalRows' = ApprovalRows
  BY DEF ApprovalRows, ApprovalRow
<1>5. PICK row : row = RequestRow(r)'
  OBVIOUS
<1>6. RequestRows' = [RequestRows EXCEPT ![r] = row]
  BY <1>3, <1>5
<1>7. \/ row = [place |-> "inside", want |-> None, held |-> None]
      \/ \E s \in Subjects : row = [place |-> "outside", want |-> s, held |-> None]
  BY <1>2, <1>5
<1> QED
  BY <1>2, <1>4, <1>6, <1>7 DEF Life!Arrive, Life!Becomes

LEMMA Leaves ==
  ASSUME Types, Types', mode' = mode, approvals' = approvals, cut' = cut, NEW r \in Request, Moved(r), SameWant(r),
         ~ req[r].effect, ~ req'[r].effect, req[r].pc \notin {"idle", "done"}, req'[r].pc = "done"
  PROVE  Life!Leave(r)
<1>1. RowOf(r) /\ RowOf(r)'
  BY RowIs
<1>2. Wanted(r)' = Wanted(r)
  BY WantLasts
<1>3. /\ RequestRow(r).place \in {"inside", "outside"} /\ RequestRow(r).want = Wanted(r)
      /\ RequestRow(r)' = [place |-> "gone", want |-> Wanted(r), held |-> None]
  BY <1>1, <1>2 DEF RowOf
<1>4. RequestRows[r] = RequestRow(r) /\ RequestRows' = [RequestRows EXCEPT ![r] = RequestRow(r)']
  BY RowsMove DEF RequestRows
<1>5. ApprovalRows' = ApprovalRows
  BY DEF ApprovalRows, ApprovalRow
<1> QED
  BY <1>3, <1>4, <1>5 DEF Life!Leave, Life!Becomes

LEMMA Performs ==
  ASSUME Types, Types', mode' = mode, approvals' = approvals, cut' = cut, NEW r \in Request, Moved(r), SameAsk(r),
         ~ req[r].effect, req'[r].effect, req[r].pc \notin {"idle", "done"}, LetIn(r)
  PROVE  Life!Perform(r)
<1>1. RowOf(r) /\ RowOf(r)'
  BY RowIs
<1>2. Needed(r)' = Needed(r) /\ Wanted(r)' = Wanted(r) /\ Held(r)' = Held(r)
  BY WantLasts DEF SameAsk, SameWant, Held
<1>3. /\ RequestRow(r) = [place |-> "inside", want |-> Wanted(r), held |-> Held(r)]
      /\ RequestRow(r)' = [place |-> "acted", want |-> Wanted(r), held |-> Held(r)]
  BY <1>1, <1>2 DEF RowOf
<1>4. RequestRows[r] = RequestRow(r) /\ RequestRows' = [RequestRows EXCEPT ![r] = RequestRow(r)']
  BY RowsMove DEF RequestRows
<1>5. ApprovalRows' = ApprovalRows
  BY DEF ApprovalRows, ApprovalRow
<1> QED
  BY <1>3, <1>4, <1>5 DEF Life!Perform, Life!Becomes

LEMMA Admits ==
  ASSUME Types, Types', mode' = mode, approvals' = approvals, cut' = cut, NEW r \in Request, Moved(r), SameAsk(r),
         ~ req[r].effect, ~ req'[r].effect, req[r].pc \notin {"idle", "done"}, req'[r].pc \notin {"idle", "done"},
         ~ LetIn(r), LetIn(r)', req[r].approval # None, Approved(req[r].approval, Needed(r), req[r].decision)
  PROVE  Life!Admit(r)
<1>1. RowOf(r) /\ RowOf(r)'
  BY RowIs
<1>2. Needed(r)' = Needed(r) /\ Wanted(r)' = Wanted(r) /\ Held(r)' = Held(r)
  BY WantLasts DEF SameAsk, SameWant, Held
<1>3. Needed(r) # None
  BY DEF LetIn, Within
<1>4. PICK a \in Approval : a = req[r].approval
  BY DEF Types, Doing
<1>5. Wanted(r) = <<Needed(r), req[r].decision>> /\ Held(r) = a
  BY <1>3, <1>4 DEF Wanted, Held
<1>6. ApprovalRows[a] = [status |-> "approved", for |-> Wanted(r)]
  BY <1>4, <1>5 DEF ApprovalRows, ApprovalRow, Approved
<1>7. /\ RequestRow(r) = [place |-> "outside", want |-> Wanted(r), held |-> None]
      /\ RequestRow(r)' = [place |-> "inside", want |-> Wanted(r), held |-> a]
  BY <1>1, <1>2, <1>5 DEF RowOf
<1>8. RequestRows[r] = RequestRow(r) /\ RequestRows' = [RequestRows EXCEPT ![r] = RequestRow(r)']
  BY RowsMove DEF RequestRows
<1>9. ApprovalRows' = ApprovalRows
  BY DEF ApprovalRows, ApprovalRow
<1>10. PICK w : w = Wanted(r)
  OBVIOUS
<1>11. /\ RequestRows[r].place = "outside" /\ RequestRows[r].want = w
       /\ ApprovalRows[a] = [status |-> "approved", for |-> w]
       /\ RequestRows' = [RequestRows EXCEPT ![r] = [place |-> "inside", want |-> w, held |-> a]]
  BY <1>6, <1>7, <1>8, <1>10
<1> QED
  BY <1>9, <1>11 DEF Life!Admit, Life!Becomes

(* The checks: who is let in there was let in by an approval that is granted now. *)
LEMMA ArrivalsImplement ==
  ASSUME Inv, Inv', [ANext]_avars, NEW r \in Request, Submit(r) \/ ExecuteApproval(r) \/ Direct(r)
  PROVE  Life!Arrive(r)
<1>1. Types /\ Types' /\ Stages /\ Stages' /\ Store /\ mode' = mode
  BY RecordsKept DEF Inv
<1>2. /\ Moved(r) /\ StoreSame /\ SameUse(r) /\ req[r].pc = "idle"
      /\ req'[r].pc \in {"govern", "check", "queued", "recheck"}
      /\ req'[r].pc = "check" => req'[r].profile # "governed"
      /\ req'[r].pc = "queued" => req'[r].profile = "direct" /\ req'[r].decision = Plain
      /\ req'[r].pc = "recheck" => req'[r].profile = "direct"
  BY <1>1, SubmitMoves, ExecuteApprovalMoves, DirectMoves DEF FromTo
<1>3. ~ req[r].effect /\ ~ req'[r].effect /\ req'[r].decision \in Decisions
  BY <1>1, <1>2 DEF Stages, SameUse
<1>4. LetIn(r)' => Needed(r)' = None
  <2>1. CASE req'[r].pc \in {"govern", "recheck"}
    BY <1>2, <2>1 DEF LetIn, Within
  <2>2. CASE req'[r].pc = "check"
    BY <1>2, <2>2 DEF LetIn, Within, Needed, AskedKind
  <2>3. CASE req'[r].pc = "queued"
    BY <1>2, <2>3 DEF Needed, Plain
  <2> QED
    BY <1>2, <2>1, <2>2, <2>3
<1> QED
  BY <1>1, <1>2, <1>3, <1>4, Arrives DEF StoreSame

LEMMA GovernImplements ==
  ASSUME Inv, Inv', Carried, [ANext]_avars, NEW r \in Request, Govern(r)
  PROVE  Life!Admit(r) \/ Life!Leave(r) \/ RequestRows' = RequestRows
<1> DEFINE kind == GovernedKind(req[r].decision)
<1>1. Types /\ Types' /\ Stages /\ mode' = mode
  BY RecordsKept DEF Inv
<1>2. /\ Moved(r) /\ StoreSame /\ SameUse(r) /\ SameAsk(r) /\ SameWant(r) /\ req[r].pc = "govern"
      /\ req'[r].pc \in {"check", "ask", "done"}
      /\ req'[r].pc = "check" =>
           kind = None \/ (req[r].approval # None /\ Approved(req[r].approval, kind, req[r].decision))
      /\ req'[r].pc = "ask" => kind # None
  BY <1>1, GovernMoves DEF FromTo, SameAsk, SameWant
<1>3. ~ req[r].effect /\ ~ req'[r].effect /\ req[r].profile = "governed"
  BY <1>1, <1>2 DEF Stages, SameUse, Carried, Carries
<1>4. /\ LetIn(r) <=> Needed(r) = None
      /\ req'[r].pc = "ask" => (LetIn(r)' <=> Needed(r) = None)
      /\ req'[r].pc = "check" => (LetIn(r)' <=> Needed(r) = None \/ ApprovalKind(req[r].decision) = None)
  <2>1. Needed(r)' = Needed(r) /\ ApprovalKind(req[r].decision)' = ApprovalKind(req[r].decision)
    BY <1>1, <1>2, WantLasts DEF SameWant, ApprovalKind
  <2> QED
    BY <1>2, <1>3, <2>1 DEF LetIn, Within
<1>5. CASE req'[r].pc = "done"
  BY <1>1, <1>2, <1>3, <1>5, Leaves DEF StoreSame
<1>6. CASE req'[r].pc # "done" /\ (LetIn(r)' <=> LetIn(r))
  BY <1>1, <1>2, <1>3, <1>6, Stays
<1>7. CASE req'[r].pc # "done" /\ ~ (LetIn(r)' <=> LetIn(r))
  <2>1. req'[r].pc = "check" /\ Needed(r) # None /\ ApprovalKind(req[r].decision) = None
        /\ ~ LetIn(r) /\ LetIn(r)'
    BY <1>2, <1>4, <1>7
  <2>2. kind = Needed(r)
    BY <1>3, <2>1, NeededKind
  <2> QED
    BY <1>1, <1>2, <1>3, <2>1, <2>2, Admits DEF StoreSame
<1> QED
  BY <1>5, <1>6, <1>7

LEMMA CheckImplements ==
  ASSUME Inv, Inv', Carried, [ANext]_avars, NEW r \in Request, Check(r)
  PROVE  Life!Admit(r) \/ Life!Leave(r) \/ RequestRows' = RequestRows
<1> DEFINE kind == ApprovalKind(req[r].decision)
<1>1. Types /\ Types' /\ Stages /\ mode' = mode
  BY RecordsKept DEF Inv
<1>2. /\ Moved(r) /\ StoreSame /\ SameAsk(r) /\ SameWant(r) /\ req'[r].effect = req[r].effect
      /\ req[r].pc = "check" /\ req'[r].pc \in {"recheck", "start", "ask", "done"}
      /\ req'[r].pc \in {"recheck", "start"} =>
           kind = None \/ (req[r].approval # None /\ Approved(req[r].approval, kind, req[r].decision))
      /\ req'[r].pc \in {"ask", "done"} => kind # None
  BY <1>1, CheckMoves DEF FromTo, SameAsk, SameWant
<1>3. ~ req[r].effect /\ ~ req'[r].effect /\ req[r].profile # "direct" /\ req'[r].profile # "direct"
  BY <1>1, <1>2 DEF Stages, SameWant
<1>4. kind # None => Needed(r) = kind
  BY <1>3, NeededKind
<1>5. /\ LetIn(r) <=> kind = None
      /\ req'[r].pc = "ask" => (LetIn(r)' <=> Needed(r) = None)
      /\ req'[r].pc \in {"recheck", "start"} => LetIn(r)'
  <2>1. Needed(r)' = Needed(r)
    BY <1>1, <1>2, WantLasts
  <2> QED
    BY <1>2, <1>3, <1>4, <2>1 DEF LetIn, Within
<1> HIDE DEF kind
<1>6. CASE req'[r].pc = "done"
  BY <1>1, <1>2, <1>3, <1>6, Leaves DEF StoreSame
<1>7. CASE req'[r].pc = "ask"
  <2>1. ~ LetIn(r) /\ ~ LetIn(r)'
    BY <1>2, <1>4, <1>5, <1>7
  <2> QED
    BY <1>1, <1>2, <1>3, <1>7, <2>1, Stays
<1>8. CASE req'[r].pc \in {"recheck", "start"}
  <2>1. CASE kind = None
    BY <1>1, <1>2, <1>3, <1>5, <1>8, <2>1, Stays
  <2>2. CASE kind # None
    BY <1>1, <1>2, <1>3, <1>4, <1>5, <1>8, <2>2, Admits DEF StoreSame
  <2> QED
    BY <2>1, <2>2
<1> QED
  BY <1>2, <1>6, <1>7, <1>8

LEMMA RecheckImplements ==
  ASSUME Inv, Inv', Carried, [ANext]_avars, NEW r \in Request, Recheck(r)
  PROVE  Life!Admit(r) \/ Life!Leave(r) \/ RequestRows' = RequestRows
<1> DEFINE kind == ApprovalKind(Upload)
<1>1. Types /\ Types' /\ Stages /\ Clearance /\ mode' = mode
  BY RecordsKept DEF Inv
<1>2. /\ Moved(r) /\ StoreSame /\ SameAsk(r) /\ SameWant(r) /\ req'[r].effect = req[r].effect
      /\ req[r].pc = "recheck" /\ req'[r].pc \in {"start", "ask", "done"}
      /\ req'[r].pc = "start" =>
           kind = None \/ (req[r].approval # None /\ Approved(req[r].approval, kind, Upload))
      /\ req'[r].pc = "ask" => kind # None /\ req[r].approval = None
  BY <1>1, RecheckMoves DEF FromTo, SameAsk, SameWant
<1>3. /\ ~ req[r].effect /\ ~ req'[r].effect
      /\ req[r].profile = "direct" => req[r].decision = Upload
      /\ req[r].decision.action = "upload"
  BY <1>1, <1>2 DEF Stages, Carried, Carries
<1>4. /\ kind # None => Needed(r) = kind
      /\ req[r].profile = "direct" /\ kind = None => Needed(r) = None
      /\ Needed(r)' = Needed(r)
  BY <1>1, <1>2, <1>3, NeededKind, WantLasts
<1> HIDE DEF kind
<1>5. /\ LetIn(r) <=> Needed(r) = None \/ req[r].profile # "direct"
      /\ req'[r].pc = "start" => LetIn(r)'
      /\ req'[r].pc = "ask" => (LetIn(r)' <=> Needed(r) = None)
  BY <1>2, <1>4 DEF LetIn, Within
<1>6. CASE req'[r].pc = "done"
  BY <1>1, <1>2, <1>3, <1>6, Leaves DEF StoreSame
<1>7. CASE req'[r].pc = "ask"
  <2>1. req[r].profile = "direct"
    <3>1. SUFFICES ASSUME req[r].profile # "direct" PROVE FALSE
      OBVIOUS
    <3>2. req[r].approval \in granted
      BY <1>1, <1>2, <1>4, <1>7, <3>1 DEF Clearance, GrantedFor
    <3> QED
      BY <1>1, <1>2, <1>7, <3>2, NoneApart DEF Types
  <2>2. ~ LetIn(r) /\ ~ LetIn(r)'
    BY <1>2, <1>4, <1>5, <1>7, <2>1
  <2> QED
    BY <1>1, <1>2, <1>3, <1>7, <2>2, Stays
<1>8. CASE req'[r].pc = "start" /\ LetIn(r)
  BY <1>1, <1>2, <1>3, <1>5, <1>8, Stays
<1>9. CASE req'[r].pc = "start" /\ ~ LetIn(r)
  <2>1. kind # None /\ req[r].decision = Upload
    BY <1>3, <1>4, <1>5, <1>9
  <2> QED
    BY <1>1, <1>2, <1>3, <1>4, <1>5, <1>9, <2>1, Admits DEF StoreSame
<1> QED
  BY <1>2, <1>6, <1>7, <1>8, <1>9

(* The pipeline: a request in it was let in, and acts or leaves.            *)
LEMMA OnwardImplements ==
  ASSUME Inv, Inv', NEW r \in Request, Onward(r), req[r].effect => req'[r].effect
  PROVE  Life!Perform(r) \/ Life!Leave(r) \/ RequestRows' = RequestRows
<1>1. /\ Types /\ Types' /\ mode' = mode /\ Moved(r) /\ SameAsk(r) /\ SameWant(r) /\ UNCHANGED <<approvals, cut>>
      /\ req[r].pc \in Past \ {"persist"} /\ req'[r].pc \in (Past \ {"start", "persist"}) \cup {"done"}
  BY DEF Inv, Onward, StoreSame, SameAsk, SameWant
<1>2. LetIn(r) /\ (req'[r].pc # "done" => LetIn(r)')
  BY <1>1 DEF LetIn, Within, Past
<1>3. req[r].pc \notin {"idle", "done"} /\ req'[r].pc # "idle"
  BY <1>1 DEF Past
<1>4. CASE req[r].effect
  BY <1>1, <1>4, Stays
<1>5. CASE ~ req[r].effect /\ req'[r].effect
  BY <1>1, <1>2, <1>3, <1>5, Performs
<1>6. CASE ~ req[r].effect /\ ~ req'[r].effect /\ req'[r].pc = "done"
  BY <1>1, <1>3, <1>6, Leaves
<1>7. CASE ~ req[r].effect /\ ~ req'[r].effect /\ req'[r].pc # "done"
  BY <1>1, <1>2, <1>3, <1>7, Stays
<1> QED
  BY <1>4, <1>5, <1>6, <1>7

LEMMA PipelineImplements ==
  ASSUME Inv, Inv', Carried, NEW r \in Request,
         StartAction(r) \/ Prepare(r) \/ Execute(r) \/ Unrecorded(r) \/ Block(r) \/ WriteReceipt(r) \/ Mark(r)
  PROVE  Life!Perform(r) \/ Life!Leave(r) \/ RequestRows' = RequestRows
<1>1. Types /\ Types' /\ Stages
  BY DEF Inv
<1>2. CASE StartAction(r) \/ Prepare(r) \/ Block(r) \/ WriteReceipt(r)
  <2>1. Onward(r) /\ req'[r].effect = req[r].effect
    BY <1>1, <1>2, PipelineQuieter, StartOnward, PrepareOnward, BlockOnward, WriteReceiptOnward DEF Quieter
  <2> QED
    BY <2>1, OnwardImplements
<1>3. CASE Execute(r) \/ Unrecorded(r)
  <2>1. Onward(r) /\ ~ req[r].effect
    BY <1>1, <1>3, RunsTo, ExecuteOnward, UnrecordedOnward DEF Stages
  <2> QED
    BY <2>1, OnwardImplements
<1>4. CASE Mark(r) /\ Onward(r)
  BY <1>1, <1>4, PipelineQuieter, OnwardImplements DEF Quieter
<1>5. CASE Mark(r) /\ ~ Onward(r)
  <2>1. /\ Moved(r) /\ SameAsk(r) /\ SameUse(r) /\ mode' = mode /\ req[r].pc = "mark"
    BY <1>1, <1>5, MarkMoves DEF FromTo
  <2>2. req[r].effect /\ req'[r].effect
    BY <2>1 DEF SameUse, Carried, Carries
  <2> QED
    BY <1>1, <2>1, <2>2, Stays
<1> QED
  BY <1>2, <1>3, <1>4, <1>5

(* The store: who finds a question pending does not ask it again, and only what was *)
(* used is spent.                                                                    *)
LEMMA FindPendingImplements ==
  ASSUME Inv, Inv', Carried, NEW r \in Request, FindPending(r)
  PROVE  Life!Leave(r) \/ RequestRows' = RequestRows
<1>1. Types /\ Types' /\ Stages
  BY DEF Inv
<1>2. /\ Moved(r) /\ SameUse(r) /\ SameWant(r) /\ mode' = mode /\ UNCHANGED <<approvals, cut>>
      /\ req[r].pc = "ask" /\ req'[r].pc \in {"done", "create"}
  BY <1>1, FindPendingMoves DEF FromTo, SameWant
<1>3. ~ req[r].effect /\ ~ req'[r].effect /\ Needed(r) # None
  BY <1>1, <1>2 DEF Stages, SameUse, Carried, Carries
<1>4. CASE req'[r].pc = "done"
  BY <1>1, <1>2, <1>3, <1>4, Leaves
<1>5. CASE req'[r].pc = "create"
  <2>1. Needed(r)' = Needed(r) /\ Wanted(r)' = Wanted(r)
    BY <1>2, WantLasts
  <2>2. ~ LetIn(r) /\ ~ LetIn(r)'
    BY <1>2, <1>3, <1>5, <2>1 DEF LetIn, Within
  <2>3. RowOf(r) /\ RowOf(r)'
    BY RowIs
  <2>4. RequestRow(r)' = RequestRow(r)
    BY <1>2, <1>3, <1>5, <2>1, <2>2, <2>3 DEF RowOf
  <2> QED
    BY <1>2, <2>4, RowStays
<1> QED
  BY <1>2, <1>4, <1>5

LEMMA ApprovalRowsMove ==
  ASSUME Types, NEW a \in Approval, NEW x, x.status # "none", approvals' = [approvals EXCEPT ![a] = x]
  PROVE  ApprovalRows' = [ApprovalRows EXCEPT ![a] = [status |-> x.status, for |-> <<x.kind, x.decision>>]]
<1>1. ApprovalRow(a)' = [status |-> x.status, for |-> <<x.kind, x.decision>>]
  BY DEF Types, ApprovalRow
<1>2. \A b \in Approval \ {a} : ApprovalRow(b)' = ApprovalRow(b)
  BY DEF Types, ApprovalRow
<1> QED
  BY <1>1, <1>2 DEF ApprovalRows

LEMMA CreatePendingImplements ==
  ASSUME Inv, Inv', Carried, NEW r \in Request, CreatePending(r)
  PROVE  Life!AskApproval(r)
<1>1. Types /\ Types' /\ Stages /\ Writers
  BY DEF Inv
<1>2. /\ Moved(r) /\ SameUse(r) /\ SameWant(r) /\ mode' = mode /\ cut' = cut
      /\ req[r].pc = "create" /\ req'[r].pc = "done"
  BY <1>1, CreatePendingMoves DEF FromTo, SameWant
<1>3. PICK a \in Approval :
        /\ approvals[a].status = "none"
        /\ approvals' = [approvals EXCEPT ![a] = [status |-> "pending", decision |-> req[r].decision,
                                                  kind |-> req[r].seen, expires |-> None]]
  BY <1>1, CreatePendingMoves
<1>4. ~ req[r].effect /\ ~ req'[r].effect /\ Needed(r) # None /\ req[r].seen = Needed(r)
  BY <1>1, <1>2 DEF Stages, SameUse, Carried, Carries
<1>5. PICK w : w = <<req[r].seen, req[r].decision>>
  OBVIOUS
<1>6. Wanted(r) = w /\ Wanted(r)' = w
  BY <1>2, <1>4, <1>5, WantLasts DEF Wanted
<1>7. ApprovalRows' = [ApprovalRows EXCEPT ![a] = [status |-> "pending", for |-> w]]
  <2>1. PICK x : x = [status |-> "pending", decision |-> req[r].decision, kind |-> req[r].seen, expires |-> None]
    OBVIOUS
  <2>2. x.status = "pending" /\ x.kind = req[r].seen /\ x.decision = req[r].decision
    BY <2>1
  <2> QED
    BY <1>1, <1>3, <1>5, <2>1, <2>2, ApprovalRowsMove
<1>8. ApprovalRows[a] = [status |-> "none", for |-> None]
  BY <1>3 DEF ApprovalRows, ApprovalRow
<1>9. \A b \in Approval \ cut : ApprovalRows[b] # [status |-> "pending", for |-> w]
  <2> SUFFICES ASSUME NEW b \in Approval \ cut, ApprovalRows[b] = [status |-> "pending", for |-> w] PROVE FALSE
    OBVIOUS
  <2>1. approvals[b].status = "pending" /\ <<approvals[b].kind, approvals[b].decision>> = w
    BY DEF ApprovalRows, ApprovalRow
  <2> QED
    BY <1>1, <1>2, <1>5, <2>1 DEF Writers
<1>10. /\ RequestRow(r) = [place |-> "outside", want |-> w, held |-> None]
       /\ RequestRow(r)' = [place |-> "gone", want |-> w, held |-> None]
  <2>1. RowOf(r) /\ RowOf(r)'
    BY RowIs
  <2>2. ~ LetIn(r)
    BY <1>2, <1>4 DEF LetIn, Within
  <2> QED
    BY <1>2, <1>4, <1>6, <2>1, <2>2 DEF RowOf
<1>11. RequestRows[r] = RequestRow(r) /\ RequestRows' = [RequestRows EXCEPT ![r] = RequestRow(r)']
  BY <1>2, RowsMove DEF RequestRows
<1>12. /\ RequestRows[r].place = "outside" /\ RequestRows[r].want = w
       /\ RequestRows' = [RequestRows EXCEPT ![r] = [place |-> "gone", want |-> w, held |-> None]]
  BY <1>10, <1>11
<1> QED
  BY <1>2, <1>7, <1>8, <1>9, <1>12 DEF Life!AskApproval, Life!Becomes, Life!PendingOn, Life!Unused

LEMMA RowSpent ==
  ASSUME Types, NEW a \in Approval, approvals[a].status # "none",
         approvals' = [approvals EXCEPT ![a].status = "executed"]
  PROVE  ApprovalRows' = [ApprovalRows EXCEPT ![a].status = "executed"]
<1>1. PICK x : x = [approvals[a] EXCEPT !.status = "executed"]
  OBVIOUS
<1>2. x.status = "executed" /\ x.kind = approvals[a].kind /\ x.decision = approvals[a].decision
  BY <1>1 DEF Types, Record
<1>3. approvals' = [approvals EXCEPT ![a] = x]
  BY <1>1 DEF Types
<1>4. ApprovalRows' = [ApprovalRows EXCEPT ![a] = [status |-> "executed",
                                                   for |-> <<approvals[a].kind, approvals[a].decision>>]]
  <2>1. x.status # "none"
    BY <1>2
  <2>2. ApprovalRows' = [ApprovalRows EXCEPT ![a] = [status |-> x.status, for |-> <<x.kind, x.decision>>]]
    BY <1>3, <2>1, ApprovalRowsMove
  <2> QED
    BY <1>2, <2>2
<1>5. PICK t : t = approvals[a].status
  OBVIOUS
<1>6. PICK f : f = <<approvals[a].kind, approvals[a].decision>>
  OBVIOUS
<1>7. ApprovalRow(a) = [status |-> t, for |-> f]
  BY <1>5, <1>6 DEF ApprovalRow
<1>8. ApprovalRows[a] = [status |-> t, for |-> f]
  BY <1>7 DEF ApprovalRows
<1>9. [ApprovalRows[a] EXCEPT !.status = "executed"] = [status |-> "executed", for |-> f]
  BY <1>8
<1> QED
  BY <1>4, <1>6, <1>9

LEMMA WriteExecutedImplements ==
  ASSUME Inv, Inv', Carried, NEW r \in Request, WriteExecuted(r)
  PROVE  Life!Spend(r)
<1>1. Types /\ Types' /\ Stages /\ Writers
  BY DEF Inv
<1>2. /\ Moved(r) /\ SameUse(r) /\ SameAsk(r) /\ mode' = mode /\ cut' = cut /\ req[r].pc = "persist"
      /\ approvals' = [approvals EXCEPT ![req[r].uses].status = "executed"]
  BY <1>1, WriteExecutedMoves DEF FromTo
<1>3. PICK a \in Approval : a = req[r].uses
  BY <1>1, <1>2 DEF Stages
<1>4. req[r].effect /\ req'[r].effect /\ a = req[r].approval /\ Needed(r) # None
  BY <1>2, <1>3, NoneApart DEF SameUse, Carried, Carries
<1>5. approvals[a].status = "approved" \/ (approvals[a].status = "executed" /\ a \in cut)
  BY <1>1, <1>2, <1>3 DEF Writers
<1>6. RequestRows' = RequestRows
  BY <1>1, <1>2, <1>4, Stays
<1>7. RequestRows[r].place = "acted" /\ RequestRows[r].held = a /\ a # None
  BY <1>3, <1>4, RowIs, NoneApart DEF RowOf, RequestRows, Held
<1>8. ApprovalRows[a].status = "approved" \/ a \in cut
  BY <1>5 DEF ApprovalRows, ApprovalRow
<1>9. ApprovalRows' = [ApprovalRows EXCEPT ![a].status = "executed"]
  BY <1>1, <1>2, <1>3, <1>5, RowSpent
<1> QED
  BY <1>2, <1>6, <1>7, <1>8, <1>9 DEF Life!Spend, Life!HasActed

(* What a thread writes for a request that was cancelled.                  *)
LEMMA MarkLandsImplements ==
  ASSUME Inv, Carried, NEW r \in Request, MarkLands(r)
  PROVE  Life!Spend(r)
<1>1. Types /\ Store /\ Writers
  BY DEF Inv
<1>2. /\ UNCHANGED <<mode, req, cut>> /\ r \in strays
      /\ approvals' = [approvals EXCEPT ![req[r].uses].status = "executed"]
  BY DEF MarkLands
<1>3. PICK a \in Approval : a = req[r].uses /\ a \in granted \cap cut
  BY <1>1, <1>2 DEF Writers, Types
<1>4. req[r].effect /\ a = req[r].approval /\ Needed(r) # None
  BY <1>2, <1>3 DEF Carried, HasUsed
<1>5. RequestRows[r].place = "acted" /\ RequestRows[r].held = a /\ a # None
  BY <1>3, <1>4, RowIs, NoneApart DEF RowOf, RequestRows, Held
<1>6. ApprovalRows' = [ApprovalRows EXCEPT ![a].status = "executed"]
  BY <1>1, <1>2, <1>3, RowSpent DEF Store
<1>7. RequestRows' = RequestRows
  BY <1>2 DEF RequestRows, RequestRow, Wanted, Needed, AskedKind, ApprovalKind, GovernedKind, LetIn, Within
<1> QED
  BY <1>2, <1>3, <1>5, <1>6, <1>7 DEF Life!Spend, Life!HasActed

LEMMA PendingLandsImplements ==
  ASSUME Inv, NEW a \in Approval, PendingLands(a)
  PROVE  Life!QuestionComes(a)
<1>1. Types
  BY DEF Inv
<1>2. /\ UNCHANGED <<mode, req, cut>> /\ approvals[a].status = "adrift"
      /\ approvals' = [approvals EXCEPT ![a].status = "pending"]
  BY DEF PendingLands
<1>3. PICK x : x = [approvals[a] EXCEPT !.status = "pending"]
  OBVIOUS
<1>4. x.status = "pending" /\ x.kind = approvals[a].kind /\ x.decision = approvals[a].decision
  BY <1>1, <1>3 DEF Types, Record
<1>5. approvals' = [approvals EXCEPT ![a] = x]
  BY <1>1, <1>2, <1>3 DEF Types
<1>6. ApprovalRows' = [ApprovalRows EXCEPT ![a] = [status |-> "pending",
                                                   for |-> <<approvals[a].kind, approvals[a].decision>>]]
  BY <1>1, <1>4, <1>5, ApprovalRowsMove
<1>7. ApprovalRows[a].status = "adrift" /\ ApprovalRows' = [ApprovalRows EXCEPT ![a].status = "pending"]
  BY <1>2, <1>6 DEF ApprovalRows, ApprovalRow
<1>8. RequestRows' = RequestRows
  BY <1>2 DEF RequestRows, RequestRow, Wanted, Needed, AskedKind, ApprovalKind, GovernedKind, LetIn, Within
<1> QED
  BY <1>2, <1>7, <1>8 DEF Life!QuestionComes

(* A cancelled request has acted and stays so, or acts, or goes; it may leave its question *)
(* or the spending of its approval to a thread.                                             *)
LEMMA LeavesQuestionImplements ==
  ASSUME Inv, Inv', Carried, NEW r \in Request, CancelRequest(r), NEW a \in Approval, LeavesQuestion(r, a)
  PROVE  Life!LeaveQuestion(r)
<1>1. Types /\ Types' /\ Stages /\ Writers
  BY DEF Inv
<1>2. /\ Moved(r) /\ SameWant(r) /\ mode' = mode /\ req[r].pc = "create" /\ req'[r].pc = "done"
      /\ req'[r].effect = req[r].effect
  BY <1>1, CancelMoves DEF LeavesQuestion, SameAsk, SameWant
<1>3. ~ req[r].effect /\ ~ req'[r].effect /\ Needed(r) # None /\ req[r].seen = Needed(r)
  BY <1>1, <1>2 DEF Stages, Carried, Carries
<1>4. PICK w : w = <<req[r].seen, req[r].decision>>
  OBVIOUS
<1>5. Wanted(r) = w /\ Wanted(r)' = w
  BY <1>2, <1>3, <1>4, WantLasts DEF Wanted
<1>6. ApprovalRows' = [ApprovalRows EXCEPT ![a] = [status |-> "adrift", for |-> w]]
  <2>1. PICK x : x = [status |-> "adrift", decision |-> req[r].decision, kind |-> req[r].seen, expires |-> None]
    OBVIOUS
  <2>2. x.status = "adrift" /\ x.kind = req[r].seen /\ x.decision = req[r].decision
    BY <2>1
  <2>3. approvals' = [approvals EXCEPT ![a] = x]
    BY <2>1 DEF LeavesQuestion
  <2> QED
    BY <1>1, <1>4, <2>2, <2>3, ApprovalRowsMove
<1>7. ApprovalRows[a] = [status |-> "none", for |-> None]
  BY DEF LeavesQuestion, ApprovalRows, ApprovalRow
<1>8. \A b \in Approval \ cut : ApprovalRows[b] # [status |-> "pending", for |-> w]
  <2> SUFFICES ASSUME NEW b \in Approval \ cut, ApprovalRows[b] = [status |-> "pending", for |-> w] PROVE FALSE
    OBVIOUS
  <2>1. approvals[b].status = "pending" /\ <<approvals[b].kind, approvals[b].decision>> = w
    BY DEF ApprovalRows, ApprovalRow
  <2> QED
    BY <1>1, <1>2, <1>4, <2>1 DEF Writers
<1>9. /\ RequestRow(r) = [place |-> "outside", want |-> w, held |-> None]
      /\ RequestRow(r)' = [place |-> "gone", want |-> w, held |-> None]
  <2>1. RowOf(r) /\ RowOf(r)'
    BY RowIs
  <2>2. ~ LetIn(r)
    BY <1>2, <1>3 DEF LetIn, Within
  <2> QED
    BY <1>2, <1>3, <1>5, <2>1, <2>2 DEF RowOf
<1>10. RequestRows[r] = RequestRow(r) /\ RequestRows' = [RequestRows EXCEPT ![r] = RequestRow(r)']
  BY <1>2, RowsMove DEF RequestRows
<1>11. /\ RequestRows[r].place = "outside" /\ RequestRows[r].want = w
       /\ RequestRows' = [RequestRows EXCEPT ![r] = [place |-> "gone", want |-> w, held |-> None]]
  BY <1>9, <1>10
<1>12. cut' = cut \cup {a}
  BY DEF LeavesQuestion
<1> QED
  BY <1>6, <1>7, <1>8, <1>11, <1>12 DEF Life!LeaveQuestion, Life!Becomes, Life!PendingOn, Life!Unused

LEMMA LeavesMarkImplements ==
  ASSUME Inv, Inv', Carried, NEW r \in Request, CancelRequest(r), LeavesMark(r)
  PROVE  Life!LeaveSpending(r)
<1>1. Types /\ Types' /\ Stages /\ Writers
  BY DEF Inv
<1>2. /\ Moved(r) /\ SameAsk(r) /\ mode' = mode /\ req[r].pc = "persist" /\ req'[r].effect = req[r].effect
      /\ approvals' = approvals /\ cut' = cut \cup {req[r].uses}
  BY <1>1, CancelMoves DEF LeavesMark
<1>3. PICK a \in Approval : a = req[r].uses
  BY <1>1, <1>2 DEF Stages
<1>4. req[r].effect /\ req'[r].effect /\ a = req[r].approval /\ Needed(r) # None
  BY <1>2, <1>3, NoneApart DEF Carried, Carries
<1>5. RequestRows' = RequestRows
  BY <1>1, <1>2, <1>4, Stays
<1>6. RequestRows[r].place = "acted" /\ RequestRows[r].held = a /\ a # None
  BY <1>3, <1>4, RowIs, NoneApart DEF RowOf, RequestRows, Held
<1>7. ApprovalRows' = ApprovalRows
  BY <1>2 DEF ApprovalRows, ApprovalRow
<1> QED
  BY <1>2, <1>3, <1>5, <1>6, <1>7 DEF Life!LeaveSpending, Life!HasActed

LEMMA CancelImplements ==
  ASSUME Inv, Inv', Carried, NEW r \in Request, CancelRequest(r)
  PROVE  \/ Life!Perform(r) \/ Life!Leave(r) \/ Life!LeaveQuestion(r) \/ Life!LeaveSpending(r)
         \/ approvals' = approvals /\ cut' = cut /\ RequestRows' = RequestRows
<1>1. Types /\ Types' /\ Stages /\ Writers
  BY DEF Inv
<1>2. /\ Moved(r) /\ SameAsk(r) /\ SameWant(r) /\ mode' = mode
      /\ req[r].pc \notin {"idle", "done"} /\ req'[r].pc = "done"
      /\ req'[r].effect = req[r].effect \/ req[r].pc = "run"
      /\ LeavesNothing \/ (\E a \in Approval : LeavesQuestion(r, a)) \/ LeavesMark(r)
  BY <1>1, CancelMoves DEF SameAsk, SameWant
<1>3. CASE LeavesNothing
  <2>1. UNCHANGED <<approvals, cut>>
    BY <1>3 DEF LeavesNothing
  <2>2. req[r].effect \in BOOLEAN /\ req'[r].effect \in BOOLEAN
    BY <1>1 DEF Types, Doing
  <2>3. CASE req[r].effect
    <3>1. req'[r].effect
      BY <1>1, <1>2, <2>3 DEF Stages
    <3> QED
      BY <1>1, <1>2, <2>1, <2>3, <3>1, Stays
  <2>4. CASE ~ req[r].effect /\ ~ req'[r].effect
    BY <1>1, <1>2, <2>1, <2>4, Leaves
  <2>5. CASE ~ req[r].effect /\ req'[r].effect
    <3>1. LetIn(r)
      BY <1>2, <2>5 DEF LetIn, Within
    <3> QED
      BY <1>1, <1>2, <2>1, <2>5, <3>1, Performs
  <2> QED
    BY <2>3, <2>4, <2>5
<1> QED
  BY <1>2, <1>3, LeavesQuestionImplements, LeavesMarkImplements

LEMMA WriteVerdictImplements ==
  ASSUME Inv, NEW o \in Operator, WriteVerdict(o)
  PROVE  RequestRows' = RequestRows /\ \E a \in Approval : Life!Decide(a)
<1>1. Types /\ Writers
  BY DEF Inv
<1>2. PICK a \in Approval, v \in {"approved", "rejected"} :
        /\ a = op[o].approval /\ v = op[o].verdict /\ approvals[a].status \notin {"none", "adrift"}
        /\ approvals[a].status = "executed" => a \in cut
  BY <1>1 DEF WriteVerdict, Writers
<1>3. PICK y : y = IF v = "approved" THEN clock + TTL ELSE None
  OBVIOUS
<1>4. approvals' = [approvals EXCEPT ![a] = [approvals[a] EXCEPT !.status = v, !.expires = y]]
  BY <1>1, <1>2, <1>3 DEF WriteVerdict, Types, Record
<1>5. PICK x : x = [approvals[a] EXCEPT !.status = v, !.expires = y]
  OBVIOUS
<1>6. x.status = v /\ x.kind = approvals[a].kind /\ x.decision = approvals[a].decision
  BY <1>1, <1>5 DEF Types, Record
<1>7. ApprovalRows' = [ApprovalRows EXCEPT ![a] = [status |-> v,
                                                   for |-> <<approvals[a].kind, approvals[a].decision>>]]
  BY <1>1, <1>4, <1>5, <1>6, ApprovalRowsMove
<1>8. ApprovalRows' = [ApprovalRows EXCEPT ![a].status = v]
  BY <1>2, <1>7 DEF ApprovalRows, ApprovalRow
<1>9. /\ \/ ApprovalRows[a].status \in {"pending", "approved", "rejected"}
         \/ ApprovalRows[a].status = "executed" /\ a \in cut
      /\ cut' = cut
  BY <1>1, <1>2 DEF ApprovalRows, ApprovalRow, Types, Record, WriteVerdict
<1>10. RequestRows' = RequestRows
  BY DEF WriteVerdict, RequestRows, RequestRow, Wanted, Needed, AskedKind, ApprovalKind, GovernedKind, LetIn, Within
<1> QED
  BY <1>8, <1>9, <1>10 DEF Life!Decide

LEMMA StepImplements ==
  ASSUME Inv, Inv', Carried, [ANext]_avars
  PROVE  [Life!Next]_(Life!vars)
<1>1. /\ Types /\ Stages /\ Store
  BY DEF Inv
<1>2. ASSUME UNCHANGED <<mode, approvals, cut, req>> PROVE UNCHANGED Life!vars
  BY <1>2 DEF Life!vars, ApprovalRows, ApprovalRow, RequestRows, RequestRow, Wanted, Needed, AskedKind,
              ApprovalKind, GovernedKind, LetIn, Within
<1>3. ASSUME approvals' = approvals, cut' = cut, RequestRows' = RequestRows PROVE UNCHANGED Life!vars
  BY <1>3 DEF Life!vars, ApprovalRows, ApprovalRow
<1>4. ASSUME NEW r \in Request, Submit(r) \/ ExecuteApproval(r) \/ Direct(r) PROVE Life!Next
  BY <1>4, ArrivalsImplement DEF Life!Next
<1>5. ASSUME NEW r \in Request, Govern(r) \/ Check(r) \/ Recheck(r) PROVE [Life!Next]_(Life!vars)
  <2>1. approvals' = approvals /\ cut' = cut
    BY <1>5 DEF Govern, Check, Recheck
  <2>2. Life!Admit(r) \/ Life!Leave(r) \/ RequestRows' = RequestRows
    BY <1>5, GovernImplements, CheckImplements, RecheckImplements
  <2> QED
    BY <1>3, <2>1, <2>2 DEF Life!Next
<1>6. ASSUME NEW r \in Request,
             StartAction(r) \/ Prepare(r) \/ Execute(r) \/ Unrecorded(r) \/ Block(r) \/ WriteReceipt(r) \/ Mark(r)
      PROVE  [Life!Next]_(Life!vars)
  <2>1. approvals' = approvals /\ cut' = cut
    BY <1>6 DEF StartAction, Prepare, Execute, Unrecorded, Block, WriteReceipt, Mark
  <2>2. Life!Perform(r) \/ Life!Leave(r) \/ RequestRows' = RequestRows
    BY <1>6, PipelineImplements
  <2> QED
    BY <1>3, <2>1, <2>2 DEF Life!Next
<1>7. ASSUME NEW r \in Request, FindPending(r) PROVE [Life!Next]_(Life!vars)
  <2>1. approvals' = approvals /\ cut' = cut
    BY <1>7 DEF FindPending
  <2> QED
    BY <1>3, <1>7, <2>1, FindPendingImplements DEF Life!Next
<1>8. ASSUME NEW r \in Request, CreatePending(r) \/ WriteExecuted(r) PROVE Life!Next
  BY <1>8, CreatePendingImplements, WriteExecutedImplements DEF Life!Next
<1>9. ASSUME NEW o \in Operator, WriteVerdict(o) PROVE Life!Next
  BY <1>9, WriteVerdictImplements DEF Life!Next
<1>10. ASSUME NEW o \in Operator, ReadForVerdict(o) PROVE UNCHANGED Life!vars
  BY <1>2, <1>10 DEF ReadForVerdict
<1>11. CASE ApprovalTick \/ UNCHANGED avars
  BY <1>2, <1>11 DEF ApprovalTick, avars
<1>12. ASSUME NEW r \in Request, CancelRequest(r) PROVE [Life!Next]_(Life!vars)
  BY <1>3, <1>12, CancelImplements DEF Life!Next
<1>13. ASSUME NEW r \in Request, MarkLands(r) PROVE Life!Next
  BY <1>13, MarkLandsImplements DEF Life!Next
<1>14. ASSUME NEW a \in Approval, PendingLands(a) PROVE Life!Next
  BY <1>14, PendingLandsImplements DEF Life!Next
<1> QED
  BY <1>4, <1>5, <1>6, <1>7, <1>8, <1>9, <1>10, <1>11, <1>12, <1>13, <1>14 DEF ANext, Advance

LEMMA InitImplements ==
  ASSUME AInit
  PROVE  Life!Init /\ Carried
<1>1. \A r \in Request : req[r].pc = "idle" /\ req[r].effect = FALSE /\ req[r].uses = None
  BY DEF AInit
<1>2. Carried /\ cut = {}
  BY <1>1 DEF AInit, Carried, Carries
<1>3. RequestRows = [r \in Request |-> [place |-> "away", want |-> None, held |-> None]]
  <2>1. \A r \in Request : RequestRow(r) = [place |-> "away", want |-> None, held |-> None]
    BY <1>1, RowIs DEF RowOf
  <2> QED
    BY <2>1 DEF RequestRows
<1>4. ASSUME NEW a \in Approval
      PROVE  \/ ApprovalRow(a) = [status |-> "none", for |-> None]
             \/ \E s \in Subjects : ApprovalRow(a) = [status |-> "pending", for |-> s]
  <2>1. CASE approvals[a].status = "none"
    BY <2>1 DEF ApprovalRow
  <2>2. CASE approvals[a].status # "none"
    <3>1. PICK k \in Kinds, d \in Decisions : k = approvals[a].kind /\ d = approvals[a].decision /\ k # None
      BY <2>2, InitialRecords DEF AInit, Record
    <3>2. <<k, d>> \in Subjects
      BY <3>1 DEF Subjects, Kinds, Decisions
    <3>3. approvals[a].status = "pending"
      BY <2>2, InitialRecords DEF AInit
    <3>4. ApprovalRow(a) = [status |-> "pending", for |-> <<k, d>>]
      BY <3>1, <3>3 DEF ApprovalRow
    <3> QED
      BY <3>2, <3>4
  <2> QED
    BY <2>1, <2>2
<1>5. ApprovalRows \in [Approval -> {[status |-> "none", for |-> None]} \cup [status : {"pending"}, for : Subjects]]
  BY <1>4 DEF ApprovalRows
<1>6. ASSUME NEW s, NEW a \in Approval, NEW b \in Approval,
             ApprovalRows[a] = [status |-> "pending", for |-> s], ApprovalRows[b] = [status |-> "pending", for |-> s]
      PROVE  a = b
  <2>1. approvals[a].status = "pending" /\ approvals[b].status = "pending"
    BY <1>6 DEF ApprovalRows, ApprovalRow
  <2> QED
    BY <2>1, InitialRecords DEF AInit
<1>7. \A s \in Subjects : \A a, b \in Life!PendingOn(s) : a = b
  BY <1>6 DEF Life!PendingOn
<1> QED
  BY <1>2, <1>3, <1>5, <1>7 DEF Life!Init, Life!Unused

\* The requests, the operators and the store implement ApprovalLife: although a record is read
\* and written in two steps, checked long before the action, marked after it, and written by a
\* thread when the request is cancelled, no request acts that was not let in with a grant for
\* just what it wants, and a spent approval lets nobody in (execute_decision, upload,
\* create_or_reuse_pending, mark_executed).
THEOREM ApprovalsRefine == ASpec => ApprovalsImplement
<1>1. AInit => Life!Init /\ Inv /\ Carried
  BY InitImplements, InitInv
<1>2. Inv /\ Carried /\ [ANext]_avars => Inv' /\ Carried'
  BY StepKeeps, CarriedKept
<1>3. Inv /\ Inv' /\ Carried /\ [ANext]_avars => [Life!Next]_(Life!vars)
  BY StepImplements
<1> QED
  BY <1>1, <1>2, <1>3, PTL DEF ASpec, ApprovalsImplement, Life!Spec

-----------------------------------------------------------------------------
(***************************************************************************)
(* The receipts and the audit events, for any number of coroutines, events, *)
(* restarts and cancelled appends.                                         *)
(*                                                                         *)
(* What the properties lack to be inductive: who appends holds the lock of *)
(* the log (LogLocked, AuditLocked); a line that waits to be reported is in *)
(* a thread or in the file (Landing); while nothing was cancelled the only *)
(* line on its way is chained to the last of the file, which the cached head *)
(* is when nobody writes (Chained), the event on its way is newer than all *)
(* others, and a file or table in order holds every reported event or      *)
(* MaxEvents newer ones (InOrder).  The bound of the file needs two numbers *)
(* that the program does not keep (Room): x of the cancelled appends were  *)
(* lines that were not counted, y of them writes that were not trimmed after; *)
(* a restart forgets the count and turns the second kind into the first.   *)
(***************************************************************************)

Lines == [id : Nat \ {0}, prev : (Nat \ {0}) \cup {None}]
Busy == {"file", "trim", "replace", "row"}
Works == [pc : {"idle", "reading", "writing"} \cup Busy, line : Lines \cup Nat \cup {None}, lines : Seq(Nat)]

AtWork ==
  /\ writer \in [Writer -> Works]
  /\ \A w \in Writer : /\ writer[w].pc = "writing" => writer[w].line \in Lines
                       /\ writer[w].pc \in Busy => writer[w].line \in Nat

WTypes ==
  /\ AtWork
  /\ log \in Seq(Lines) /\ head \in (Nat \ {0}) \cup {None} /\ thread \in SUBSET Lines
  /\ events \in Seq(Nat) /\ table \in Seq(Nat) /\ sinceTrim \in Nat
  /\ orphan \in SUBSET Works /\ IsFiniteSet(orphan)
  /\ \A o \in orphan : o.pc \in Busy /\ o.line \in Nat
  /\ heard \subseteq [id : Nat, primary : {"file", "sqlite"}] /\ primary \in {"file", "sqlite"}
  /\ made \in [receipt : Nat, event : Nat] /\ crashes \in Nat /\ cancels \in Nat

\* Who appends holds the lock of its log.
LogLocked == \A w \in Writer : writer[w].pc \in {"reading", "writing"} => logLock = w
AuditLocked == \A w \in Writer : writer[w].pc \in Busy => auditLock = w

\* A line that waits to be reported is in a thread or in the file; what was reported is in the file.
Landing ==
  /\ \A w \in Writer : writer[w].pc = "writing" =>
       writer[w].line \in thread \/ \E i \in 1..Len(log) : log[i] = writer[w].line
  /\ kept \subseteq {log[i].id : i \in 1..Len(log)}

\* The only line on its way is chained to the last of the file, and the cached head is that last
\* one, when nobody writes.
Chained ==
  cancels = 0 =>
    /\ Verified(log)
    /\ \A l \in thread : \E w \in Writer : writer[w].pc = "writing" /\ writer[w].line = l
    /\ \A w \in Writer : writer[w].pc = "writing" =>
         /\ writer[w].line \in thread => writer[w].line.prev = LastHash
         /\ writer[w].line \notin thread => LastHash = writer[w].line.id
    /\ head # None /\ (\A w \in Writer : writer[w].pc # "writing") => LastHash = head

\* An event is in a file or table that is in order, or max_events newer ones are.
Ordered(s) == \A i, j \in 1..Len(s) : i < j => s[i] < s[j]
Below(s, n) == \A i \in 1..Len(s) : s[i] < n
Holds(s, e) == \/ \E i \in 1..Len(s) : s[i] = e
               \/ Len(s) >= MaxEvents /\ \A i \in 1..Len(s) : s[i] > e

\* The file and the table are in order and hold what was reported; the event on its way is the
\* newest.
InOrder ==
  cancels = 0 =>
    /\ Ordered(events) /\ Ordered(table) /\ orphan = {}
    /\ Below(events, made.event + 1) /\ Below(table, made.event + 1) /\ \A e \in heard : e.id <= made.event
    /\ \A w \in Writer : writer[w].pc \in Busy =>
         /\ writer[w].line = made.event /\ Below(table, made.event) /\ \A e \in heard : e.id < made.event
         /\ IF writer[w].pc = "file" THEN Below(events, made.event)
            ELSE events # <<>> /\ events[Len(events)] = made.event
         /\ writer[w].pc = "replace" => writer[w].lines = events
    /\ \A e \in heard : Holds(events, e.id) /\ (e.primary = "sqlite" => Holds(table, e.id))

\* Appends that were cancelled before they were counted, x, and before they trimmed, y.
Pending == Cardinality({o \in orphan : o.pc = "file"})
Trimming == \E w \in Writer : writer[w].pc \in {"trim", "replace"}
Room(x, y) ==
  /\ x + y <= cancels /\ Pending <= x
  /\ Len(events) + Pending <= MaxEvents + crashes * TrimInterval + sinceTrim + x
  /\ sinceTrim <= TrimInterval + y /\ (~ Trimming => sinceTrim < TrimInterval + y)

WInv == WTypes /\ LogLocked /\ AuditLocked /\ Landing /\ Chained /\ InOrder /\ \E x, y \in Nat : Room(x, y)

\* What a trim leaves: the last of the lines, MaxEvents of them when there were more.
LEMMA NewestOf ==
  ASSUME NEW s \in Seq(Nat)
  PROVE  /\ Newest(s) \in Seq(Nat)
         /\ Len(Newest(s)) <= MaxEvents
         /\ \E k \in Nat : /\ k + Len(Newest(s)) = Len(s) /\ (k > 0 => Len(Newest(s)) = MaxEvents)
                           /\ \A i \in 1..Len(Newest(s)) : Newest(s)[i] = s[k + i]
<1>1. MaxEvents \in Nat \ {0} /\ Len(s) \in Nat
  BY LogsAssumption
<1>2. CASE Len(s) <= MaxEvents
  BY <1>1, <1>2 DEF Newest
<1>3. CASE Len(s) > MaxEvents
  <2> DEFINE k == Len(s) - MaxEvents
             n == SubSeq(s, k + 1, Len(s))
  <2>1. k \in Nat /\ k > 0 /\ k + MaxEvents = Len(s)
    BY <1>1, <1>3
  <2>2. \A i \in (k + 1)..Len(s) : s[i] \in Nat
    BY <2>1
  <2>3. /\ n \in Seq(Nat)
        /\ Len(n) = IF k + 1 <= Len(s) THEN Len(s) - (k + 1) + 1 ELSE 0
        /\ \A i \in 1..(Len(s) - (k + 1) + 1) : n[i] = s[k + 1 + i - 1]
    BY <2>1, <2>2, <1>1, SubSeqProperties
  <2>4. Newest(s) = n
    BY <1>1, <1>3 DEF Newest
  <2> HIDE DEF k, n
  <2>5. Len(n) = MaxEvents
    BY <2>1, <2>3, <1>1
  <2>6. \A i \in 1..Len(n) : n[i] = s[k + i]
    BY <2>1, <2>3, <2>5, <1>1
  <2>7. /\ k + Len(n) = Len(s) /\ (k > 0 => Len(n) = MaxEvents)
        /\ \A i \in 1..Len(n) : n[i] = s[k + i]
    BY <2>1, <2>5, <2>6
  <2>8. n \in Seq(Nat) /\ Len(n) <= MaxEvents
    BY <2>3, <2>5, <1>1
  <2> QED
    BY <2>1, <2>4, <2>7, <2>8, Zenon
<1> QED
  BY <1>1, <1>2, <1>3

\* An event newer than all others goes to the end of a file that is in order.
LEMMA OrderedAppend ==
  ASSUME NEW s \in Seq(Nat), NEW e \in Nat, Ordered(s), Below(s, e)
  PROVE  /\ Append(s, e) \in Seq(Nat) /\ Append(s, e) # <<>> /\ Append(s, e)[Len(Append(s, e))] = e
         /\ Ordered(Append(s, e)) /\ Below(Append(s, e), e + 1) /\ Holds(Append(s, e), e)
         /\ \A h \in Nat : h < e /\ Holds(s, h) => Holds(Append(s, e), h)
<1> DEFINE t == Append(s, e)
<1>1. /\ t \in Seq(Nat) /\ t # <<>> /\ Len(t) = Len(s) + 1 /\ Len(s) \in Nat /\ t[Len(s) + 1] = e
      /\ \A i \in 1..Len(s) : t[i] = s[i] /\ s[i] \in Nat
  OBVIOUS
<1> HIDE DEF t
<1>2. \A i \in 1..Len(t) : IF i = Len(s) + 1 THEN t[i] = e ELSE i \in 1..Len(s) /\ t[i] = s[i]
  BY <1>1
<1>3. Ordered(t)
  <2> SUFFICES ASSUME NEW i \in 1..Len(t), NEW j \in 1..Len(t), i < j PROVE t[i] < t[j]
    BY DEF Ordered
  <2>1. i \in 1..Len(s) /\ t[i] = s[i]
    <3>1. i # Len(s) + 1
      BY <1>1
    <3> QED
      BY <3>1, <1>2
  <2>2. CASE j = Len(s) + 1
    <3>1. s[i] < e /\ t[j] = e
      BY <2>1, <2>2, <1>1 DEF Below
    <3> QED
      BY <2>1, <3>1
  <2>3. CASE j \in 1..Len(s)
    <3>1. s[i] < s[j] /\ t[j] = s[j]
      BY <2>1, <2>3, <1>1 DEF Ordered
    <3> QED
      BY <2>1, <3>1
  <2> QED
    BY <2>2, <2>3, <1>2
<1>4. Below(t, e + 1)
  <2> SUFFICES ASSUME NEW i \in 1..Len(t) PROVE t[i] < e + 1
    BY DEF Below
  <2>1. CASE i = Len(s) + 1
    BY <2>1, <1>1
  <2>2. CASE i \in 1..Len(s)
    <3>1. t[i] = s[i] /\ s[i] \in Nat /\ s[i] < e
      BY <2>2, <1>1 DEF Below
    <3> QED
      BY <3>1
  <2> QED
    BY <2>1, <2>2, <1>2
<1>5. Holds(t, e)
  BY <1>1 DEF Holds
<1>6. ASSUME NEW h \in Nat, h < e, Holds(s, h) PROVE Holds(t, h)
  <2>1. CASE \E i \in 1..Len(s) : s[i] = h
    BY <2>1, <1>1 DEF Holds
  <2>2. CASE Len(s) >= MaxEvents /\ \A i \in 1..Len(s) : s[i] > h
    <3>1. \A i \in 1..Len(t) : t[i] > h
      BY <2>2, <1>1, <1>2, <1>6
    <3> QED
      BY <3>1, <2>2, <1>1, LogsAssumption DEF Holds
  <2> QED
    BY <1>6, <2>1, <2>2 DEF Holds
<1> QED
  BY <1>1, <1>3, <1>4, <1>5, <1>6 DEF t

\* A trim keeps the order, the newest event, and every event that should still be listed.
LEMMA OrderedNewest ==
  ASSUME NEW s \in Seq(Nat), Ordered(s)
  PROVE  /\ Newest(s) \in Seq(Nat) /\ Len(Newest(s)) <= MaxEvents /\ Ordered(Newest(s))
         /\ \A n \in Nat : Below(s, n) => Below(Newest(s), n)
         /\ s # <<>> => Newest(s) # <<>> /\ Newest(s)[Len(Newest(s))] = s[Len(s)]
         /\ \A h \in Nat : Holds(s, h) => Holds(Newest(s), h)
<1> DEFINE t == Newest(s)
<1>1. t \in Seq(Nat) /\ Len(t) <= MaxEvents
  BY NewestOf
<1>2. PICK k \in Nat : /\ k + Len(t) = Len(s) /\ (k > 0 => Len(t) = MaxEvents)
                       /\ \A i \in 1..Len(t) : t[i] = s[k + i]
  BY NewestOf
<1> HIDE DEF t
<1>3. Len(t) \in Nat /\ Len(s) \in Nat /\ MaxEvents \in Nat \ {0}
  BY <1>1, LogsAssumption
<1>4. \A i \in 1..Len(t) : k + i \in 1..Len(s)
  BY <1>2, <1>3
<1>5. Ordered(t)
  BY <1>2, <1>3, <1>4 DEF Ordered
<1>6. \A n \in Nat : Below(s, n) => Below(t, n)
  BY <1>2, <1>4 DEF Below
<1>7. ASSUME s # <<>> PROVE t # <<>> /\ t[Len(t)] = s[Len(s)]
  <2>1. Len(s) > 0
    BY <1>7
  <2>2. Len(t) > 0
    BY <2>1, <1>2, <1>3
  <2>3. t[Len(t)] = s[k + Len(t)]
    BY <2>2, <1>2, <1>3
  <2>4. t # <<>>
    BY <2>2, <1>1
  <2> QED
    BY <2>3, <2>4, <1>2
<1>8. ASSUME NEW h \in Nat, Holds(s, h) PROVE Holds(t, h)
  <2>1. CASE \E i \in 1..Len(s) : s[i] = h
    <3>1. PICK i \in 1..Len(s) : s[i] = h
      BY <2>1
    <3>2. CASE i > k
      <4>1. i - k \in 1..Len(t) /\ k + (i - k) = i
        BY <3>2, <1>2, <1>3
      <4>2. t[i - k] = h
        BY <4>1, <3>1, <1>2
      <4> QED
        BY <4>1, <4>2 DEF Holds
    <3>3. CASE i <= k
      <4>1. Len(t) = MaxEvents
        BY <3>3, <1>2, <1>3
      <4>2. \A j \in 1..Len(t) : t[j] > h
        BY <3>1, <3>3, <1>2, <1>3, <1>4 DEF Ordered
      <4> QED
        BY <4>1, <4>2, <1>3 DEF Holds
    <3> QED
      BY <3>2, <3>3
  <2>2. CASE Len(s) >= MaxEvents /\ \A i \in 1..Len(s) : s[i] > h
    <3>1. Len(t) >= MaxEvents
      BY <2>2, <1>2, <1>3
    <3>2. \A i \in 1..Len(t) : t[i] > h
      BY <2>2, <1>2, <1>4
    <3> QED
      BY <3>1, <3>2 DEF Holds
  <2> QED
    BY <1>8, <2>1, <2>2 DEF Holds
<1> QED
  BY <1>1, <1>5, <1>6, <1>7, <1>8 DEF t

\* What the newest limit events of a file are, the newest first.
LEMMA NewestFirst ==
  ASSUME NEW s \in Seq(Nat)
  PROVE  LET t == FirstOf(MaxEvents, Reverse(s)) IN
         /\ t \in Seq(Nat) /\ Len(t) = IF Len(s) < MaxEvents THEN Len(s) ELSE MaxEvents
         /\ \A i \in 1..Len(t) : t[i] = s[(Len(s) - i) + 1]
<1> DEFINE r == Reverse(s)
           n == IF Len(s) < MaxEvents THEN Len(s) ELSE MaxEvents
           t == SubSeq(r, 1, n)
<1>1. MaxEvents \in Nat \ {0} /\ Len(s) \in Nat
  BY LogsAssumption
<1>2. r = [i \in 1..Len(s) |-> s[(Len(s) - i) + 1]]
  BY DEF Reverse
<1>3. \A i \in 1..Len(s) : (Len(s) - i) + 1 \in 1..Len(s) /\ r[i] = s[(Len(s) - i) + 1] /\ r[i] \in Nat
  BY <1>1, <1>2
<1>4. r \in Seq(Nat) /\ Len(r) = Len(s)
  <2>1. r \in [1..Len(s) -> Nat]
    BY <1>2, <1>3
  <2> HIDE DEF r
  <2> QED
    BY <2>1, <1>1
<1>5. FirstOf(MaxEvents, Reverse(s)) = t
  BY <1>4 DEF FirstOf
<1> HIDE DEF r
<1>6. n \in Nat /\ n <= Len(s)
  BY <1>1
<1> HIDE DEF n
<1>7. \A i \in 1..n : r[i] \in Nat /\ i \in 1..Len(s)
  BY <1>3, <1>6, <1>1
<1>8. /\ t \in Seq(Nat) /\ Len(t) = (IF 1 <= n THEN n - 1 + 1 ELSE 0)
      /\ \A i \in 1..(n - 1 + 1) : t[i] = r[1 + i - 1]
  BY <1>6, <1>7, SubSeqProperties
<1> HIDE DEF t
<1>9. Len(t) = n
  BY <1>6, <1>8
<1>10. \A i \in 1..Len(t) : t[i] = s[(Len(s) - i) + 1]
  <2> SUFFICES ASSUME NEW i \in 1..Len(t) PROVE t[i] = s[(Len(s) - i) + 1]
    OBVIOUS
  <2>1. i \in 1..n /\ i \in 1..(n - 1 + 1) /\ 1 + i - 1 = i
    BY <1>6, <1>9
  <2>2. t[i] = r[i]
    BY <2>1, <1>8
  <2> QED
    BY <2>1, <2>2, <1>3, <1>7
<1> QED
  BY <1>5, <1>8, <1>9, <1>10 DEF n

\* What a file in order holds is in the answer of list, or MaxEvents newer events are.
LEMMA HeldIsListed ==
  ASSUME NEW s \in Seq(Nat), Ordered(s)
  PROVE  LET t == FirstOf(MaxEvents, Reverse(s)) IN
         /\ \A i, j \in DOMAIN t : i < j => t[i] > t[j]
         /\ \A h \in Nat : Holds(s, h) =>
              \/ \E i \in DOMAIN t : t[i] = h
              \/ Len(t) = MaxEvents /\ \A i \in 1..MaxEvents : t[i] > h
<1> DEFINE t == FirstOf(MaxEvents, Reverse(s))
<1>1. /\ t \in Seq(Nat) /\ Len(t) = IF Len(s) < MaxEvents THEN Len(s) ELSE MaxEvents
      /\ \A i \in 1..Len(t) : t[i] = s[(Len(s) - i) + 1]
  BY NewestFirst
<1> HIDE DEF t
<1>2. MaxEvents \in Nat \ {0} /\ Len(s) \in Nat /\ Len(t) \in Nat /\ DOMAIN t = 1..Len(t)
  BY <1>1, LogsAssumption
<1>3. \A i \in 1..Len(t) : (Len(s) - i) + 1 \in 1..Len(s)
  BY <1>1, <1>2
<1>4. \A i, j \in DOMAIN t : i < j => t[i] > t[j]
  <2> SUFFICES ASSUME NEW i \in 1..Len(t), NEW j \in 1..Len(t), i < j PROVE t[i] > t[j]
    BY <1>2
  <2>1. (Len(s) - j) + 1 < (Len(s) - i) + 1
    BY <1>2
  <2>2. s[(Len(s) - j) + 1] < s[(Len(s) - i) + 1]
    BY <2>1, <1>3 DEF Ordered
  <2>3. s[(Len(s) - j) + 1] \in Nat /\ s[(Len(s) - i) + 1] \in Nat
    BY <1>3
  <2> QED
    BY <2>2, <2>3, <1>1
<1>5. ASSUME NEW h \in Nat, Holds(s, h)
      PROVE  \/ \E i \in DOMAIN t : t[i] = h
             \/ Len(t) = MaxEvents /\ \A i \in 1..MaxEvents : t[i] > h
  <2>1. CASE \E i \in 1..Len(s) : s[i] = h
    <3>1. PICK i \in 1..Len(s) : s[i] = h
      BY <2>1
    <3>2. CASE (Len(s) - i) + 1 <= Len(t)
      <4> DEFINE j == (Len(s) - i) + 1
      <4>1. j \in 1..Len(t) /\ (Len(s) - j) + 1 = i
        BY <3>2, <1>2
      <4>2. t[j] = h
        BY <4>1, <3>1, <1>1
      <4> QED
        BY <4>1, <4>2, <1>2
    <3>3. CASE (Len(s) - i) + 1 > Len(t)
      <4>1. Len(t) = MaxEvents
        BY <3>3, <1>1, <1>2
      <4>2. ASSUME NEW j \in 1..MaxEvents PROVE t[j] > h
        <5>1. j \in 1..Len(t) /\ i < (Len(s) - j) + 1
          BY <4>1, <3>3, <1>2
        <5>2. s[i] < s[(Len(s) - j) + 1] /\ s[(Len(s) - j) + 1] \in Nat
          BY <5>1, <1>3 DEF Ordered
        <5> QED
          BY <5>1, <5>2, <3>1, <1>1
      <4> QED
        BY <4>1, <4>2
    <3>4. (Len(s) - i) + 1 <= Len(t) \/ (Len(s) - i) + 1 > Len(t)
      BY <1>2
    <3> QED
      BY <3>2, <3>3, <3>4
  <2>2. CASE Len(s) >= MaxEvents /\ \A i \in 1..Len(s) : s[i] > h
    <3>1. Len(t) = MaxEvents
      BY <2>2, <1>1, <1>2
    <3>2. \A i \in 1..MaxEvents : t[i] > h
      BY <3>1, <2>2, <1>1, <1>3
    <3> QED
      BY <3>1, <3>2
  <2> QED
    BY <1>5, <2>1, <2>2 DEF Holds
<1> QED
  BY <1>4, <1>5 DEF t

\* The coroutine that takes a step; the others stay where they are.
Goes(w, pc, line) ==
  /\ AtWork' /\ writer'[w].pc = pc /\ writer'[w].line = line
  /\ \A v \in Writer : v # w => writer'[v] = writer[v]

LEMMA WriterGoes ==
  ASSUME AtWork, NEW w \in Writer, NEW row \in Works, writer' = [writer EXCEPT ![w] = row],
         row.pc = "writing" => row.line \in Lines, row.pc \in Busy => row.line \in Nat
  PROVE  Goes(w, row.pc, row.line) /\ writer'[w].lines = row.lines
BY DEF AtWork, Goes

LEMMA RestingWorks == Resting \in Works /\ Resting.pc = "idle"
<1>1. <<>> \in Seq(Nat)
  OBVIOUS
<1> QED
  BY <1>1 DEF Resting, Works, Busy

LEMMA WriterRests ==
  ASSUME AtWork, NEW w \in Writer, writer' = [writer EXCEPT ![w] = Resting]
  PROVE  Goes(w, "idle", None)
<1>1. Resting \in Works /\ Resting.pc = "idle" /\ Resting.line = None
  BY RestingWorks DEF Resting
<1>2. Resting.pc # "writing" /\ Resting.pc \notin Busy
  BY <1>1 DEF Busy
<1> HIDE DEF Resting
<1> QED
  BY <1>1, <1>2, WriterGoes

\* Where a coroutine goes with the line it has.
LEMMA WriterGoesOn ==
  ASSUME AtWork, NEW w \in Writer, NEW pc \in {"reading"} \cup Busy, pc \in Busy => writer[w].pc \in Busy,
         writer' = [writer EXCEPT ![w].pc = pc]
  PROVE  Goes(w, pc, writer[w].line) /\ writer'[w].lines = writer[w].lines
<1> DEFINE row == [writer[w] EXCEPT !.pc = pc]
<1>1. writer[w] \in Works
  BY DEF AtWork
<1>2. row \in Works /\ row.pc = pc /\ row.line = writer[w].line /\ row.lines = writer[w].lines
  BY <1>1 DEF Works
<1>3. writer' = [writer EXCEPT ![w] = row]
  BY DEF AtWork
<1>4. (pc \in Busy => writer[w].line \in Nat) /\ pc # "writing"
  BY DEF AtWork, Busy
<1> HIDE DEF row
<1>5. row.pc = "writing" => row.line \in Lines
  BY <1>2, <1>4
<1>6. row.pc \in Busy => row.line \in Nat
  BY <1>2, <1>4
<1>7. Goes(w, row.pc, row.line) /\ writer'[w].lines = row.lines
  BY <1>2, <1>3, <1>5, <1>6, WriterGoes
<1> QED
  BY <1>2, <1>7

\* The item is chained to what it is given.
LEMMA ChainMoves ==
  ASSUME WTypes, NEW w \in Writer, NEW previous \in (Nat \ {0}) \cup {None}, Chain(w, previous)
  PROVE  \E l \in Lines : /\ l.prev = previous /\ thread' = thread \cup {l} /\ Goes(w, "writing", l)
                          /\ made' \in [receipt : Nat, event : Nat] /\ made'.event = made.event
<1> DEFINE l == [id |-> made.receipt + 1, prev |-> previous]
           row == [Resting EXCEPT !.pc = "writing", !.line = l]
<1>1. made.receipt \in Nat
  BY DEF WTypes
<1>2. l \in Lines /\ l.prev = previous
  BY <1>1 DEF Lines
<1>3. thread' = thread \cup {l} /\ writer' = [writer EXCEPT ![w] = row] /\ made' = [made EXCEPT !.receipt = @ + 1]
  BY DEF Chain
<1>4. made' \in [receipt : Nat, event : Nat] /\ made'.event = made.event
  BY <1>3 DEF WTypes
<1> HIDE DEF l
<1>5. row \in Works /\ row.pc = "writing" /\ row.line = l
  BY <1>2, RestingWorks DEF Works
<1>6. row.pc \notin Busy
  BY <1>5 DEF Busy
<1> HIDE DEF row
<1>7. Goes(w, "writing", l)
  BY <1>2, <1>3, <1>5, <1>6, WriterGoes DEF WTypes
<1> QED
  BY <1>2, <1>3, <1>4, <1>7

\* The last hash is that of a line, or nothing.
LEMMA LastHashType == ASSUME WTypes PROVE LastHash \in (Nat \ {0}) \cup {None} /\ (LastHash = None <=> log = <<>>)
<1>1. CASE log = <<>>
  BY <1>1 DEF LastHash
<1>2. CASE log # <<>>
  <2>1. log \in Seq(Lines) /\ Len(log) \in Nat /\ Len(log) > 0
    BY <1>2 DEF WTypes
  <2>2. log[Len(log)] \in Lines
    BY <2>1
  <2>3. log[Len(log)].id \in Nat \ {0} /\ LastHash = log[Len(log)].id
    BY <1>2, <2>2 DEF LastHash, Lines
  <2> QED
    BY <1>2, <2>3, LogsAssumption
<1> QED
  BY <1>1, <1>2

\* A line is made, chained to what it is given, and handed to a thread.
Takes(w, previous) ==
  \E l \in Lines : l.prev = previous /\ thread' = thread \cup {l} /\ Goes(w, "writing", l)

Numbered == made' \in [receipt : Nat, event : Nat] /\ made'.event = made.event

LEMMA BeginReceiptMoves ==
  ASSUME WTypes, NEW w \in Writer, BeginReceipt(w)
  PROVE  /\ writer[w].pc = "idle" /\ logLock = None /\ logLock' = w /\ Numbered
         /\ UNCHANGED <<log, head, kept, auditVars, crashes, cancels>>
         /\ \/ head # None /\ Takes(w, head)
            \/ head = None /\ thread' = thread /\ Goes(w, "reading", writer[w].line)
<1>1. /\ writer[w].pc = "idle" /\ logLock = None /\ logLock' = w
      /\ UNCHANGED <<log, head, kept, auditVars, crashes, cancels>>
  BY DEF BeginReceipt
<1>2. CASE head # None
  <2>1. Chain(w, head) /\ head \in (Nat \ {0}) \cup {None}
    BY <1>2 DEF BeginReceipt, WTypes
  <2>2. Takes(w, head) /\ Numbered
    BY <2>1, ChainMoves DEF Takes, Numbered
  <2> QED
    BY <1>1, <1>2, <2>2
<1>3. CASE head = None
  <2>1. writer' = [writer EXCEPT ![w].pc = "reading"] /\ UNCHANGED <<thread, made>>
    BY <1>3 DEF BeginReceipt
  <2>2. Goes(w, "reading", writer[w].line)
    BY <2>1, WriterGoesOn DEF WTypes, Busy
  <2>3. Numbered
    BY <2>1 DEF Numbered, WTypes
  <2> QED
    BY <1>1, <1>3, <2>1, <2>2, <2>3
<1> QED
  BY <1>2, <1>3

LEMMA ReadHeadMoves ==
  ASSUME WTypes, NEW w \in Writer, ReadHead(w)
  PROVE  /\ writer[w].pc = "reading" /\ Takes(w, LastHash) /\ Numbered
         /\ UNCHANGED <<log, head, logLock, kept, auditVars, crashes, cancels>>
<1>1. /\ writer[w].pc = "reading" /\ Chain(w, LastHash)
      /\ UNCHANGED <<log, head, logLock, kept, auditVars, crashes, cancels>>
  BY DEF ReadHead
<1>2. LastHash \in (Nat \ {0}) \cup {None}
  BY LastHashType
<1>3. Takes(w, LastHash) /\ Numbered
  BY <1>1, <1>2, ChainMoves DEF Takes, Numbered
<1> QED
  BY <1>1, <1>3

LEMMA EndReceiptMoves ==
  ASSUME WTypes, NEW w \in Writer, EndReceipt(w)
  PROVE  /\ writer[w].pc = "writing" /\ writer[w].line \in Lines /\ writer[w].line \notin thread
         /\ head' = writer[w].line.id /\ head' \in Nat \ {0}
         /\ kept' = kept \cup {writer[w].line.id} /\ logLock' = None
         /\ Goes(w, "idle", None) /\ Numbered
         /\ UNCHANGED <<log, thread, auditVars, crashes, cancels>>
<1>1. /\ writer[w].pc = "writing" /\ writer[w].line \notin thread /\ head' = writer[w].line.id
      /\ kept' = kept \cup {writer[w].line.id} /\ logLock' = None
      /\ writer' = [writer EXCEPT ![w] = Resting]
      /\ UNCHANGED <<log, thread, auditVars, made, crashes, cancels>>
  BY DEF EndReceipt
<1>2. writer[w].line \in Lines
  BY <1>1 DEF WTypes, AtWork
<1>3. Goes(w, "idle", None)
  BY <1>1, WriterRests DEF WTypes
<1>4. Numbered
  BY <1>1 DEF Numbered, WTypes
<1>5. writer[w].line.id \in Nat \ {0}
  BY <1>2 DEF Lines
<1> QED
  BY <1>1, <1>2, <1>3, <1>4, <1>5

LEMMA CancelReceiptMoves ==
  ASSUME WTypes, NEW w \in Writer, CancelReceipt(w)
  PROVE  /\ writer[w].pc \in {"reading", "writing"} /\ thread' \in {thread, thread \ {writer[w].line}}
         /\ cancels' = cancels + 1 /\ logLock' = None /\ Goes(w, "idle", None) /\ Numbered
         /\ UNCHANGED <<log, head, kept, auditVars, crashes>>
<1>1. /\ writer[w].pc \in {"reading", "writing"} /\ thread' \in {thread, thread \ {writer[w].line}}
      /\ cancels' = cancels + 1 /\ logLock' = None
      /\ writer' = [writer EXCEPT ![w] = Resting]
      /\ UNCHANGED <<log, head, kept, auditVars, made, crashes>>
  BY DEF CancelReceipt
<1>2. Goes(w, "idle", None)
  BY <1>1, WriterRests DEF WTypes
<1>3. Numbered
  BY <1>1 DEF Numbered, WTypes
<1> QED
  BY <1>1, <1>2, <1>3

LEMMA BeginEventMoves ==
  ASSUME WTypes, NEW w \in Writer, BeginEvent(w)
  PROVE  /\ writer[w].pc = "idle" /\ auditLock = None /\ auditLock' = w
         /\ made.event \in Nat /\ made' \in [receipt : Nat, event : Nat] /\ made'.event = made.event + 1
         /\ Goes(w, "file", made.event + 1)
         /\ UNCHANGED <<receiptVars, events, table, primary, sinceTrim, orphan, heard, crashes, cancels>>
<1> DEFINE number == made.event + 1
           row == [Resting EXCEPT !.pc = "file", !.line = number]
<1>1. /\ writer[w].pc = "idle" /\ auditLock = None /\ auditLock' = w
      /\ made' = [made EXCEPT !.event = @ + 1] /\ writer' = [writer EXCEPT ![w] = row]
      /\ UNCHANGED <<receiptVars, events, table, primary, sinceTrim, orphan, heard, crashes, cancels>>
  BY DEF BeginEvent
<1>2. made.event \in Nat /\ number \in Nat
  BY DEF WTypes
<1>3. made' \in [receipt : Nat, event : Nat] /\ made'.event = made.event + 1
  <2>1. made' = [made EXCEPT !.event = made.event + 1] /\ made \in [receipt : Nat, event : Nat]
    BY DEF BeginEvent, WTypes
  <2> QED
    BY <2>1, <1>2
<1> HIDE DEF number
<1>4. row \in Works /\ row.pc = "file" /\ row.line = number
  BY <1>2, RestingWorks DEF Works, Busy
<1> HIDE DEF row
<1>5. row.pc # "writing" /\ row.line \in Nat
  BY <1>2, <1>4
<1>6. Goes(w, "file", number)
  BY <1>1, <1>4, <1>5, WriterGoes DEF WTypes
<1> QED
  BY <1>1, <1>2, <1>3, <1>6 DEF number

LEMMA AppendEventMoves ==
  ASSUME WTypes, NEW w \in Writer, AppendEvent(w)
  PROVE  /\ writer[w].pc = "file" /\ writer[w].line \in Nat
         /\ events' = Append(events, writer[w].line) /\ sinceTrim' = sinceTrim + 1
         /\ \/ sinceTrim + 1 >= TrimInterval /\ Goes(w, "trim", writer[w].line)
            \/ sinceTrim + 1 < TrimInterval /\ Goes(w, "row", writer[w].line)
         /\ UNCHANGED <<receiptVars, table, primary, auditLock, orphan, heard, made, crashes, cancels>>
<1>1. /\ writer[w].pc = "file"
      /\ events' = Append(events, writer[w].line) /\ sinceTrim' = sinceTrim + 1
      /\ UNCHANGED <<receiptVars, table, primary, auditLock, orphan, heard, made, crashes, cancels>>
  BY DEF AppendEvent
<1>2. writer[w].line \in Nat /\ writer[w].pc \in Busy
  BY <1>1 DEF WTypes, AtWork, Busy
<1>3. CASE sinceTrim + 1 >= TrimInterval
  <2>1. writer' = [writer EXCEPT ![w].pc = "trim"]
    BY <1>3 DEF AppendEvent
  <2>2. Goes(w, "trim", writer[w].line)
    BY <2>1, <1>2, WriterGoesOn DEF WTypes, Busy
  <2> QED
    BY <1>1, <1>2, <1>3, <2>2
<1>4. CASE ~ (sinceTrim + 1 >= TrimInterval)
  <2>1. writer' = [writer EXCEPT ![w].pc = "row"]
    BY <1>4 DEF AppendEvent
  <2>2. Goes(w, "row", writer[w].line)
    BY <2>1, <1>2, WriterGoesOn DEF WTypes, Busy
  <2>3. sinceTrim + 1 < TrimInterval
    BY <1>4, LogsAssumption DEF WTypes
  <2> QED
    BY <1>1, <1>2, <2>2, <2>3
<1> QED
  BY <1>3, <1>4

LEMMA ReadForTrimMoves ==
  ASSUME WTypes, NEW w \in Writer, ReadForTrim(w)
  PROVE  /\ writer[w].pc = "trim"
         /\ \/ Len(events) <= MaxEvents /\ sinceTrim' = 0 /\ Goes(w, "row", writer[w].line)
            \/ /\ Len(events) > MaxEvents /\ sinceTrim' = sinceTrim
               /\ Goes(w, "replace", writer[w].line) /\ writer'[w].lines = events
         /\ UNCHANGED <<receiptVars, events, table, primary, auditLock, orphan, heard, made, crashes, cancels>>
<1>1. /\ writer[w].pc = "trim"
      /\ UNCHANGED <<receiptVars, events, table, primary, auditLock, orphan, heard, made, crashes, cancels>>
  BY DEF ReadForTrim
<1>2. writer[w].line \in Nat /\ writer[w].pc \in Busy /\ writer[w] \in Works
  BY <1>1 DEF WTypes, AtWork, Busy
<1>3. CASE Len(events) <= MaxEvents
  <2>1. writer' = [writer EXCEPT ![w].pc = "row"] /\ sinceTrim' = 0
    BY <1>3 DEF ReadForTrim
  <2>2. Goes(w, "row", writer[w].line)
    BY <2>1, <1>2, WriterGoesOn DEF WTypes, Busy
  <2> QED
    BY <1>1, <1>3, <2>1, <2>2
<1>4. CASE ~ (Len(events) <= MaxEvents)
  <2> DEFINE row == [writer[w] EXCEPT !.pc = "replace", !.lines = events]
  <2>1. writer' = [writer EXCEPT ![w].pc = "replace", ![w].lines = events] /\ sinceTrim' = sinceTrim
    BY <1>4 DEF ReadForTrim
  <2>2. writer' = [writer EXCEPT ![w] = row]
    BY <2>1 DEF WTypes, AtWork
  <2>3. row \in Works /\ row.pc = "replace" /\ row.line = writer[w].line /\ row.lines = events
    BY <1>2 DEF Works, Busy, WTypes
  <2> HIDE DEF row
  <2>4. row.pc # "writing" /\ row.line \in Nat
    BY <1>2, <2>3
  <2>5. Goes(w, "replace", writer[w].line) /\ writer'[w].lines = events
    BY <2>2, <2>3, <2>4, WriterGoes DEF WTypes
  <2>6. Len(events) > MaxEvents
    BY <1>4, LogsAssumption DEF WTypes
  <2> QED
    BY <1>1, <2>1, <2>5, <2>6
<1> QED
  BY <1>3, <1>4

LEMMA TrimEventsMoves ==
  ASSUME WTypes, NEW w \in Writer, TrimEvents(w)
  PROVE  /\ writer[w].pc = "replace" /\ writer[w].lines \in Seq(Nat)
         /\ events' = Newest(writer[w].lines) /\ sinceTrim' = 0 /\ Goes(w, "row", writer[w].line)
         /\ UNCHANGED <<receiptVars, table, primary, auditLock, orphan, heard, made, crashes, cancels>>
<1> DEFINE row == [writer[w] EXCEPT !.pc = "row", !.lines = <<>>]
<1>1. /\ writer[w].pc = "replace"
      /\ events' = Newest(writer[w].lines) /\ sinceTrim' = 0
      /\ writer' = [writer EXCEPT ![w].pc = "row", ![w].lines = <<>>]
      /\ UNCHANGED <<receiptVars, table, primary, auditLock, orphan, heard, made, crashes, cancels>>
  BY DEF TrimEvents
<1>2. writer[w].line \in Nat /\ writer[w] \in Works
  BY <1>1 DEF WTypes, AtWork, Busy
<1>3. writer' = [writer EXCEPT ![w] = row]
  BY <1>1 DEF WTypes, AtWork
<1>4. <<>> \in Seq(Nat)
  OBVIOUS
<1>5. row \in Works /\ row.pc = "row" /\ row.line = writer[w].line
  BY <1>2, <1>4 DEF Works, Busy
<1>6. writer[w].lines \in Seq(Nat)
  BY <1>2 DEF Works
<1> HIDE DEF row
<1>7. row.pc # "writing" /\ row.line \in Nat
  BY <1>2, <1>5
<1>8. Goes(w, "row", writer[w].line)
  BY <1>3, <1>5, <1>7, WriterGoes DEF WTypes
<1> QED
  BY <1>1, <1>6, <1>8

LEMMA InsertRowMoves ==
  ASSUME WTypes, NEW w \in Writer, InsertRow(w)
  PROVE  /\ writer[w].pc = "row" /\ writer[w].line \in Nat
         /\ \/ primary = "sqlite" /\ table' = Newest(Append(table, writer[w].line))
            \/ primary # "sqlite" /\ table' = table
         /\ heard' = heard \cup {[id |-> writer[w].line, primary |-> primary]}
         /\ auditLock' = None /\ Goes(w, "idle", None)
         /\ UNCHANGED <<receiptVars, events, primary, sinceTrim, orphan, made, crashes, cancels>>
<1>1. /\ writer[w].pc = "row" /\ auditLock' = None
      /\ heard' = heard \cup {[id |-> writer[w].line, primary |-> primary]}
      /\ writer' = [writer EXCEPT ![w] = Resting]
      /\ UNCHANGED <<receiptVars, events, primary, sinceTrim, orphan, made, crashes, cancels>>
  BY DEF InsertRow
<1>2. writer[w].line \in Nat
  BY <1>1 DEF WTypes, AtWork, Busy
<1>3. \/ primary = "sqlite" /\ table' = Newest(Append(table, writer[w].line))
      \/ primary # "sqlite" /\ table' = table
  BY DEF InsertRow
<1>4. Goes(w, "idle", None)
  BY <1>1, WriterRests DEF WTypes
<1> QED
  BY <1>1, <1>2, <1>3, <1>4

LEMMA CancelEventMoves ==
  ASSUME WTypes, NEW w \in Writer, CancelEvent(w)
  PROVE  /\ writer[w].pc \in Busy /\ writer[w] \in Works /\ writer[w].line \in Nat
         /\ orphan' = orphan \cup {writer[w]} \/ (writer[w].pc # "replace" /\ orphan' = orphan)
         /\ cancels' = cancels + 1 /\ auditLock' = None /\ Goes(w, "idle", None)
         /\ UNCHANGED <<receiptVars, events, table, primary, sinceTrim, heard, made, crashes>>
<1>1. /\ writer[w].pc \in Busy
      /\ orphan' = orphan \cup {writer[w]} \/ (writer[w].pc # "replace" /\ orphan' = orphan)
      /\ cancels' = cancels + 1 /\ auditLock' = None
      /\ writer' = [writer EXCEPT ![w] = Resting]
      /\ UNCHANGED <<receiptVars, events, table, primary, sinceTrim, heard, made, crashes>>
  <2>1. orphan' = orphan \cup {writer[w]} \/ (writer[w].pc # "replace" /\ orphan' = orphan)
    BY DEF CancelEvent
  <2>2. writer[w].pc \in Busy
    BY DEF CancelEvent, Busy
  <2> QED
    BY <2>1, <2>2 DEF CancelEvent
<1>2. Goes(w, "idle", None)
  BY <1>1, WriterRests DEF WTypes
<1>3. writer[w].line \in Nat /\ writer[w] \in Works
  BY <1>1 DEF WTypes, AtWork
<1> QED
  BY <1>1, <1>2, <1>3

\* After a restart nobody is at work.
LEMMA CrashRests ==
  ASSUME CrashLogs
  PROVE  AtWork' /\ \A w \in Writer : writer'[w].pc = "idle"
<1>1. writer' = [w \in Writer |-> Resting]
  BY DEF CrashLogs
<1>2. "idle" \notin Busy
  BY DEF Busy
<1>3. \A w \in Writer : writer'[w] \in Works /\ writer'[w].pc = "idle"
  BY <1>1, RestingWorks
<1>4. writer' \in [Writer -> Works]
  BY <1>1, <1>3
<1> QED
  BY <1>2, <1>3, <1>4 DEF AtWork

\* The steps of one log leave the other as it is.
LEMMA LogAlone ==
  ASSUME WTypes, NEW w \in Writer, NEW pc, NEW line, Goes(w, pc, line), pc \notin {"reading", "writing"},
         writer[w].pc \notin {"reading", "writing"}, UNCHANGED receiptVars, cancels' \in {cancels, cancels + 1}
  PROVE  /\ LogLocked => LogLocked'
         /\ Landing => Landing'
         /\ Chained => Chained'
<1>1. /\ \A v \in Writer : writer'[v].pc \in {"reading", "writing"} =>
             writer'[v] = writer[v] /\ writer[v].pc \in {"reading", "writing"}
      /\ \A v \in Writer : writer[v].pc \in {"reading", "writing"} => writer'[v] = writer[v]
  BY DEF Goes
<1>2. log' = log /\ head' = head /\ logLock' = logLock /\ thread' = thread /\ kept' = kept
  BY DEF receiptVars
<1>3. \A v \in Writer : writer'[v].pc = "writing" <=> writer[v].pc = "writing"
  BY <1>1
<1>4. \A v \in Writer : writer[v].pc = "writing" => writer'[v] = writer[v]
  BY <1>1
<1>5. ASSUME LogLocked PROVE LogLocked'
  BY <1>1, <1>2, <1>5 DEF LogLocked
<1>6. ASSUME Landing PROVE Landing'
  BY <1>2, <1>3, <1>4, <1>6 DEF Landing
<1>7. ASSUME Chained PROVE Chained'
  <2>1. cancels' = 0 => cancels = 0
    BY DEF WTypes
  <2>2. LastHash' = LastHash
    BY <1>2 DEF LastHash
  <2>3. Verified(log') = Verified(log)
    BY <1>2
  <2> QED
    BY <1>2, <1>3, <1>4, <1>7, <2>1, <2>2, <2>3 DEF Chained
<1> QED
  BY <1>5, <1>6, <1>7

LEMMA AuditAlone ==
  ASSUME WTypes, NEW w \in Writer, NEW pc, NEW line, Goes(w, pc, line), pc \notin Busy,
         writer[w].pc \notin Busy, UNCHANGED auditVars, UNCHANGED crashes,
         made'.event = made.event, cancels' \in {cancels, cancels + 1}
  PROVE  /\ AuditLocked => AuditLocked'
         /\ InOrder => InOrder'
         /\ \A x, y \in Nat : Room(x, y) => Room(x, y)'
<1>1. \A v \in Writer : /\ (writer'[v].pc \in Busy <=> writer[v].pc \in Busy)
                        /\ writer[v].pc \in Busy => writer'[v] = writer[v]
  BY DEF Goes
<1>2. /\ events' = events /\ table' = table /\ primary' = primary /\ sinceTrim' = sinceTrim
      /\ auditLock' = auditLock /\ orphan' = orphan /\ heard' = heard /\ crashes' = crashes
  BY DEF auditVars
<1>3. cancels \in Nat /\ (cancels' = 0 => cancels = 0) /\ cancels <= cancels'
  BY DEF WTypes
<1>4. ASSUME AuditLocked PROVE AuditLocked'
  BY <1>1, <1>2, <1>4 DEF AuditLocked
<1>5. ASSUME InOrder PROVE InOrder'
  BY <1>1, <1>2, <1>3, <1>5 DEF InOrder
<1>6. ASSUME NEW x \in Nat, NEW y \in Nat, Room(x, y) PROVE Room(x, y)'
  <2>1. Trimming' <=> Trimming
    BY <1>1 DEF Trimming, Busy
  <2>2. Pending' = Pending
    BY <1>2 DEF Pending
  <2>3. x + y <= cancels'
    BY <1>3, <1>6 DEF Room, WTypes
  <2> QED
    BY <1>2, <1>6, <2>1, <2>2, <2>3 DEF Room
<1> QED
  BY <1>4, <1>5, <1>6

LEMMA WTypesInit == WInit => WTypes
<1> SUFFICES ASSUME WInit PROVE WTypes
  OBVIOUS
<1>1. writer = [w \in Writer |-> Resting] /\ Resting \in Works /\ Resting.pc = "idle"
  BY RestingWorks DEF WInit
<1>2. AtWork
  BY <1>1 DEF AtWork, Busy
<1>3. log \in Seq(Lines) /\ events \in Seq(Nat) /\ table \in Seq(Nat)
  BY DEF WInit
<1>4. IsFiniteSet(orphan)
  BY FS_EmptySet DEF WInit
<1> QED
  BY <1>2, <1>3, <1>4 DEF WInit, WTypes

LEMMA WTypesKept ==
  ASSUME WTypes, WNext
  PROVE  WTypes'
<1>1. ASSUME NEW w \in Writer, BeginReceipt(w) PROVE WTypes'
  <2>1. /\ UNCHANGED <<log, head, auditVars, crashes, cancels>> /\ Numbered
        /\ Takes(w, head) \/ (thread' = thread /\ Goes(w, "reading", writer[w].line))
    BY <1>1, BeginReceiptMoves
  <2>2. AtWork' /\ thread' \in SUBSET Lines
    BY <2>1 DEF Takes, Goes, WTypes
  <2> QED
    BY <2>1, <2>2 DEF WTypes, auditVars, Numbered
<1>2. ASSUME NEW w \in Writer, ReadHead(w) PROVE WTypes'
  <2>1. UNCHANGED <<log, head, auditVars, crashes, cancels>> /\ Numbered /\ Takes(w, LastHash)
    BY <1>2, ReadHeadMoves
  <2>2. AtWork' /\ thread' \in SUBSET Lines
    BY <2>1 DEF Takes, Goes, WTypes
  <2> QED
    BY <2>1, <2>2 DEF WTypes, auditVars, Numbered
<1>3. ASSUME NEW w \in Writer, EndReceipt(w) PROVE WTypes'
  <2>1. /\ UNCHANGED <<log, thread, auditVars, crashes, cancels>> /\ Numbered
        /\ head' \in Nat \ {0} /\ Goes(w, "idle", None)
    BY <1>3, EndReceiptMoves
  <2>2. AtWork'
    BY <2>1 DEF Goes
  <2> QED
    BY <2>1, <2>2 DEF WTypes, auditVars, Numbered
<1>4. ASSUME NEW w \in Writer, CancelReceipt(w) PROVE WTypes'
  <2>1. /\ UNCHANGED <<log, head, auditVars, crashes>> /\ Numbered /\ cancels' = cancels + 1
        /\ thread' \in {thread, thread \ {writer[w].line}} /\ Goes(w, "idle", None)
    BY <1>4, CancelReceiptMoves
  <2>2. AtWork' /\ thread' \in SUBSET Lines /\ cancels' \in Nat
    BY <2>1 DEF Goes, WTypes
  <2> QED
    BY <2>1, <2>2 DEF WTypes, auditVars, Numbered
<1>5. ASSUME NEW w \in Writer, BeginEvent(w) PROVE WTypes'
  <2>1. /\ UNCHANGED <<receiptVars, events, table, primary, sinceTrim, orphan, heard, crashes, cancels>>
        /\ made' \in [receipt : Nat, event : Nat] /\ Goes(w, "file", made.event + 1)
    BY <1>5, BeginEventMoves
  <2>2. AtWork'
    BY <2>1 DEF Goes
  <2> QED
    BY <2>1, <2>2 DEF WTypes, receiptVars
<1>6. ASSUME NEW w \in Writer, AppendEvent(w) PROVE WTypes'
  <2>1. /\ UNCHANGED <<receiptVars, table, primary, orphan, heard, made, crashes, cancels>>
        /\ writer[w].line \in Nat /\ events' = Append(events, writer[w].line) /\ sinceTrim' = sinceTrim + 1
        /\ Goes(w, "trim", writer[w].line) \/ Goes(w, "row", writer[w].line)
    BY <1>6, AppendEventMoves
  <2>2. AtWork' /\ events' \in Seq(Nat) /\ sinceTrim' \in Nat
    BY <2>1 DEF Goes, WTypes
  <2> QED
    BY <2>1, <2>2 DEF WTypes, receiptVars
<1>7. ASSUME NEW w \in Writer, ReadForTrim(w) PROVE WTypes'
  <2>1. /\ UNCHANGED <<receiptVars, events, table, primary, orphan, heard, made, crashes, cancels>>
        /\ sinceTrim' \in {0, sinceTrim}
        /\ Goes(w, "replace", writer[w].line) \/ Goes(w, "row", writer[w].line)
    BY <1>7, ReadForTrimMoves
  <2>2. AtWork' /\ sinceTrim' \in Nat
    BY <2>1 DEF Goes, WTypes
  <2> QED
    BY <2>1, <2>2 DEF WTypes, receiptVars
<1>8. ASSUME NEW w \in Writer, TrimEvents(w) PROVE WTypes'
  <2>1. /\ UNCHANGED <<receiptVars, table, primary, orphan, heard, made, crashes, cancels>>
        /\ writer[w].lines \in Seq(Nat) /\ events' = Newest(writer[w].lines) /\ sinceTrim' = 0
        /\ Goes(w, "row", writer[w].line)
    BY <1>8, TrimEventsMoves
  <2>2. AtWork' /\ events' \in Seq(Nat)
    BY <2>1, NewestOf DEF Goes
  <2> QED
    BY <2>1, <2>2 DEF WTypes, receiptVars
<1>9. ASSUME NEW w \in Writer, InsertRow(w) PROVE WTypes'
  <2>1. /\ UNCHANGED <<receiptVars, events, primary, sinceTrim, orphan, made, crashes, cancels>>
        /\ writer[w].line \in Nat
        /\ table' = Newest(Append(table, writer[w].line)) \/ table' = table
        /\ heard' = heard \cup {[id |-> writer[w].line, primary |-> primary]} /\ Goes(w, "idle", None)
    BY <1>9, InsertRowMoves
  <2>2. Append(table, writer[w].line) \in Seq(Nat)
    BY <2>1 DEF WTypes
  <2>3. AtWork' /\ table' \in Seq(Nat)
    BY <2>1, <2>2, NewestOf DEF Goes, WTypes
  <2>4. heard' \subseteq [id : Nat, primary : {"file", "sqlite"}]
    BY <2>1 DEF WTypes
  <2> QED
    BY <2>1, <2>3, <2>4 DEF WTypes, receiptVars
<1>10. ASSUME NEW w \in Writer, CancelEvent(w) PROVE WTypes'
  <2>1. /\ UNCHANGED <<receiptVars, events, table, primary, sinceTrim, heard, made, crashes>>
        /\ writer[w].pc \in Busy /\ writer[w] \in Works /\ writer[w].line \in Nat
        /\ orphan' = orphan \cup {writer[w]} \/ orphan' = orphan
        /\ cancels' = cancels + 1 /\ Goes(w, "idle", None)
    BY <1>10, CancelEventMoves
  <2>2. AtWork' /\ cancels' \in Nat
    BY <2>1 DEF Goes, WTypes
  <2>3. IsFiniteSet(orphan')
    <3>1. IsFiniteSet(orphan)
      BY DEF WTypes
    <3>2. IsFiniteSet(orphan \cup {writer[w]})
      BY <3>1, FS_AddElement
    <3> QED
      BY <2>1, <3>1, <3>2
  <2>4. orphan' \in SUBSET Works /\ \A o \in orphan' : o.pc \in Busy /\ o.line \in Nat
    BY <2>1 DEF WTypes
  <2> QED
    BY <2>1, <2>2, <2>3, <2>4 DEF WTypes, receiptVars
<1>11. ASSUME ThreadWrites PROVE WTypes'
  <2>1. PICK line \in thread : log' = Append(log, line) /\ thread' = thread \ {line}
    BY <1>11 DEF ThreadWrites
  <2>2. log' \in Seq(Lines) /\ thread' \in SUBSET Lines
    BY <2>1 DEF WTypes
  <2>3. UNCHANGED <<head, writer, auditVars, made, crashes, cancels>>
    BY <1>11 DEF ThreadWrites
  <2>4. AtWork'
    BY <2>3 DEF WTypes, AtWork
  <2> QED
    BY <2>2, <2>3, <2>4 DEF WTypes, auditVars
<1>12. ASSUME OrphanGoesOn PROVE WTypes'
  <2>1. UNCHANGED <<receiptVars, writer, primary, sinceTrim, heard, made, crashes, cancels>>
    BY <1>12 DEF OrphanGoesOn
  <2>2. AtWork'
    BY <2>1 DEF WTypes, AtWork
  <2>3. PICK o \in orphan :
       \/ /\ o.pc = "file" /\ events' = Append(events, o.line)
          /\ orphan' = orphan \ {o} /\ UNCHANGED table
       \/ /\ o.pc = "trim" /\ Len(events) > MaxEvents
          /\ orphan' = (orphan \ {o}) \cup {[o EXCEPT !.pc = "replace", !.lines = events]}
          /\ UNCHANGED <<events, table>>
       \/ /\ o.pc = "replace" /\ events' = Newest(o.lines)
          /\ orphan' = orphan \ {o} /\ UNCHANGED table
       \/ /\ o.pc = "row" /\ primary = "sqlite" /\ table' = Newest(Append(table, o.line))
          /\ orphan' = orphan \ {o} /\ UNCHANGED events
    BY <1>12 DEF OrphanGoesOn
  <2> DEFINE next == [o EXCEPT !.pc = "replace", !.lines = events]
  <2>4. o \in Works /\ o.pc \in Busy /\ o.line \in Nat
    BY DEF WTypes
  <2>5. next \in Works /\ next.pc \in Busy /\ next.line \in Nat
    BY <2>4 DEF Works, Busy, WTypes
  <2> HIDE DEF next
  <2>6. orphan' = orphan \ {o} \/ orphan' = (orphan \ {o}) \cup {next}
    BY <2>3 DEF next
  <2>7. IsFiniteSet(orphan')
    <3>1. IsFiniteSet(orphan)
      BY DEF WTypes
    <3>2. IsFiniteSet(orphan \ {o})
      BY <3>1, FS_RemoveElement
    <3>3. IsFiniteSet((orphan \ {o}) \cup {next})
      BY <3>2, FS_AddElement
    <3> QED
      BY <2>6, <3>2, <3>3
  <2>8. orphan' \in SUBSET Works /\ \A p \in orphan' : p.pc \in Busy /\ p.line \in Nat
    BY <2>5, <2>6 DEF WTypes
  <2>9. o.lines \in Seq(Nat) /\ Append(events, o.line) \in Seq(Nat) /\ Append(table, o.line) \in Seq(Nat)
    BY <2>4 DEF Works, WTypes
  <2>10. Newest(o.lines) \in Seq(Nat) /\ Newest(Append(table, o.line)) \in Seq(Nat)
    BY <2>9, NewestOf
  <2>11. events' \in Seq(Nat) /\ table' \in Seq(Nat)
    BY <2>3, <2>9, <2>10 DEF WTypes
  <2> QED
    BY <2>1, <2>2, <2>7, <2>8, <2>11 DEF WTypes, receiptVars
<1>13. ASSUME CrashLogs PROVE WTypes'
  <2>1. AtWork'
    BY <1>13, CrashRests
  <2>2. IsFiniteSet(orphan')
    BY <1>13, FS_EmptySet DEF CrashLogs
  <2> QED
    BY <1>13, <2>1, <2>2 DEF CrashLogs, WTypes
<1> QED
  BY <1>1, <1>2, <1>3, <1>4, <1>5, <1>6, <1>7, <1>8, <1>9, <1>10, <1>11, <1>12, <1>13 DEF WNext

\* Nobody else writes a receipt than who holds the lock, and a line in a thread is theirs.
LEMMA OneReceipt ==
  ASSUME LogLocked
  PROVE  /\ \A w \in Writer : logLock = None => writer[w].pc \notin {"reading", "writing"}
         /\ \A w, v \in Writer :
              writer[w].pc \in {"reading", "writing"} /\ writer[v].pc \in {"reading", "writing"} => v = w
BY LogsAssumption DEF LogLocked

LEMMA TakesKeeps ==
  ASSUME WTypes, LogLocked, Landing, Chained, NEW w \in Writer, NEW previous, Takes(w, previous),
         \A v \in Writer : v # w => writer[v].pc \notin {"reading", "writing"},
         writer[w].pc # "writing", cancels = 0 => previous = LastHash, logLock' = w,
         UNCHANGED <<log, head, kept, cancels>>
  PROVE  LogLocked' /\ Landing' /\ Chained'
<1>1. PICK l \in Lines : l.prev = previous /\ thread' = thread \cup {l} /\ Goes(w, "writing", l)
  BY DEF Takes
<1>2. /\ writer'[w].pc = "writing" /\ writer'[w].line = l
      /\ \A v \in Writer : v # w => writer'[v] = writer[v]
  BY <1>1 DEF Goes
<1>3. \A v \in Writer : writer'[v].pc \in {"reading", "writing"} => v = w
  BY <1>2
<1>4. LogLocked'
  BY <1>3 DEF LogLocked
<1>5. Landing'
  <2>1. \A v \in Writer : writer'[v].pc = "writing" => writer'[v].line \in thread'
    BY <1>1, <1>2, <1>3
  <2>2. kept' \subseteq {log'[i].id : i \in 1..Len(log')}
    BY DEF Landing
  <2> QED
    BY <2>1, <2>2 DEF Landing
<1>6. Chained'
  <2> SUFFICES ASSUME cancels' = 0 PROVE Chained'
    BY DEF Chained
  <2>1. cancels = 0 /\ Verified(log') /\ LastHash' = LastHash /\ previous = LastHash
    BY DEF Chained, LastHash
  <2>2. thread = {}
    BY <2>1 DEF Chained
  <2>3. \A m \in thread' : m = l
    BY <1>1, <2>2
  <2>4. \A m \in thread' : \E v \in Writer : writer'[v].pc = "writing" /\ writer'[v].line = m
    BY <1>2, <2>3
  <2>5. ASSUME NEW v \in Writer, writer'[v].pc = "writing"
        PROVE  writer'[v].line \in thread' /\ writer'[v].line.prev = LastHash'
    BY <1>1, <1>2, <1>3, <2>1, <2>5
  <2>6. ~ \A v \in Writer : writer'[v].pc # "writing"
    BY <1>2
  <2> QED
    BY <2>1, <2>4, <2>5, <2>6 DEF Chained
<1> QED
  BY <1>4, <1>5, <1>6

\* Who stops while no line of theirs is in a thread leaves the file as it is.
LEMMA StopKeeps ==
  ASSUME WTypes, LogLocked, Landing, NEW w \in Writer, writer[w].pc \in {"reading", "writing"},
         NEW pc, NEW line, Goes(w, pc, line), pc \notin {"reading", "writing"}, log' = log,
         kept' \subseteq {log[i].id : i \in 1..Len(log)}
  PROVE  /\ LogLocked' /\ Landing'
         /\ \A v \in Writer : writer'[v].pc \notin {"reading", "writing"}
<1>1. \A v \in Writer : writer'[v].pc \notin {"reading", "writing"}
  BY OneReceipt DEF Goes
<1>2. LogLocked'
  BY <1>1 DEF LogLocked
<1>3. Landing'
  BY <1>1 DEF Landing
<1> QED
  BY <1>1, <1>2, <1>3

LEMMA ThreadKeeps ==
  ASSUME WTypes, LogLocked, Landing, Chained, ThreadWrites
  PROVE  LogLocked' /\ Landing' /\ Chained'
<1>1. PICK l \in thread : log' = Append(log, l) /\ thread' = thread \ {l}
  BY DEF ThreadWrites
<1>2. writer' = writer /\ head' = head /\ logLock' = logLock /\ kept' = kept /\ cancels' = cancels
  BY DEF ThreadWrites
<1>3. l \in Lines /\ log \in Seq(Lines) /\ Len(log) \in Nat
  BY DEF WTypes
<1>4. /\ Len(log') = Len(log) + 1 /\ log'[Len(log) + 1] = l /\ log' # <<>>
      /\ \A i \in 1..Len(log) : log'[i] = log[i]
  BY <1>1, <1>3
<1>5. LogLocked'
  BY <1>2 DEF LogLocked
<1>6. Landing'
  <2>1. ASSUME NEW w \in Writer, writer'[w].pc = "writing"
        PROVE  writer'[w].line \in thread' \/ \E i \in 1..Len(log') : log'[i] = writer'[w].line
    <3>1. writer[w].line \in thread \/ \E i \in 1..Len(log) : log[i] = writer[w].line
      BY <1>2, <2>1 DEF Landing
    <3>2. CASE writer[w].line = l
      BY <3>2, <1>2, <1>3, <1>4
    <3>3. CASE writer[w].line \in thread /\ writer[w].line # l
      BY <3>3, <1>1, <1>2
    <3>4. CASE \E i \in 1..Len(log) : log[i] = writer[w].line
      BY <3>4, <1>2, <1>3, <1>4
    <3> QED
      BY <3>1, <3>2, <3>3, <3>4
  <2>2. {log[i].id : i \in 1..Len(log)} \subseteq {log'[i].id : i \in 1..Len(log')}
    BY <1>3, <1>4
  <2>3. kept' \subseteq {log'[i].id : i \in 1..Len(log')}
    BY <1>2, <2>2 DEF Landing
  <2> QED
    BY <2>1, <2>3 DEF Landing
<1>7. Chained'
  <2> SUFFICES ASSUME cancels = 0 PROVE Chained'
    BY <1>2 DEF Chained
  <2>1. PICK w \in Writer : writer[w].pc = "writing" /\ writer[w].line = l
    BY DEF Chained
  <2>2. \A v \in Writer : writer[v].pc = "writing" => v = w
    BY <2>1, OneReceipt
  <2>3. l.prev = LastHash
    BY <2>1 DEF Chained
  <2>4. thread' = {}
    BY <1>1, <2>1, <2>2 DEF Chained
  <2>5. LastHash' = l.id
    BY <1>3, <1>4 DEF LastHash
  <2>6. Verified(log')
    <3> SUFFICES ASSUME NEW i \in 1..Len(log') PROVE log'[i].prev = IF i = 1 THEN None ELSE log'[i - 1].id
      BY DEF Verified
    <3>1. CASE i = Len(log) + 1
      <4>1. CASE log = <<>>
        BY <3>1, <4>1, <1>4, <2>3 DEF LastHash
      <4>2. CASE log # <<>>
        <5>1. Len(log) > 0 /\ i # 1 /\ i - 1 = Len(log)
          BY <3>1, <4>2, <1>3
        <5>2. log'[i - 1] = log[Len(log)]
          BY <5>1, <1>3, <1>4
        <5>3. LastHash = log[Len(log)].id
          BY <4>2 DEF LastHash
        <5> QED
          BY <3>1, <5>1, <5>2, <5>3, <1>4, <2>3
      <4> QED
        BY <4>1, <4>2
    <3>2. CASE i \in 1..Len(log)
      <4>1. log[i].prev = IF i = 1 THEN None ELSE log[i - 1].id
        BY <3>2 DEF Chained, Verified
      <4>2. log'[i] = log[i] /\ (i # 1 => log'[i - 1] = log[i - 1])
        BY <3>2, <1>3, <1>4
      <4> QED
        BY <4>1, <4>2
    <3> QED
      BY <3>1, <3>2, <1>3, <1>4
  <2> QED
    BY <1>2, <2>1, <2>2, <2>4, <2>5, <2>6 DEF Chained
<1> QED
  BY <1>5, <1>6, <1>7

LEMMA LogKept ==
  ASSUME WTypes, LogLocked, Landing, Chained, WNext
  PROVE  LogLocked' /\ Landing' /\ Chained'
<1> DEFINE Kept == LogLocked' /\ Landing' /\ Chained'
<1>1. ASSUME NEW w \in Writer, BeginReceipt(w) PROVE Kept
  <2>1. /\ writer[w].pc = "idle" /\ logLock = None /\ logLock' = w
        /\ UNCHANGED <<log, head, kept, cancels>>
    BY <1>1, BeginReceiptMoves
  <2>2. \A v \in Writer : writer[v].pc \notin {"reading", "writing"}
    BY <2>1, OneReceipt
  <2>3. CASE head # None /\ Takes(w, head)
    <3>1. cancels = 0 => head = LastHash
      BY <2>2, <2>3 DEF Chained
    <3>2. writer[w].pc # "writing"
      BY <2>1
    <3> QED
      BY <2>1, <2>2, <2>3, <3>1, <3>2, TakesKeeps
  <2>4. CASE head = None /\ thread' = thread /\ Goes(w, "reading", writer[w].line)
    <3>1. \A v \in Writer : writer'[v].pc # "writing" /\ (writer'[v].pc = "reading" => v = w)
      BY <2>2, <2>4 DEF Goes
    <3>2. LogLocked'
      BY <2>1, <3>1 DEF LogLocked
    <3>3. Landing'
      BY <2>1, <3>1 DEF Landing
    <3>4. Chained'
      <4>1. cancels = 0 => thread = {} /\ Verified(log)
        BY <2>2 DEF Chained
      <4> QED
        BY <2>1, <2>4, <3>1, <4>1 DEF Chained
    <3> QED
      BY <3>2, <3>3, <3>4
  <2> QED
    BY <1>1, <2>3, <2>4, BeginReceiptMoves
<1>2. ASSUME NEW w \in Writer, ReadHead(w) PROVE Kept
  <2>1. /\ writer[w].pc = "reading" /\ Takes(w, LastHash)
        /\ UNCHANGED <<log, head, logLock, kept, cancels>>
    BY <1>2, ReadHeadMoves
  <2>2. /\ \A v \in Writer : v # w => writer[v].pc \notin {"reading", "writing"}
        /\ writer[w].pc # "writing" /\ logLock' = w
    BY <2>1, OneReceipt DEF LogLocked
  <2> QED
    BY <2>1, <2>2, TakesKeeps
<1>3. ASSUME NEW w \in Writer, EndReceipt(w) PROVE Kept
  <2>1. /\ writer[w].pc = "writing" /\ writer[w].line \notin thread
        /\ head' = writer[w].line.id /\ kept' = kept \cup {writer[w].line.id}
        /\ Goes(w, "idle", None) /\ UNCHANGED <<log, thread, cancels>>
    BY <1>3, EndReceiptMoves
  <2>2. kept' \subseteq {log[i].id : i \in 1..Len(log)}
    <3>1. PICK i \in 1..Len(log) : log[i] = writer[w].line
      BY <2>1 DEF Landing
    <3> QED
      BY <2>1, <3>1 DEF Landing
  <2>3. /\ LogLocked' /\ Landing'
        /\ \A v \in Writer : writer'[v].pc \notin {"reading", "writing"}
    BY <2>1, <2>2, StopKeeps
  <2>4. Chained'
    <3> SUFFICES ASSUME cancels = 0 PROVE Chained'
      BY <2>1 DEF Chained
    <3>1. LastHash' = LastHash /\ LastHash = writer[w].line.id /\ Verified(log')
      BY <2>1 DEF Chained, LastHash
    <3>2. thread' = {}
      BY <2>1, OneReceipt DEF Chained
    <3> QED
      BY <2>1, <2>3, <3>1, <3>2 DEF Chained
  <2> QED
    BY <2>3, <2>4
<1>4. ASSUME NEW w \in Writer, CancelReceipt(w) PROVE Kept
  <2>1. /\ writer[w].pc \in {"reading", "writing"} /\ cancels' = cancels + 1 /\ Goes(w, "idle", None)
        /\ log' = log /\ kept' = kept
    BY <1>4, CancelReceiptMoves
  <2>2. LogLocked' /\ Landing'
    BY <2>1, StopKeeps DEF Landing
  <2>3. cancels' # 0
    BY <2>1 DEF WTypes
  <2> QED
    BY <2>2, <2>3 DEF Chained
<1>5. ASSUME NEW w \in Writer, BeginEvent(w) PROVE Kept
  <2>1. /\ Goes(w, "file", made.event + 1) /\ writer[w].pc = "idle"
        /\ UNCHANGED receiptVars /\ cancels' = cancels
    BY <1>5, BeginEventMoves
  <2> QED
    BY <2>1, LogAlone
<1>6. ASSUME NEW w \in Writer, AppendEvent(w) PROVE Kept
  <2>1. /\ Goes(w, "trim", writer[w].line) \/ Goes(w, "row", writer[w].line)
        /\ writer[w].pc = "file" /\ UNCHANGED receiptVars /\ cancels' = cancels
    BY <1>6, AppendEventMoves
  <2> QED
    BY <2>1, LogAlone
<1>7. ASSUME NEW w \in Writer, ReadForTrim(w) PROVE Kept
  <2>1. /\ Goes(w, "replace", writer[w].line) \/ Goes(w, "row", writer[w].line)
        /\ writer[w].pc = "trim" /\ UNCHANGED receiptVars /\ cancels' = cancels
    BY <1>7, ReadForTrimMoves
  <2> QED
    BY <2>1, LogAlone
<1>8. ASSUME NEW w \in Writer, TrimEvents(w) PROVE Kept
  <2>1. /\ Goes(w, "row", writer[w].line) /\ writer[w].pc = "replace"
        /\ UNCHANGED receiptVars /\ cancels' = cancels
    BY <1>8, TrimEventsMoves
  <2> QED
    BY <2>1, LogAlone
<1>9. ASSUME NEW w \in Writer, InsertRow(w) PROVE Kept
  <2>1. Goes(w, "idle", None) /\ writer[w].pc = "row" /\ UNCHANGED receiptVars /\ cancels' = cancels
    BY <1>9, InsertRowMoves
  <2> QED
    BY <2>1, LogAlone
<1>10. ASSUME NEW w \in Writer, CancelEvent(w) PROVE Kept
  <2>1. Goes(w, "idle", None) /\ writer[w].pc \in Busy /\ UNCHANGED receiptVars /\ cancels' = cancels + 1
    BY <1>10, CancelEventMoves
  <2>2. writer[w].pc \notin {"reading", "writing"}
    BY <2>1 DEF Busy
  <2> QED
    BY <2>1, <2>2, LogAlone
<1>11. ASSUME ThreadWrites PROVE Kept
  BY <1>11, ThreadKeeps
<1>12. ASSUME OrphanGoesOn PROVE Kept
  <2>1. UNCHANGED <<log, head, logLock, thread, kept, writer, cancels>>
    BY <1>12 DEF OrphanGoesOn, receiptVars
  <2>2. LastHash' = LastHash /\ Verified(log') = Verified(log)
    BY <2>1 DEF LastHash
  <2>3. LogLocked' /\ Landing'
    BY <2>1 DEF LogLocked, Landing
  <2>4. Chained'
    BY <2>1, <2>2 DEF Chained
  <2> QED
    BY <2>3, <2>4
<1>13. ASSUME CrashLogs PROVE Kept
  <2>1. \A w \in Writer : writer'[w].pc = "idle"
    BY <1>13, CrashRests
  <2>2. head' = None /\ thread' = {} /\ UNCHANGED <<log, kept, cancels>>
    BY <1>13 DEF CrashLogs
  <2>3. LogLocked' /\ Landing'
    BY <2>1, <2>2 DEF LogLocked, Landing
  <2>4. Chained'
    BY <2>1, <2>2 DEF Chained
  <2> QED
    BY <2>3, <2>4
<1> QED
  BY <1>1, <1>2, <1>3, <1>4, <1>5, <1>6, <1>7, <1>8, <1>9, <1>10, <1>11, <1>12, <1>13 DEF WNext

\* Nobody else appends an event than who holds the lock.
LEMMA OneEvent ==
  ASSUME AuditLocked
  PROVE  /\ \A w \in Writer : auditLock = None => writer[w].pc \notin Busy
         /\ \A w, v \in Writer : writer[w].pc \in Busy /\ writer[v].pc \in Busy => v = w
BY LogsAssumption DEF AuditLocked

\* The one at work goes on, or rests.
LEMMA EventGoes ==
  ASSUME AuditLocked, NEW w \in Writer, NEW pc, NEW line, Goes(w, pc, line), writer[w].pc \in Busy,
         pc \notin Busy \/ auditLock' = auditLock
  PROVE  AuditLocked' /\ \A v \in Writer : writer'[v].pc \in Busy => v = w /\ pc \in Busy
<1>1. \A v \in Writer : writer'[v].pc \in Busy => v = w /\ pc \in Busy
  BY OneEvent DEF Goes
<1>2. auditLock = w
  BY DEF AuditLocked
<1> QED
  BY <1>1, <1>2 DEF AuditLocked

LEMMA BeginEventOrder ==
  ASSUME WTypes, AuditLocked, InOrder, NEW w \in Writer, BeginEvent(w)
  PROVE  AuditLocked' /\ InOrder'
<1>1. /\ auditLock = None /\ auditLock' = w
      /\ made.event \in Nat /\ made'.event = made.event + 1 /\ Goes(w, "file", made.event + 1)
      /\ UNCHANGED <<events, table, orphan, heard, cancels>>
  BY BeginEventMoves
<1>2. \A v \in Writer : writer'[v].pc \in Busy => v = w
  BY <1>1, OneEvent DEF Goes
<1>3. AuditLocked'
  BY <1>1, <1>2 DEF AuditLocked
<1>4. InOrder'
  <2> SUFFICES ASSUME cancels = 0 PROVE InOrder'
    BY <1>1 DEF InOrder
  <2>1. /\ Ordered(events) /\ Ordered(table) /\ orphan = {}
        /\ Below(events, made.event + 1) /\ Below(table, made.event + 1) /\ \A e \in heard : e.id <= made.event
        /\ \A e \in heard : Holds(events, e.id) /\ (e.primary = "sqlite" => Holds(table, e.id))
    BY DEF InOrder
  <2>2. Below(events, made'.event + 1) /\ Below(table, made'.event + 1)
    <3>1. \A s \in Seq(Nat) : Below(s, made.event + 1) => Below(s, made'.event + 1)
      BY <1>1 DEF Below
    <3> QED
      BY <2>1, <3>1 DEF WTypes
  <2>3. \A e \in heard : e.id \in Nat
    BY DEF WTypes
  <2>4. \A e \in heard : e.id <= made'.event /\ e.id < made'.event
    BY <2>1, <2>3, <1>1
  <2>5. writer'[w].pc = "file" /\ writer'[w].line = made'.event
    BY <1>1 DEF Goes
  <2>6. Below(events, made'.event) /\ Below(table, made'.event)
    BY <2>1, <1>1
  <2> QED
    BY <1>1, <1>2, <2>1, <2>2, <2>4, <2>5, <2>6 DEF InOrder
<1> QED
  BY <1>3, <1>4

LEMMA AppendEventOrder ==
  ASSUME WTypes, AuditLocked, InOrder, NEW w \in Writer, AppendEvent(w)
  PROVE  AuditLocked' /\ InOrder'
<1>1. /\ writer[w].pc = "file" /\ events' = Append(events, writer[w].line) /\ writer[w].line \in Nat
      /\ Goes(w, "trim", writer[w].line) \/ Goes(w, "row", writer[w].line)
      /\ UNCHANGED <<table, auditLock, orphan, heard, made, cancels>>
  BY AppendEventMoves
<1>2. writer[w].pc \in Busy
  BY <1>1 DEF Busy
<1>3. AuditLocked' /\ \A v \in Writer : writer'[v].pc \in Busy => v = w
  BY <1>1, <1>2, EventGoes
<1>4. InOrder'
  <2> SUFFICES ASSUME cancels = 0 PROVE InOrder'
    BY <1>1 DEF InOrder
  <2>1. /\ Ordered(events) /\ Ordered(table) /\ orphan = {}
        /\ Below(table, made.event + 1) /\ \A e \in heard : e.id <= made.event
        /\ \A e \in heard : Holds(events, e.id) /\ (e.primary = "sqlite" => Holds(table, e.id))
    BY DEF InOrder
  <2>2. /\ writer[w].line = made.event /\ Below(table, made.event) /\ \A e \in heard : e.id < made.event
        /\ Below(events, made.event)
    BY <1>1, <1>2 DEF InOrder
  <2>3. events \in Seq(Nat) /\ \A e \in heard : e.id \in Nat
    BY DEF WTypes
  <2>4. /\ Ordered(events') /\ Below(events', made.event + 1)
        /\ events' # <<>> /\ events'[Len(events')] = made.event
        /\ \A e \in heard : Holds(events', e.id)
    BY <1>1, <2>1, <2>2, <2>3, OrderedAppend
  <2>5. writer'[w].pc \in {"trim", "row"} /\ writer'[w].line = made.event
    BY <1>1, <2>2 DEF Goes
  <2> QED
    BY <1>1, <1>3, <2>1, <2>2, <2>4, <2>5 DEF InOrder
<1> QED
  BY <1>3, <1>4

LEMMA ReadForTrimOrder ==
  ASSUME WTypes, AuditLocked, InOrder, NEW w \in Writer, ReadForTrim(w)
  PROVE  AuditLocked' /\ InOrder'
<1>1. /\ writer[w].pc = "trim"
      /\ \/ Goes(w, "row", writer[w].line)
         \/ Goes(w, "replace", writer[w].line) /\ writer'[w].lines = events
      /\ UNCHANGED <<events, table, auditLock, orphan, heard, made, cancels>>
  BY ReadForTrimMoves
<1>2. writer[w].pc \in Busy
  BY <1>1 DEF Busy
<1>3. AuditLocked' /\ \A v \in Writer : writer'[v].pc \in Busy => v = w
  BY <1>1, <1>2, EventGoes
<1>4. InOrder'
  <2> SUFFICES ASSUME cancels = 0 PROVE InOrder'
    BY <1>1 DEF InOrder
  <2>1. /\ Ordered(events) /\ Ordered(table) /\ orphan = {}
        /\ Below(events, made.event + 1) /\ Below(table, made.event + 1) /\ \A e \in heard : e.id <= made.event
        /\ \A e \in heard : Holds(events, e.id) /\ (e.primary = "sqlite" => Holds(table, e.id))
    BY DEF InOrder
  <2>2. /\ writer[w].line = made.event /\ Below(table, made.event) /\ \A e \in heard : e.id < made.event
        /\ events # <<>> /\ events[Len(events)] = made.event
    BY <1>1, <1>2 DEF InOrder
  <2>3. /\ writer'[w].pc # "file" /\ writer'[w].line = made.event
        /\ writer'[w].pc = "replace" => writer'[w].lines = events
    BY <1>1, <2>2 DEF Goes
  <2> QED
    BY <1>1, <1>3, <2>1, <2>2, <2>3 DEF InOrder
<1> QED
  BY <1>3, <1>4

LEMMA TrimEventsOrder ==
  ASSUME WTypes, AuditLocked, InOrder, NEW w \in Writer, TrimEvents(w)
  PROVE  AuditLocked' /\ InOrder'
<1>1. /\ writer[w].pc = "replace" /\ events' = Newest(writer[w].lines) /\ Goes(w, "row", writer[w].line)
      /\ UNCHANGED <<table, auditLock, orphan, heard, made, cancels>>
  BY TrimEventsMoves
<1>2. writer[w].pc \in Busy
  BY <1>1 DEF Busy
<1>3. AuditLocked' /\ \A v \in Writer : writer'[v].pc \in Busy => v = w
  BY <1>1, <1>2, EventGoes
<1>4. InOrder'
  <2> SUFFICES ASSUME cancels = 0 PROVE InOrder'
    BY <1>1 DEF InOrder
  <2>1. /\ Ordered(events) /\ Ordered(table) /\ orphan = {}
        /\ Below(events, made.event + 1) /\ Below(table, made.event + 1) /\ \A e \in heard : e.id <= made.event
        /\ \A e \in heard : Holds(events, e.id) /\ (e.primary = "sqlite" => Holds(table, e.id))
    BY DEF InOrder
  <2>2. /\ writer[w].line = made.event /\ Below(table, made.event) /\ \A e \in heard : e.id < made.event
        /\ events # <<>> /\ events[Len(events)] = made.event /\ writer[w].lines = events
    BY <1>1, <1>2 DEF InOrder
  <2>3. events \in Seq(Nat) /\ made.event + 1 \in Nat /\ \A e \in heard : e.id \in Nat
    BY DEF WTypes
  <2>4. /\ Ordered(events') /\ Below(events', made.event + 1)
        /\ events' # <<>> /\ events'[Len(events')] = made.event
        /\ \A e \in heard : Holds(events', e.id)
    BY <1>1, <2>1, <2>2, <2>3, OrderedNewest
  <2>5. writer'[w].pc = "row" /\ writer'[w].line = made.event
    BY <1>1, <2>2 DEF Goes
  <2> QED
    BY <1>1, <1>3, <2>1, <2>2, <2>4, <2>5 DEF InOrder
<1> QED
  BY <1>3, <1>4

LEMMA InsertRowOrder ==
  ASSUME WTypes, AuditLocked, InOrder, NEW w \in Writer, InsertRow(w)
  PROVE  AuditLocked' /\ InOrder'
<1>1. /\ writer[w].pc = "row" /\ Goes(w, "idle", None)
      /\ \/ primary = "sqlite" /\ table' = Newest(Append(table, writer[w].line))
         \/ primary # "sqlite" /\ table' = table
      /\ heard' = heard \cup {[id |-> writer[w].line, primary |-> primary]}
      /\ UNCHANGED <<events, orphan, made, cancels>>
  BY InsertRowMoves
<1>2. writer[w].pc \in Busy /\ "idle" \notin Busy
  BY <1>1 DEF Busy
<1>3. AuditLocked' /\ \A v \in Writer : writer'[v].pc \notin Busy
  BY <1>1, <1>2, EventGoes
<1>4. InOrder'
  <2> SUFFICES ASSUME cancels = 0 PROVE InOrder'
    BY <1>1 DEF InOrder
  <2> DEFINE n == made.event
             new == [id |-> n, primary |-> primary]
             longer == Append(table, n)
  <2>1. /\ Ordered(events) /\ Ordered(table) /\ orphan = {}
        /\ Below(events, n + 1) /\ Below(table, n + 1) /\ \A e \in heard : e.id <= n
        /\ \A e \in heard : Holds(events, e.id) /\ (e.primary = "sqlite" => Holds(table, e.id))
    BY DEF InOrder
  <2>2. /\ writer[w].line = n /\ Below(table, n) /\ \A e \in heard : e.id < n
        /\ events # <<>> /\ events[Len(events)] = n
    BY <1>1, <1>2 DEF InOrder
  <2>3. n \in Nat /\ events \in Seq(Nat) /\ table \in Seq(Nat) /\ \A e \in heard : e.id \in Nat
    BY DEF WTypes
  <2>4. heard' = heard \cup {new} /\ new.id = n /\ new.primary = primary
    BY <1>1, <2>2
  <2> HIDE DEF new
  <2>5. Holds(events, n)
    <3>1. Len(events) \in 1..Len(events)
      BY <2>2, <2>3
    <3> QED
      BY <2>2, <3>1 DEF Holds
  <2>6. \A e \in heard' : e.id <= n /\ Holds(events, e.id)
    BY <2>1, <2>3, <2>4, <2>5
  <2>7. CASE primary = "sqlite" /\ table' = Newest(longer)
    <3>1. /\ longer \in Seq(Nat) /\ Ordered(longer) /\ Below(longer, n + 1) /\ Holds(longer, n)
          /\ \A h \in Nat : h < n /\ Holds(table, h) => Holds(longer, h)
      BY <2>1, <2>2, <2>3, OrderedAppend
    <3> HIDE DEF longer
    <3>2. n + 1 \in Nat
      BY <2>3
    <3>3. /\ Ordered(table') /\ Below(table', n + 1)
          /\ \A h \in Nat : Holds(longer, h) => Holds(table', h)
      BY <2>7, <3>1, <3>2, OrderedNewest
    <3>4. \A e \in heard' : e.primary = "sqlite" => Holds(table', e.id)
      BY <2>1, <2>2, <2>3, <2>4, <3>1, <3>3
    <3> QED
      BY <1>1, <1>3, <2>1, <2>6, <3>3, <3>4 DEF InOrder
  <2>8. CASE primary # "sqlite" /\ table' = table
    <3>1. \A e \in heard' : e.primary = "sqlite" => Holds(table', e.id)
      BY <2>1, <2>4, <2>8
    <3> QED
      BY <1>1, <1>3, <2>1, <2>6, <2>8, <3>1 DEF InOrder
  <2> QED
    BY <1>1, <2>2, <2>7, <2>8
<1> QED
  BY <1>3, <1>4

LEMMA CancelEventOrder ==
  ASSUME WTypes, AuditLocked, InOrder, NEW w \in Writer, CancelEvent(w)
  PROVE  AuditLocked' /\ InOrder'
<1>1. writer[w].pc \in Busy /\ Goes(w, "idle", None) /\ cancels' = cancels + 1
  BY CancelEventMoves
<1>2. "idle" \notin Busy /\ cancels' # 0
  BY <1>1 DEF Busy, WTypes
<1> QED
  BY <1>1, <1>2, EventGoes DEF InOrder

LEMMA OrphanOrder ==
  ASSUME WTypes, AuditLocked, InOrder, OrphanGoesOn
  PROVE  AuditLocked' /\ InOrder'
<1>1. UNCHANGED <<writer, auditLock, cancels>> /\ orphan # {}
  BY DEF OrphanGoesOn
<1>2. cancels # 0
  BY <1>1 DEF InOrder
<1> QED
  BY <1>1, <1>2 DEF AuditLocked, InOrder

LEMMA CrashOrder ==
  ASSUME InOrder, CrashLogs
  PROVE  AuditLocked' /\ InOrder'
<1>1. \A w \in Writer : writer'[w].pc \notin Busy
  BY CrashRests DEF Busy
<1>2. orphan' = {} /\ UNCHANGED <<events, table, heard, made, cancels>>
  BY DEF CrashLogs
<1> QED
  BY <1>1, <1>2 DEF AuditLocked, InOrder

\* How a step moves what bounds the file of the events.
LEMMA BeginEventRoom ==
  ASSUME WTypes, NEW w \in Writer, NEW x \in Nat, NEW y \in Nat, Room(x, y),
         BeginEvent(w) \/ InsertRow(w)
  PROVE  Room(x, y)'
<1>1. /\ writer[w].pc \notin {"trim", "replace"}
      /\ UNCHANGED <<events, sinceTrim, orphan, crashes, cancels>>
      /\ Goes(w, "file", made.event + 1) \/ Goes(w, "idle", None)
  BY BeginEventMoves, InsertRowMoves
<1>2. Trimming' <=> Trimming
  BY <1>1 DEF Trimming, Goes
<1>3. Pending' = Pending
  BY <1>1 DEF Pending
<1> QED
  BY <1>1, <1>2, <1>3 DEF Room

\* The restarts have their share of the room.
LEMMA RestartsRoom ==
  ASSUME WTypes
  PROVE  /\ crashes * TrimInterval \in Nat /\ (crashes + 1) * TrimInterval = crashes * TrimInterval + TrimInterval
         /\ sinceTrim \in Nat /\ cancels \in Nat /\ crashes \in Nat /\ Len(events) \in Nat
         /\ MaxEvents \in Nat \ {0} /\ TrimInterval \in Nat \ {0}
BY LogsAssumption DEF WTypes

LEMMA PendingFinite ==
  ASSUME WTypes
  PROVE  IsFiniteSet({o \in orphan : o.pc = "file"}) /\ Pending \in Nat
<1>1. IsFiniteSet(orphan) /\ {o \in orphan : o.pc = "file"} \in SUBSET orphan
  BY DEF WTypes
<1>2. IsFiniteSet({o \in orphan : o.pc = "file"})
  BY <1>1, FS_Subset
<1> QED
  BY <1>2, FS_CardinalityType DEF Pending

LEMMA AppendEventRoom ==
  ASSUME WTypes, AuditLocked, NEW w \in Writer, AppendEvent(w), NEW x \in Nat, NEW y \in Nat, Room(x, y)
  PROVE  Room(x, y)'
<1>1. /\ writer[w].pc = "file" /\ writer[w].line \in Nat
      /\ events' = Append(events, writer[w].line) /\ sinceTrim' = sinceTrim + 1
      /\ \/ sinceTrim + 1 >= TrimInterval /\ Goes(w, "trim", writer[w].line)
         \/ sinceTrim + 1 < TrimInterval /\ Goes(w, "row", writer[w].line)
      /\ UNCHANGED <<orphan, crashes, cancels>>
  BY AppendEventMoves
<1>2. ~ Trimming
  BY <1>1, OneEvent DEF Trimming, Busy
<1>3. Len(events') = Len(events) + 1
  BY <1>1 DEF WTypes
<1>4. Pending' = Pending /\ Pending \in Nat
  BY <1>1, PendingFinite DEF Pending
<1>5. Trimming' \/ sinceTrim + 1 < TrimInterval
  BY <1>1 DEF Trimming, Goes
<1> DEFINE share == crashes * TrimInterval
<1>6. share \in Nat /\ share' = share /\ sinceTrim \in Nat /\ Len(events) \in Nat /\ TrimInterval \in Nat /\ MaxEvents \in Nat
  BY <1>1, RestartsRoom
<1>7. /\ x + y <= cancels /\ Pending <= x /\ Len(events) + Pending <= MaxEvents + share + sinceTrim + x
      /\ sinceTrim < TrimInterval + y
  BY <1>2 DEF Room
<1> HIDE DEF share
<1>8. /\ x + y <= cancels' /\ Pending' <= x
      /\ Len(events') + Pending' <= MaxEvents + share' + sinceTrim' + x
      /\ sinceTrim' <= TrimInterval + y
  BY <1>1, <1>3, <1>4, <1>6, <1>7
<1>9. ~ Trimming' => sinceTrim' < TrimInterval + y
  BY <1>1, <1>5, <1>6
<1> QED
  BY <1>8, <1>9 DEF Room, share

\* A trim makes room.
LEMMA TrimmedRoom ==
  ASSUME WTypes, NEW x \in Nat, NEW y \in Nat, Room(x, y),
         UNCHANGED <<orphan, crashes, cancels>>, Len(events') \in Nat, Len(events') <= MaxEvents, sinceTrim' = 0
  PROVE  Room(x, y)'
<1>1. Pending' = Pending /\ Pending \in Nat
  BY PendingFinite DEF Pending
<1> DEFINE share == crashes * TrimInterval
<1>2. share \in Nat /\ share' = share /\ TrimInterval \in Nat \ {0} /\ MaxEvents \in Nat
  BY RestartsRoom
<1>3. x + y <= cancels /\ Pending <= x
  BY DEF Room
<1> HIDE DEF share
<1>4. /\ Len(events') + Pending' <= MaxEvents + share' + sinceTrim' + x
      /\ sinceTrim' < TrimInterval + y /\ sinceTrim' <= TrimInterval + y
  BY <1>1, <1>2, <1>3
<1> QED
  BY <1>1, <1>3, <1>4 DEF Room, share

LEMMA ReadForTrimRoom ==
  ASSUME WTypes, NEW w \in Writer, ReadForTrim(w), NEW x \in Nat, NEW y \in Nat, Room(x, y)
  PROVE  Room(x, y)'
<1>1. /\ writer[w].pc = "trim"
      /\ \/ Len(events) <= MaxEvents /\ sinceTrim' = 0
         \/ sinceTrim' = sinceTrim /\ Goes(w, "replace", writer[w].line)
      /\ UNCHANGED <<events, orphan, crashes, cancels>>
  BY ReadForTrimMoves
<1>2. CASE Len(events) <= MaxEvents /\ sinceTrim' = 0
  BY <1>1, <1>2, TrimmedRoom DEF WTypes
<1>3. CASE sinceTrim' = sinceTrim /\ Goes(w, "replace", writer[w].line)
  <2>1. Trimming /\ Trimming'
    BY <1>1, <1>3 DEF Trimming, Goes
  <2>2. Pending' = Pending
    BY <1>1 DEF Pending
  <2> QED
    BY <1>1, <1>3, <2>1, <2>2 DEF Room
<1> QED
  BY <1>1, <1>2, <1>3

LEMMA TrimEventsRoom ==
  ASSUME WTypes, NEW w \in Writer, TrimEvents(w), NEW x \in Nat, NEW y \in Nat, Room(x, y)
  PROVE  Room(x, y)'
<1>1. /\ writer[w].lines \in Seq(Nat) /\ events' = Newest(writer[w].lines) /\ sinceTrim' = 0
      /\ UNCHANGED <<orphan, crashes, cancels>>
  BY TrimEventsMoves
<1>2. events' \in Seq(Nat) /\ Len(events') <= MaxEvents
  BY <1>1, NewestOf
<1> QED
  BY <1>1, <1>2, TrimmedRoom

\* A cancelled append is one more line, or one more write that is not counted.
LEMMA CancelEventRoom ==
  ASSUME WTypes, AuditLocked, NEW w \in Writer, CancelEvent(w), NEW x \in Nat, NEW y \in Nat, Room(x, y)
  PROVE  \E p, q \in Nat : Room(p, q)'
<1>1. /\ writer[w].pc \in Busy
      /\ orphan' = orphan \cup {writer[w]} \/ orphan' = orphan
      /\ cancels' = cancels + 1 /\ Goes(w, "idle", None)
      /\ UNCHANGED <<events, sinceTrim, crashes>>
  BY CancelEventMoves
<1> DEFINE share == crashes * TrimInterval
<1>2. /\ share \in Nat /\ share' = share /\ sinceTrim \in Nat /\ cancels \in Nat /\ Len(events) \in Nat
      /\ TrimInterval \in Nat /\ MaxEvents \in Nat
  BY <1>1, RestartsRoom
<1>3. Pending \in Nat /\ IsFiniteSet({o \in orphan : o.pc = "file"})
  BY PendingFinite
<1>4. /\ x + y <= cancels /\ Pending <= x /\ Len(events) + Pending <= MaxEvents + share + sinceTrim + x
      /\ sinceTrim <= TrimInterval + y /\ (~ Trimming => sinceTrim < TrimInterval + y)
  BY DEF Room
<1> HIDE DEF share
<1>5. CASE writer[w].pc = "file"
  <2>1. ~ Trimming
    BY <1>1, <1>5, OneEvent DEF Trimming, Busy
  <2>2. Pending' \in Nat /\ Pending' <= Pending + 1
    <3>1. CASE orphan' = orphan \cup {writer[w]}
      <4>1. {o \in orphan' : o.pc = "file"} = {o \in orphan : o.pc = "file"} \cup {writer[w]}
        BY <1>5, <3>1
      <4>2. Pending' = Cardinality({o \in orphan : o.pc = "file"} \cup {writer[w]})
        BY <4>1 DEF Pending
      <4>3. Pending = Cardinality({o \in orphan : o.pc = "file"})
        BY DEF Pending
      <4>4. Pending' \in {Pending, Pending + 1}
        BY <4>2, <4>3, <1>3, FS_AddElement
      <4> QED
        BY <4>4, <1>3
    <3>2. CASE orphan' = orphan
      <4>1. Pending' = Pending
        BY <3>2 DEF Pending
      <4> QED
        BY <4>1, <1>3
    <3> QED
      BY <1>1, <3>1, <3>2
  <2>3. /\ (x + 1) + y <= cancels' /\ Pending' <= x + 1
        /\ Len(events') + Pending' <= MaxEvents + share' + sinceTrim' + (x + 1)
        /\ sinceTrim' <= TrimInterval + y /\ sinceTrim' < TrimInterval + y
    BY <1>1, <1>2, <1>3, <1>4, <2>1, <2>2
  <2>4. Room(x + 1, y)'
    BY <2>3 DEF Room, share
  <2> QED
    BY <2>4
<1>6. CASE writer[w].pc # "file"
  <2>1. Pending' = Pending
    <3>1. {o \in orphan' : o.pc = "file"} = {o \in orphan : o.pc = "file"}
      BY <1>1, <1>6
    <3> QED
      BY <3>1 DEF Pending
  <2>2. /\ x + (y + 1) <= cancels' /\ Pending' <= x
        /\ Len(events') + Pending' <= MaxEvents + share' + sinceTrim' + x
        /\ sinceTrim' <= TrimInterval + (y + 1) /\ sinceTrim' < TrimInterval + (y + 1)
    BY <1>1, <1>2, <1>3, <1>4, <2>1, SMTT(40)
  <2>3. Room(x, y + 1)'
    BY <2>2 DEF Room, share
  <2> QED
    BY <2>3
<1> QED
  BY <1>5, <1>6

LEMMA OrphanRoom ==
  ASSUME WTypes, OrphanGoesOn, NEW x \in Nat, NEW y \in Nat, Room(x, y)
  PROVE  Room(x, y)'
<1>1. UNCHANGED <<writer, sinceTrim, crashes, cancels>>
  BY DEF OrphanGoesOn
<1> DEFINE share == crashes * TrimInterval
           files == {o \in orphan : o.pc = "file"}
<1>2. /\ share \in Nat /\ share' = share /\ sinceTrim \in Nat /\ cancels \in Nat /\ Len(events) \in Nat
      /\ TrimInterval \in Nat /\ MaxEvents \in Nat
  BY <1>1, RestartsRoom
<1>3. Pending \in Nat /\ IsFiniteSet(files) /\ Pending = Cardinality(files)
  BY PendingFinite DEF Pending
<1>4. /\ x + y <= cancels /\ Pending <= x /\ Len(events) + Pending <= MaxEvents + share + sinceTrim + x
      /\ sinceTrim <= TrimInterval + y /\ (~ Trimming => sinceTrim < TrimInterval + y)
  BY DEF Room
<1>5. Trimming' <=> Trimming
  BY <1>1 DEF Trimming
<1> HIDE DEF share
<1>6. SUFFICES Pending' <= x /\ Len(events') + Pending' <= MaxEvents + share' + sinceTrim' + x
  BY <1>1, <1>4, <1>5 DEF Room, share
<1>7. PICK o \in orphan :
       \/ o.pc = "file" /\ events' = Append(events, o.line) /\ orphan' = orphan \ {o}
       \/ /\ o.pc = "trim" /\ UNCHANGED events
          /\ orphan' = (orphan \ {o}) \cup {[o EXCEPT !.pc = "replace", !.lines = events]}
       \/ o.pc = "replace" /\ events' = Newest(o.lines) /\ orphan' = orphan \ {o}
       \/ o.pc = "row" /\ UNCHANGED events /\ orphan' = orphan \ {o}
  BY DEF OrphanGoesOn
<1>8. o \in Works /\ o.line \in Nat /\ o.lines \in Seq(Nat)
  BY DEF WTypes, Works
<1>9. CASE o.pc = "file" /\ events' = Append(events, o.line) /\ orphan' = orphan \ {o}
  <2>1. {p \in orphan' : p.pc = "file"} = files \ {o} /\ o \in files
    BY <1>9
  <2>2. Pending' = Cardinality(files \ {o})
    BY <2>1 DEF Pending
  <2>3. Pending' = Pending - 1
    BY <2>1, <2>2, <1>3, FS_RemoveElement
  <2>4. Len(events') = Len(events) + 1
    BY <1>8, <1>9 DEF WTypes
  <2> QED
    BY <1>1, <1>2, <1>3, <1>4, <2>3, <2>4
<1>10. CASE o.pc # "file"
  <2> DEFINE next == [o EXCEPT !.pc = "replace", !.lines = events]
  <2>1. next.pc # "file"
    BY <1>8 DEF Works
  <2>2. orphan' = orphan \ {o} \/ orphan' = (orphan \ {o}) \cup {next}
    BY <1>7
  <2> HIDE DEF next
  <2>3. {p \in orphan' : p.pc = "file"} = files
    BY <2>1, <2>2, <1>10
  <2>4. Pending' = Pending
    BY <2>3 DEF Pending
  <2>5. CASE UNCHANGED events
    BY <1>1, <1>2, <1>3, <1>4, <2>4, <2>5
  <2>6. CASE events' = Newest(o.lines)
    <3>1. Len(events') \in Nat /\ Len(events') <= MaxEvents
      BY <2>6, <1>8, NewestOf
    <3> QED
      BY <1>1, <1>2, <1>3, <1>4, <2>4, <3>1
  <2> QED
    BY <1>7, <1>10, <2>5, <2>6
<1> QED
  BY <1>7, <1>9, <1>10

\* A restart forgets what was counted: the file may grow by another interval.
LEMMA CrashRoom ==
  ASSUME WTypes, CrashLogs, NEW x \in Nat, NEW y \in Nat, Room(x, y)
  PROVE  Room(x + y, 0)'
<1>1. /\ crashes' = crashes + 1 /\ sinceTrim' = 0 /\ orphan' = {}
      /\ UNCHANGED <<events, cancels>>
  BY DEF CrashLogs
<1> DEFINE share == crashes * TrimInterval
<1>2. /\ share \in Nat /\ share' = share + TrimInterval /\ sinceTrim \in Nat /\ cancels \in Nat
      /\ Len(events) \in Nat /\ TrimInterval \in Nat \ {0} /\ MaxEvents \in Nat
  BY <1>1, RestartsRoom
<1>3. Pending \in Nat
  BY PendingFinite
<1>4. Pending' = 0
  <2>1. {o \in orphan' : o.pc = "file"} = {}
    BY <1>1
  <2> QED
    BY <2>1, FS_EmptySet DEF Pending
<1>5. /\ x + y <= cancels /\ Pending <= x /\ Len(events) + Pending <= MaxEvents + share + sinceTrim + x
      /\ sinceTrim <= TrimInterval + y
  BY DEF Room
<1> HIDE DEF share
<1>6. /\ (x + y) + 0 <= cancels' /\ Pending' <= x + y
      /\ Len(events') + Pending' <= MaxEvents + share' + sinceTrim' + (x + y)
      /\ sinceTrim' <= TrimInterval + 0 /\ sinceTrim' < TrimInterval + 0
  BY <1>1, <1>2, <1>3, <1>4, <1>5
<1> QED
  BY <1>6 DEF Room, share

LEMMA AuditKept ==
  ASSUME WTypes, AuditLocked, InOrder, WNext, NEW x \in Nat, NEW y \in Nat, Room(x, y)
  PROVE  AuditLocked' /\ InOrder' /\ \E p, q \in Nat : Room(p, q)'
<1> DEFINE Kept == AuditLocked' /\ InOrder' /\ \E p, q \in Nat : Room(p, q)'
<1>1. ASSUME NEW w \in Writer, BeginReceipt(w) PROVE Kept
  <2>1. /\ writer[w].pc \notin Busy /\ UNCHANGED auditVars /\ UNCHANGED <<crashes, cancels>> /\ Numbered
        /\ \E pc, line : Goes(w, pc, line) /\ pc \notin Busy
    BY <1>1, BeginReceiptMoves DEF Takes, Busy
  <2> QED
    BY <2>1, AuditAlone DEF Numbered
<1>2. ASSUME NEW w \in Writer, ReadHead(w) PROVE Kept
  <2>1. /\ writer[w].pc \notin Busy /\ UNCHANGED auditVars /\ UNCHANGED <<crashes, cancels>> /\ Numbered
        /\ \E pc, line : Goes(w, pc, line) /\ pc \notin Busy
    BY <1>2, ReadHeadMoves DEF Takes, Busy
  <2> QED
    BY <2>1, AuditAlone DEF Numbered
<1>3. ASSUME NEW w \in Writer, EndReceipt(w) PROVE Kept
  <2>1. /\ writer[w].pc \notin Busy /\ UNCHANGED auditVars /\ UNCHANGED <<crashes, cancels>> /\ Numbered
        /\ Goes(w, "idle", None) /\ "idle" \notin Busy
    BY <1>3, EndReceiptMoves DEF Busy
  <2> QED
    BY <2>1, AuditAlone DEF Numbered
<1>4. ASSUME NEW w \in Writer, CancelReceipt(w) PROVE Kept
  <2>1. /\ writer[w].pc \notin Busy /\ UNCHANGED auditVars /\ UNCHANGED crashes /\ cancels' = cancels + 1
        /\ Numbered /\ Goes(w, "idle", None) /\ "idle" \notin Busy
    BY <1>4, CancelReceiptMoves DEF Busy
  <2> QED
    BY <2>1, AuditAlone DEF Numbered
<1>5. ASSUME NEW w \in Writer, BeginEvent(w) PROVE Kept
  BY <1>5, BeginEventOrder, BeginEventRoom
<1>6. ASSUME NEW w \in Writer, AppendEvent(w) PROVE Kept
  BY <1>6, AppendEventOrder, AppendEventRoom
<1>7. ASSUME NEW w \in Writer, ReadForTrim(w) PROVE Kept
  BY <1>7, ReadForTrimOrder, ReadForTrimRoom
<1>8. ASSUME NEW w \in Writer, TrimEvents(w) PROVE Kept
  BY <1>8, TrimEventsOrder, TrimEventsRoom
<1>9. ASSUME NEW w \in Writer, InsertRow(w) PROVE Kept
  BY <1>9, InsertRowOrder, BeginEventRoom
<1>10. ASSUME NEW w \in Writer, CancelEvent(w) PROVE Kept
  BY <1>10, CancelEventOrder, CancelEventRoom
<1>11. ASSUME ThreadWrites PROVE Kept
  <2>1. UNCHANGED <<writer, auditVars, made, crashes, cancels>>
    BY <1>11 DEF ThreadWrites
  <2>2. AuditLocked'
    BY <2>1 DEF AuditLocked, auditVars
  <2>3. InOrder'
    BY <2>1 DEF InOrder, auditVars
  <2>4. Pending' = Pending /\ (Trimming' <=> Trimming)
    BY <2>1 DEF Pending, Trimming, auditVars
  <2>5. Room(x, y)'
    BY <2>1, <2>4 DEF Room, auditVars
  <2> QED
    BY <2>2, <2>3, <2>5
<1>12. ASSUME OrphanGoesOn PROVE Kept
  BY <1>12, OrphanOrder, OrphanRoom
<1>13. ASSUME CrashLogs PROVE Kept
  <2>1. Room(x + y, 0)' /\ x + y \in Nat
    BY <1>13, CrashRoom
  <2> QED
    BY <1>13, <2>1, CrashOrder
<1> QED
  BY <1>1, <1>2, <1>3, <1>4, <1>5, <1>6, <1>7, <1>8, <1>9, <1>10, <1>11, <1>12, <1>13 DEF WNext

LEMMA WInvInit == WInit => WInv
<1> SUFFICES ASSUME WInit PROVE WInv
  OBVIOUS
<1>1. WTypes
  BY WTypesInit
<1>2. /\ log = <<>> /\ head = None /\ thread = {} /\ kept = {}
      /\ events = <<>> /\ table = <<>> /\ sinceTrim = 0 /\ orphan = {} /\ heard = {}
      /\ crashes = 0 /\ cancels = 0 /\ made.event = 0
  BY DEF WInit
<1>3. \A w \in Writer : writer[w].pc = "idle"
  BY RestingWorks DEF WInit
<1>4. LogLocked /\ AuditLocked /\ Landing
  BY <1>2, <1>3 DEF LogLocked, AuditLocked, Landing, Busy
<1>5. Chained
  BY <1>2, <1>3 DEF Chained, Verified
<1>6. InOrder
  BY <1>2, <1>3 DEF InOrder, Ordered, Below, Busy
<1>7. Room(0, 0)
  <2>1. Pending = 0
    <3>1. {o \in orphan : o.pc = "file"} = {}
      BY <1>2
    <3> QED
      BY <3>1, FS_EmptySet DEF Pending
  <2>2. Len(events) = 0 /\ crashes * TrimInterval \in Nat /\ MaxEvents \in Nat /\ TrimInterval \in Nat \ {0}
    BY <1>1, <1>2, RestartsRoom
  <2> QED
    BY <1>2, <2>1, <2>2 DEF Room
<1> QED
  BY <1>1, <1>4, <1>5, <1>6, <1>7 DEF WInv

LEMMA WInvKept == WInv /\ [WNext]_wvars => WInv'
<1> SUFFICES ASSUME WInv, [WNext]_wvars PROVE WInv'
  OBVIOUS
<1>1. WTypes /\ LogLocked /\ AuditLocked /\ Landing /\ Chained /\ InOrder
  BY DEF WInv
<1>2. PICK x \in Nat, y \in Nat : Room(x, y)
  BY DEF WInv
<1>3. CASE WNext
  <2>1. WTypes' /\ LogLocked' /\ Landing' /\ Chained'
    BY <1>1, <1>3, WTypesKept, LogKept
  <2>2. AuditLocked' /\ InOrder' /\ \E p, q \in Nat : Room(p, q)'
    BY <1>1, <1>2, <1>3, AuditKept
  <2> QED
    BY <2>1, <2>2 DEF WInv
<1>4. CASE UNCHANGED wvars
  <2>1. /\ UNCHANGED receiptVars /\ UNCHANGED auditVars /\ UNCHANGED <<writer, made, crashes, cancels>>
    BY <1>4 DEF wvars, receiptVars, auditVars
  <2>2. WTypes' /\ LogLocked' /\ AuditLocked' /\ Landing'
    BY <1>1, <2>1 DEF WTypes, AtWork, LogLocked, AuditLocked, Landing, receiptVars, auditVars
  <2>3. LastHash' = LastHash /\ Pending' = Pending /\ (Trimming' <=> Trimming)
    BY <2>1 DEF LastHash, Pending, Trimming, receiptVars, auditVars
  <2>4. Chained'
    BY <1>1, <2>1, <2>3 DEF Chained, receiptVars
  <2>5. InOrder'
    BY <1>1, <2>1 DEF InOrder, auditVars
  <2>6. Room(x, y)'
    BY <1>2, <2>1, <2>3 DEF Room, auditVars
  <2> QED
    BY <2>2, <2>4, <2>5, <2>6 DEF WInv
<1> QED
  BY <1>3, <1>4

LEMMA WInvariant == WSpec => []WInv
BY WInvInit, WInvKept, PTL DEF WSpec

\* The receipts of a scope verify end to end as long as no append was cancelled, and no receipt
\* whose append returned is ever missing, whatever interleaves, restarts or is cancelled
\* (witness.WitnessRecorder.append, _read_last_hash).
THEOREM ReceiptsSafe == WSpec => []ReceiptsKept
<1>1. WInv => ReceiptsKept
  BY DEF WInv, Chained, Landing, ReceiptsKept
<1> QED
  BY <1>1, WInvariant, PTL

\* No trim and no retention takes an event that list should still answer, and the file is trimmed
\* often enough, however many restarts and cancellations come between (audit.AuditStore.append,
\* _trim_sync, _append_sync).
THEOREM EventsSafe == WSpec => []EventsKept
<1>1. ASSUME WInv PROVE NewestEventsListed
  <2> SUFFICES ASSUME cancels = 0 PROVE NewestEventsListed
    BY DEF NewestEventsListed
  <2>1. /\ Ordered(events) /\ Ordered(table) /\ events \in Seq(Nat) /\ table \in Seq(Nat)
        /\ \A e \in heard : /\ e.id \in Nat /\ Holds(events, e.id)
                            /\ e.primary = "sqlite" => Holds(table, e.id)
    BY <1>1 DEF WInv, InOrder, WTypes
  <2> DEFINE Answers(s) ==
        /\ \A i, j \in DOMAIN s : i < j => s[i] > s[j]
        /\ \A e \in heard : (primary = "file" \/ e.primary = "sqlite") =>
             \/ \E i \in DOMAIN s : s[i] = e.id
             \/ Len(s) = MaxEvents /\ \A i \in 1..MaxEvents : s[i] > e.id
  <2>2. CASE primary = "sqlite"
    <3>1. list(MaxEvents) = FirstOf(MaxEvents, Reverse(table))
      BY <2>2 DEF list, ListedByTable
    <3>2. Answers(FirstOf(MaxEvents, Reverse(table)))
      BY <2>1, <2>2, HeldIsListed
    <3> QED
      BY <3>1, <3>2 DEF NewestEventsListed
  <2>3. CASE primary # "sqlite"
    <3>1. list(MaxEvents) = FirstOf(MaxEvents, Reverse(events))
      BY <2>3 DEF list, ListedByFile
    <3>2. Answers(FirstOf(MaxEvents, Reverse(events)))
      BY <2>1, HeldIsListed
    <3> QED
      BY <3>1, <3>2 DEF NewestEventsListed
  <2> QED
    BY <2>2, <2>3
<1>2. ASSUME WInv PROVE EventsFileBounded
  <2>1. PICK x \in Nat, y \in Nat : Room(x, y)
    BY <1>2 DEF WInv
  <2> DEFINE share == crashes * TrimInterval
  <2>2. /\ share \in Nat /\ (crashes + 1) * TrimInterval = share + TrimInterval
        /\ sinceTrim \in Nat /\ cancels \in Nat /\ Len(events) \in Nat
        /\ MaxEvents \in Nat /\ TrimInterval \in Nat /\ Pending \in Nat
    BY <1>2, RestartsRoom, PendingFinite DEF WInv
  <2>3. /\ x + y <= cancels /\ Len(events) + Pending <= MaxEvents + share + sinceTrim + x
        /\ sinceTrim <= TrimInterval + y
    BY <2>1 DEF Room
  <2> HIDE DEF share
  <2>4. Len(events) <= MaxEvents + (share + TrimInterval) + cancels
    BY <2>2, <2>3
  <2> QED
    BY <2>2, <2>4 DEF EventsFileBounded
<1>3. WInv => EventsKept
  BY <1>1, <1>2 DEF EventsKept
<1> QED
  BY <1>3, WInvariant, PTL

-----------------------------------------------------------------------------
(***************************************************************************)
(* The limiter, for any number of callers, buckets and evictions, however  *)
(* the clock goes.                                                         *)
(*                                                                         *)
(* What the properties lack to be inductive: a key has one bucket and none *)
(* holds more than the limit (OneBucketEach); the bucket of a key holds    *)
(* the last times at which it was let through, all but those that left the *)
(* window or went with an evicted bucket (Accounts); and what a refusal    *)
(* said still covers the oldest time in a bucket that is full (Promises).  *)
(***************************************************************************)

Buckets == [key : Keys, times : Seq(Nat)]

LTypes ==
  /\ buckets \in Seq(Buckets) /\ now \in Nat
  /\ admitted \in [Keys -> Seq(Nat)]
  /\ evictedAt \in [Keys -> Nat \cup {None}] /\ promise \in [Keys -> Nat \cup {None}]

\* A key has one bucket, and no bucket holds more than the limit.
OneBucketEach ==
  /\ Len(buckets) <= MaxBuckets
  /\ \A i, j \in 1..Len(buckets) : buckets[i].key = buckets[j].key => i = j
  /\ \A i \in 1..Len(buckets) : Len(buckets[i].times) <= Limit

\* The bucket of a key holds the last times at which it was let through; those before them are
\* out of the window, or were evicted.
Accounted(k, times) ==
  LET all == admitted[k]
      before == Len(all) - Len(times)
  IN /\ Len(times) <= Len(all) /\ \A j \in 1..Len(times) : times[j] = all[before + j]
     /\ \A i \in 1..before : all[i] + Window <= now \/ (evictedAt[k] # None /\ all[i] <= evictedAt[k])
Accounts ==
  /\ \A i \in 1..Len(buckets) : Accounted(buckets[i].key, buckets[i].times)
  /\ \A k \in Keys : Position(k) = {} => Accounted(k, <<>>)
  /\ \A k \in Keys : \A i \in 1..Len(admitted[k]) : admitted[k][i] <= now

\* When a caller comes back as it was told to, the first of the times it was refused for is out.
Promises ==
  \A i \in 1..Len(buckets) : promise[buckets[i].key] # None =>
    Len(buckets[i].times) < Limit \/ buckets[i].times[1] + Window <= promise[buckets[i].key]

LInv == LTypes /\ OneBucketEach /\ Accounts /\ Promises

-----------------------------------------------------------------------------
(* What is left of a bucket once it is pruned, and once another made room.   *)

\* A set of numbers that is not empty has a least element.
LEMMA LeastOf ==
  ASSUME NEW S \in SUBSET Nat, S # {}
  PROVE  Min(S) \in S /\ \A m \in S : Min(S) <= m
<1> DEFINE Under == {p \in Nat \X Nat : p[1] < p[2]}
<1>1. IsWellFoundedOn(Under, Nat)
  BY NatLessThanWellFounded DEF OpToRel
<1>2. PICK n \in S : \A m \in S : ~(<<m, n>> \in Under)
  <2> HIDE DEF Under
  <2> QED
    BY <1>1, WFMin
<1>3. ASSUME NEW m \in S PROVE n <= m
  <2>1. ~(<<m, n>> \in Under)
    BY <1>2
  <2> QED
    BY <2>1
<1> QED
  BY <1>2, <1>3 DEF Min

\* What is left of a bucket when it is pruned: all from the first time on that is in the window.
LEMMA LiveFacts ==
  ASSUME now \in Nat, NEW times \in Seq(Nat)
  PROVE  \E f \in 1..Len(times) + 1 :
           /\ \A i \in 1 .. f - 1 : times[i] + Window <= now
           /\ f <= Len(times) => times[f] + Window > now
           /\ Live(times) \in Seq(Nat) /\ Len(Live(times)) = Len(times) - f + 1
           /\ \A i \in 1..Len(Live(times)) : Live(times)[i] = times[f + i - 1]
<1> DEFINE n == Len(times)  S == {i \in DOMAIN times : times[i] + Window > now} \cup {n + 1}  f == Min(S)
<1>1. n \in Nat /\ DOMAIN times = 1..n /\ Window \in Nat /\ \A i \in 1..n : times[i] \in Nat
  BY LimitsAssumption
<1>2. S \in SUBSET Nat /\ n + 1 \in S /\ \A i \in S : i \in 1..n + 1
  BY <1>1
<1>3. f \in S /\ \A m \in S : f <= m
  <2> HIDE DEF S
  <2> QED
    BY <1>2, LeastOf
<1>4. Live(times) = SubSeq(times, f, n)
  BY DEF Live, FirstLive
<1>5. f \in 1..n + 1
  BY <1>2, <1>3
<1>6. \A i \in 1 .. f - 1 : times[i] + Window <= now
  <2> SUFFICES ASSUME NEW i \in 1 .. f - 1, ~ (times[i] + Window <= now) PROVE FALSE
    OBVIOUS
  <2>1. i \in 1..n /\ ~ (f <= i)
    BY <1>1, <1>5
  <2>2. times[i] + Window > now
    BY <1>1, <2>1
  <2>3. i \in S
    BY <1>1, <2>1, <2>2
  <2> QED
    BY <1>3, <2>1, <2>3
<1>7. f <= n => times[f] + Window > now
  BY <1>1, <1>3
<1> HIDE DEF S, f, n
<1>8. /\ Live(times) \in Seq(Nat) /\ Len(Live(times)) = n - f + 1
      /\ \A i \in 1..n - f + 1 : Live(times)[i] = times[f + i - 1]
  <2>1. \A i \in f .. n : times[i] \in Nat
    BY <1>1, <1>5
  <2>2. /\ SubSeq(times, f, n) \in Seq(Nat) /\ Len(SubSeq(times, f, n)) = (IF f <= n THEN n - f + 1 ELSE 0)
        /\ \A i \in 1 .. n - f + 1 : SubSeq(times, f, n)[i] = times[f + i - 1]
    BY <1>1, <1>5, <2>1, SubSeqProperties
  <2>3. (IF f <= n THEN n - f + 1 ELSE 0) = n - f + 1
    BY <1>1, <1>5
  <2> QED
    BY <1>4, <2>2, <2>3
<1> QED
  BY <1>5, <1>6, <1>7, <1>8 DEF n

LEMMA LiveShorter ==
  ASSUME now \in Nat, NEW times \in Seq(Nat)
  PROVE  /\ Live(times) \in Seq(Nat) /\ Len(Live(times)) <= Len(times)
         /\ Len(Live(times)) = Len(times) => Live(times) = times
         /\ Live(times) # <<>> => Live(times)[1] + Window > now
<1>1. PICK f \in 1..Len(times) + 1 :
           /\ f <= Len(times) => times[f] + Window > now
           /\ Live(times) \in Seq(Nat) /\ Len(Live(times)) = Len(times) - f + 1
           /\ \A i \in 1..Len(Live(times)) : Live(times)[i] = times[f + i - 1]
  BY LiveFacts
<1>2. Len(times) \in Nat
  OBVIOUS
<1>3. Len(Live(times)) <= Len(times)
  BY <1>1, <1>2
<1>4. ASSUME Len(Live(times)) = Len(times) PROVE Live(times) = times
  <2>1. f = 1
    BY <1>1, <1>2, <1>4
  <2>2. \A i \in 1..Len(times) : Live(times)[i] = times[i]
    <3>1. \A i \in 1..Len(times) : f + i - 1 = i
      BY <2>1
    <3> QED
      BY <1>1, <1>4, <3>1
  <2> QED
    BY <1>1, <1>4, <2>2, SeqEqual
<1>5. ASSUME Live(times) # <<>> PROVE Live(times)[1] + Window > now
  <2>1. Len(Live(times)) \in Nat \ {0}
    BY <1>1, <1>5
  <2>2. f <= Len(times) /\ f + 1 - 1 = f /\ 1 \in 1..Len(Live(times))
    BY <1>1, <1>2, <2>1
  <2>3. Live(times)[1] = times[f + 1 - 1]
    BY <1>1, <2>2
  <2> QED
    BY <1>1, <2>2, <2>3
<1> QED
  BY <1>1, <1>3, <1>4, <1>5

LEMMA AccountedIn ==
  ASSUME LTypes, NEW k \in Keys, NEW times \in Seq(Nat)
  PROVE  Accounted(k, times) <=>
           /\ Len(times) <= Len(admitted[k])
           /\ \A j \in 1..Len(times) : times[j] = admitted[k][Len(admitted[k]) - Len(times) + j]
           /\ \A i \in 1..Len(admitted[k]) - Len(times) :
                \/ admitted[k][i] + Window <= now
                \/ evictedAt[k] # None /\ admitted[k][i] <= evictedAt[k]
BY DEF Accounted

\* What is pruned is out of the window.
LEMMA PrunedAccounted ==
  ASSUME LTypes, NEW k \in Keys, NEW times \in Seq(Nat), Accounted(k, times)
  PROVE  Accounted(k, Live(times))
<1> DEFINE a == admitted[k]  m == Len(times)  n == Len(a)  live == Live(times)
<1>1. a \in Seq(Nat) /\ n \in Nat /\ m \in Nat /\ m <= n
  BY AccountedIn DEF LTypes
<1>2. PICK f \in 1..m + 1 : /\ \A i \in 1 .. f - 1 : times[i] + Window <= now
                            /\ live \in Seq(Nat) /\ Len(live) = m - f + 1
                            /\ \A i \in 1..Len(live) : live[i] = times[f + i - 1]
  BY LiveFacts DEF LTypes
<1>3. \A j \in 1..m : times[j] = a[n - m + j]
  BY AccountedIn
<1>4. \A i \in 1 .. n - m : a[i] + Window <= now \/ (evictedAt[k] # None /\ a[i] <= evictedAt[k])
  BY AccountedIn
<1> HIDE DEF a, m, n, live
<1>5. Len(live) <= n
  BY <1>1, <1>2
<1>6. \A j \in 1..Len(live) : live[j] = a[n - Len(live) + j]
  <2> SUFFICES ASSUME NEW j \in 1..Len(live) PROVE live[j] = a[n - Len(live) + j]
    OBVIOUS
  <2>1. f + j - 1 \in 1..m /\ n - m + (f + j - 1) = n - Len(live) + j
    BY <1>1, <1>2
  <2>2. live[j] = times[f + j - 1] /\ times[f + j - 1] = a[n - m + (f + j - 1)]
    BY <1>2, <1>3, <2>1
  <2> QED
    BY <2>1, <2>2
<1>7. \A i \in 1 .. n - Len(live) : a[i] + Window <= now \/ (evictedAt[k] # None /\ a[i] <= evictedAt[k])
  <2> SUFFICES ASSUME NEW i \in 1 .. n - Len(live), i \notin 1 .. n - m PROVE a[i] + Window <= now
    BY <1>4
  <2>1. i - (n - m) \in 1 .. f - 1 /\ i - (n - m) \in 1..m /\ n - m + (i - (n - m)) = i
    BY <1>1, <1>2
  <2>2. times[i - (n - m)] = a[n - m + (i - (n - m))]
    BY <1>3, <2>1
  <2> QED
    BY <1>2, <2>1, <2>2
<1> QED
  BY <1>2, <1>5, <1>6, <1>7, AccountedIn DEF a, n, live

\* A caller is let through: its bucket, which has been pruned, and what is known of it both grow.
LEMMA AdmitAccounted ==
  ASSUME LTypes, LTypes', NEW k \in Keys, NEW times \in Seq(Nat), Accounted(k, times), Live(times) = times,
         admitted'[k] = Append(Live(admitted[k]), now), now' = now, evictedAt'[k] = evictedAt[k]
  PROVE  Accounted(k, Append(times, now))'
<1> DEFINE a == admitted[k]  n == Len(a)  m == Len(times)  live == Live(a)
           after == admitted'[k]  more == Append(times, now)
<1>1. a \in Seq(Nat) /\ n \in Nat /\ m \in Nat /\ m <= n /\ now \in Nat
  BY AccountedIn DEF LTypes
<1>2. PICK f \in 1..n + 1 : /\ \A i \in 1 .. f - 1 : a[i] + Window <= now
                            /\ live \in Seq(Nat) /\ Len(live) = n - f + 1
                            /\ \A i \in 1..Len(live) : live[i] = a[f + i - 1]
  BY <1>1, LiveFacts
<1>3. times # <<>> => times[1] + Window > now
  BY <1>1, LiveShorter
<1>4. \A j \in 1..m : times[j] = a[n - m + j]
  BY AccountedIn
<1>5. \A i \in 1 .. n - m : a[i] + Window <= now \/ (evictedAt[k] # None /\ a[i] <= evictedAt[k])
  BY AccountedIn
<1>6. /\ after \in Seq(Nat) /\ Len(after) = Len(live) + 1 /\ after[Len(live) + 1] = now
      /\ \A i \in 1..Len(live) : after[i] = live[i]
  BY <1>1, <1>2, AppendProperties
<1>7. /\ more \in Seq(Nat) /\ Len(more) = m + 1 /\ more[m + 1] = now
      /\ \A i \in 1..m : more[i] = times[i]
  BY <1>1, AppendProperties
<1>8. Window \in Nat \ {0} /\ \A i \in 1..n : a[i] \in Nat
  BY <1>1, LimitsAssumption
<1>9. m = 0 \/ (m # 0 /\ times # <<>>)
  BY <1>1
<1> HIDE DEF a, n, m, live, after, more
<1>10. f <= n - m + 1
  <2>1. CASE m = 0
    BY <1>1, <1>2, <2>1
  <2>2. CASE m # 0 /\ times # <<>>
    <3>1. 1 \in 1..m /\ n - m + 1 \in 1..n
      BY <1>1, <2>2
    <3>2. times[1] = a[n - m + 1] /\ a[n - m + 1] \in Nat
      BY <1>4, <1>8, <3>1
    <3>3. ~ (a[n - m + 1] + Window <= now)
      BY <1>1, <1>3, <1>8, <2>2, <3>2
    <3>4. n - m + 1 \notin 1 .. f - 1
      BY <1>2, <3>3
    <3> QED
      BY <1>1, <1>2, <3>1, <3>4
  <2> QED
    BY <1>9, <2>1, <2>2
<1>11. Len(more) <= Len(after)
  <2>1. Len(more) = m + 1 /\ Len(after) = n - f + 1 + 1 /\ f \in Nat
    BY <1>2, <1>6, <1>7
  <2> QED
    BY <1>1, <1>10, <2>1
<1>12. \A j \in 1..Len(more) : more[j] = after[Len(after) - Len(more) + j]
  <2> SUFFICES ASSUME NEW j \in 1..Len(more) PROVE more[j] = after[Len(after) - Len(more) + j]
    OBVIOUS
  <2>1. CASE j = m + 1
    <3>1. Len(after) - Len(more) + j = Len(live) + 1
      BY <1>1, <1>2, <1>6, <1>7, <2>1
    <3> QED
      BY <1>6, <1>7, <2>1, <3>1
  <2>2. CASE j \in 1..m
    <3>1. Len(after) - Len(more) + j \in 1..Len(live) /\ f + (Len(after) - Len(more) + j) - 1 = n - m + j
      BY <1>1, <1>2, <1>6, <1>7, <1>10, <2>2
    <3>2. after[Len(after) - Len(more) + j] = a[f + (Len(after) - Len(more) + j) - 1]
      BY <1>2, <1>6, <3>1
    <3> QED
      BY <1>4, <1>7, <2>2, <3>1, <3>2
  <2> QED
    BY <1>1, <1>7, <2>1, <2>2
<1>13. \A i \in 1 .. Len(after) - Len(more) :
         after[i] + Window <= now \/ (evictedAt[k] # None /\ after[i] <= evictedAt[k])
  <2> SUFFICES ASSUME NEW i \in 1 .. Len(after) - Len(more)
               PROVE  after[i] + Window <= now \/ (evictedAt[k] # None /\ after[i] <= evictedAt[k])
    OBVIOUS
  <2>1. i \in 1..Len(live) /\ f + i - 1 \in 1 .. n - m
    BY <1>1, <1>2, <1>6, <1>7, <1>10
  <2>2. after[i] = a[f + i - 1]
    BY <1>2, <1>6, <2>1
  <2> QED
    BY <1>5, <2>1, <2>2
<1>14. Accounted(k, more)' <=>
           /\ Len(more) <= Len(after)
           /\ \A j \in 1..Len(more) : more[j] = after[Len(after) - Len(more) + j]
           /\ \A i \in 1..Len(after) - Len(more) :
                \/ after[i] + Window <= now'
                \/ evictedAt'[k] # None /\ after[i] <= evictedAt'[k]
  BY DEF Accounted, after, more
<1> QED
  BY <1>11, <1>12, <1>13, <1>14 DEF more

\* A sequence without one of its places.
LEMMA RemovedAt ==
  ASSUME NEW S, NEW s \in Seq(S), NEW p \in 1..Len(s)
  PROVE  /\ RemoveAt(s, p) \in Seq(S) /\ Len(RemoveAt(s, p)) = Len(s) - 1
         /\ \A i \in 1 .. Len(s) - 1 : RemoveAt(s, p)[i] = IF i < p THEN s[i] ELSE s[i + 1]
<1> DEFINE a == SubSeq(s, 1, p - 1)  b == SubSeq(s, p + 1, Len(s))  n == Len(s)
<1>1. n \in Nat /\ p \in 1..n
  OBVIOUS
<1>2. a \in Seq(S) /\ Len(a) = p - 1 /\ \A i \in 1 .. p - 1 : a[i] = s[i]
  <2>1. p - 1 \in Int /\ \A i \in 1 .. p - 1 : s[i] \in S
    BY <1>1
  <2>2. /\ a \in Seq(S) /\ Len(a) = (IF 1 <= p - 1 THEN p - 1 - 1 + 1 ELSE 0)
        /\ \A i \in 1 .. p - 1 - 1 + 1 : a[i] = s[1 + i - 1]
    BY <2>1, SubSeqProperties
  <2>3. Len(a) = p - 1 /\ 1 .. p - 1 - 1 + 1 = 1 .. p - 1 /\ \A i \in 1 .. p - 1 : 1 + i - 1 = i
    BY <1>1, <2>2
  <2> QED
    BY <2>2, <2>3
<1>3. b \in Seq(S) /\ Len(b) = n - p /\ \A i \in 1 .. n - p : b[i] = s[p + i]
  <2>1. p + 1 \in Int /\ \A i \in p + 1 .. n : s[i] \in S
    BY <1>1
  <2>2. /\ b \in Seq(S) /\ Len(b) = (IF p + 1 <= n THEN n - (p + 1) + 1 ELSE 0)
        /\ \A i \in 1 .. n - (p + 1) + 1 : b[i] = s[p + 1 + i - 1]
    BY <1>1, <2>1, SubSeqProperties
  <2>3. /\ Len(b) = n - p /\ 1 .. n - (p + 1) + 1 = 1 .. n - p
        /\ \A i \in 1 .. n - p : p + 1 + i - 1 = p + i
    BY <1>1, <2>2
  <2> QED
    BY <2>2, <2>3
<1>4. RemoveAt(s, p) = a \o b
  BY DEF RemoveAt
<1> HIDE DEF a, b, n
<1>5. /\ a \o b \in Seq(S) /\ Len(a \o b) = Len(a) + Len(b)
      /\ \A i \in 1 .. Len(a) + Len(b) : (a \o b)[i] = IF i <= Len(a) THEN a[i] ELSE b[i - Len(a)]
  BY <1>2, <1>3, ConcatProperties
<1>6. Len(a) + Len(b) = n - 1
  BY <1>1, <1>2, <1>3
<1>7. ASSUME NEW i \in 1 .. n - 1 PROVE RemoveAt(s, p)[i] = IF i < p THEN s[i] ELSE s[i + 1]
  <2>1. RemoveAt(s, p)[i] = IF i <= Len(a) THEN a[i] ELSE b[i - Len(a)]
    BY <1>4, <1>5, <1>6
  <2>2. CASE i < p
    <3>1. i <= Len(a) /\ i \in 1 .. p - 1
      BY <1>1, <1>2, <2>2
    <3> QED
      BY <1>2, <2>1, <2>2, <3>1
  <2>3. CASE ~ (i < p)
    <3>1. ~ (i <= Len(a)) /\ i - Len(a) \in 1 .. n - p /\ p + (i - Len(a)) = i + 1
      BY <1>1, <1>2, <2>3
    <3> QED
      BY <1>3, <2>1, <2>3, <3>1
  <2> QED
    BY <2>2, <2>3
<1> QED
  BY <1>4, <1>5, <1>6, <1>7 DEF n

\* A bucket that is still there, perhaps pruned.
From(b) == \E j \in 1..Len(buckets) : b.key = buckets[j].key /\ b.times \in {buckets[j].times, Live(buckets[j].times)}

LEMMA BucketFields ==
  ASSUME LTypes, NEW i \in 1..Len(buckets)
  PROVE  /\ buckets[i] \in Buckets /\ buckets[i].key \in Keys /\ buckets[i].times \in Seq(Nat)
         /\ Live(buckets[i].times) \in Seq(Nat) /\ Prune(buckets[i]) \in Buckets
         /\ Prune(buckets[i]).key = buckets[i].key /\ Prune(buckets[i]).times = Live(buckets[i].times)
<1>1. buckets[i] \in Buckets
  BY DEF LTypes
<1>2. buckets[i].key \in Keys /\ buckets[i].times \in Seq(Nat)
  BY <1>1 DEF Buckets
<1>3. Live(buckets[i].times) \in Seq(Nat)
  BY <1>2, LiveShorter DEF LTypes
<1>4. Prune(buckets[i]) = [buckets[i] EXCEPT !.times = Live(buckets[i].times)]
  BY DEF Prune
<1> QED
  BY <1>1, <1>2, <1>3, <1>4 DEF Buckets

LEMMA CapacityFacts ==
  ASSUME LTypes, OneBucketEach
  PROVE  /\ Capacity \in Seq(Buckets) /\ Len(Capacity) < MaxBuckets
         /\ \A i, j \in 1..Len(Capacity) : Capacity[i].key = Capacity[j].key => i = j
         /\ \A i \in 1..Len(Capacity) : From(Capacity[i])
<1> DEFINE n == Len(buckets)
           empty == {i \in DOMAIN buckets : Live(buckets[i].times) = <<>>}
           upTo == IF empty = {} THEN Len(buckets) ELSE Min(empty)
           pruned == [i \in DOMAIN buckets |-> IF i <= upTo THEN Prune(buckets[i]) ELSE buckets[i]]
           place == IF empty = {} THEN 1 ELSE upTo
<1>1. /\ n \in Nat /\ DOMAIN buckets = 1..n /\ n <= MaxBuckets /\ MaxBuckets \in Nat \ {0}
      /\ buckets \in Seq(Buckets) /\ n = Len(buckets)
  BY LimitsAssumption DEF LTypes, OneBucketEach
<1>2. Capacity = IF n < MaxBuckets THEN buckets ELSE RemoveAt(pruned, place)
  BY DEF Capacity
<1>3. ASSUME n >= MaxBuckets PROVE place \in 1..n
  <2>1. CASE empty = {}
    BY <1>1, <1>3, <2>1
  <2>2. CASE empty # {}
    <3>1. empty \in SUBSET Nat /\ empty \subseteq 1..n
      BY <1>1
    <3>2. Min(empty) \in empty
      <4> HIDE DEF empty
      <4> QED
        BY <2>2, <3>1, LeastOf
    <3> QED
      BY <2>2, <3>1, <3>2
  <2> QED
    BY <2>1, <2>2
<1>4. /\ pruned \in Seq(Buckets) /\ Len(pruned) = n
      /\ \A i \in 1..n : pruned[i].key = buckets[i].key /\ From(pruned[i])
  <2>1. ASSUME NEW i \in 1..n
        PROVE  pruned[i] \in Buckets /\ pruned[i].key = buckets[i].key /\ From(pruned[i])
    <3>1. pruned[i] \in {Prune(buckets[i]), buckets[i]}
      BY <1>1
    <3> HIDE DEF pruned
    <3>2. /\ buckets[i] \in Buckets /\ Prune(buckets[i]) \in Buckets
          /\ Prune(buckets[i]).key = buckets[i].key /\ Prune(buckets[i]).times = Live(buckets[i].times)
      BY BucketFields
    <3> QED
      BY <1>1, <3>1, <3>2 DEF From
  <2>2. pruned = [i \in 1..n |-> pruned[i]]
    BY <1>1
  <2> HIDE DEF pruned, n
  <2>3. pruned \in Seq(Buckets) /\ Len(pruned) = n
    BY <1>1, <2>1, <2>2
  <2> QED
    BY <2>1, <2>3
<1>5. \A i, j \in 1..n : buckets[i].key = buckets[j].key => i = j
  BY DEF OneBucketEach
<1> HIDE DEF n, empty, upTo, pruned, place
<1>6. CASE n < MaxBuckets
  <2>1. Capacity = buckets
    BY <1>2, <1>6
  <2>2. \A i \in 1..n : From(buckets[i])
    BY <1>1 DEF From
  <2> QED
    BY <1>1, <1>5, <1>6, <2>1, <2>2
<1>7. CASE ~ (n < MaxBuckets)
  <2>1. Capacity = RemoveAt(pruned, place) /\ place \in 1..n /\ n - 1 < MaxBuckets
    BY <1>1, <1>2, <1>3, <1>7
  <2>2. /\ Capacity \in Seq(Buckets) /\ Len(Capacity) = n - 1
        /\ \A i \in 1 .. n - 1 : Capacity[i] = IF i < place THEN pruned[i] ELSE pruned[i + 1]
    BY <1>4, <2>1, RemovedAt
  <2>3. \A i \in 1 .. n - 1 : i \in 1..n /\ i + 1 \in 1..n
    BY <1>1
  <2>4. \A i \in 1 .. n - 1 : From(Capacity[i])
    BY <1>4, <2>2, <2>3
  <2>5. ASSUME NEW i \in 1 .. n - 1, NEW j \in 1 .. n - 1, Capacity[i].key = Capacity[j].key PROVE i = j
    <3>1. PICK u \in 1..n : Capacity[i].key = buckets[u].key /\ u = IF i < place THEN i ELSE i + 1
      BY <1>4, <2>2, <2>3
    <3>2. PICK v \in 1..n : Capacity[j].key = buckets[v].key /\ v = IF j < place THEN j ELSE j + 1
      BY <1>4, <2>2, <2>3
    <3>3. u = v
      BY <1>5, <2>5, <3>1, <3>2
    <3> QED
      BY <1>1, <2>1, <3>1, <3>2, <3>3
  <2> QED
    BY <2>1, <2>2, <2>4, <2>5
<1> QED
  BY <1>6, <1>7

\* The bucket that a request is counted in is the last; the others are still there, perhaps
\* pruned, but for what made room.
LEMMA FoundFacts ==
  ASSUME LInv, NEW k \in Keys
  PROVE  /\ Found(k) \in Seq(Buckets) /\ Len(Found(k)) \in 1..MaxBuckets
         /\ Last(Found(k)) = Found(k)[Len(Found(k))] /\ Last(Found(k)).key = k
         /\ \E old \in Seq(Nat) :
              /\ Last(Found(k)).times = Live(old) /\ Accounted(k, old) /\ Len(old) <= Limit
              /\ old = <<>> \/ \E i \in 1..Len(buckets) : buckets[i].key = k /\ buckets[i].times = old
         /\ \A i \in 1 .. Len(Found(k)) - 1 : Found(k)[i].key # k /\ From(Found(k)[i])
         /\ \A i, j \in 1..Len(Found(k)) : Found(k)[i].key = Found(k)[j].key => i = j
<1> DEFINE n == Len(buckets)  found == Found(k)
<1>1. /\ n \in Nat /\ DOMAIN buckets = 1..n /\ n <= MaxBuckets /\ MaxBuckets \in Nat \ {0} /\ Limit \in Nat \ {0}
      /\ buckets \in Seq(Buckets) /\ n = Len(buckets) /\ now \in Nat
  BY LimitsAssumption DEF LInv, LTypes, OneBucketEach
<1>2. \A i, j \in 1..n : buckets[i].key = buckets[j].key => i = j
  BY DEF LInv, OneBucketEach
<1>3. ASSUME NEW rest \in Seq(Buckets), NEW b \in Buckets, found = Append(rest, b), Len(rest) < MaxBuckets, b.key = k,
             \A i \in 1..Len(rest) : rest[i].key # k /\ From(rest[i]),
             \A i, j \in 1..Len(rest) : rest[i].key = rest[j].key => i = j,
             NEW old \in Seq(Nat), b.times = Live(old), Accounted(k, old), Len(old) <= Limit,
             old = <<>> \/ \E i \in 1..Len(buckets) : buckets[i].key = k /\ buckets[i].times = old
      PROVE  /\ found \in Seq(Buckets) /\ Len(found) \in 1..MaxBuckets
             /\ Last(found) = found[Len(found)] /\ Last(found).key = k
             /\ \E o \in Seq(Nat) :
                  /\ Last(found).times = Live(o) /\ Accounted(k, o) /\ Len(o) <= Limit
                  /\ o = <<>> \/ \E i \in 1..Len(buckets) : buckets[i].key = k /\ buckets[i].times = o
             /\ \A i \in 1 .. Len(found) - 1 : found[i].key # k /\ From(found[i])
             /\ \A i, j \in 1..Len(found) : found[i].key = found[j].key => i = j
  <2>1. /\ found \in Seq(Buckets) /\ Len(found) = Len(rest) + 1 /\ found[Len(rest) + 1] = b
        /\ \A i \in 1..Len(rest) : found[i] = rest[i]
    BY <1>3, AppendProperties
  <2>2. Len(rest) \in Nat /\ Len(found) - 1 = Len(rest) /\ Len(found) \in 1..MaxBuckets
    BY <1>1, <1>3, <2>1
  <2>3. Last(found) = found[Len(found)] /\ Last(found) = b
    BY <2>1 DEF Last
  <2> HIDE DEF found
  <2>4. \A i \in 1 .. Len(found) - 1 : found[i].key # k /\ From(found[i])
    BY <1>3, <2>1, <2>2
  <2>5. ASSUME NEW i \in 1..Len(found), NEW j \in 1..Len(found), found[i].key = found[j].key PROVE i = j
    <3>1. (i \in 1..Len(rest) \/ i = Len(rest) + 1) /\ (j \in 1..Len(rest) \/ j = Len(rest) + 1)
      BY <2>1, <2>2
    <3> QED
      BY <1>3, <2>1, <2>5, <3>1
  <2> QED
    BY <1>3, <2>1, <2>2, <2>3, <2>4, <2>5
<1>4. CASE Position(k) # {}
  <2> DEFINE p == CHOOSE i \in Position(k) : TRUE
  <2>1. p \in Position(k)
    BY <1>4
  <2>2. p \in 1..n /\ buckets[p].key = k
    BY <1>1, <2>1 DEF Position
  <2>3. found = Append(RemoveAt(buckets, p), Prune(buckets[p]))
    BY <1>4 DEF Found
  <2> HIDE DEF p, found, n
  <2> DEFINE rest == RemoveAt(buckets, p)
  <2>4. /\ rest \in Seq(Buckets) /\ Len(rest) = n - 1
        /\ \A i \in 1 .. n - 1 : rest[i] = IF i < p THEN buckets[i] ELSE buckets[i + 1]
    BY <1>1, <2>2, RemovedAt
  <2>5. found = Append(rest, Prune(buckets[p]))
    BY <2>3
  <2> HIDE DEF rest
  <2>6. Len(rest) < MaxBuckets
    BY <1>1, <2>2, <2>4
  <2>7. ASSUME NEW i \in 1..Len(rest)
        PROVE  \E u \in 1..n : rest[i] = buckets[u] /\ u # p /\ u = IF i < p THEN i ELSE i + 1
    BY <1>1, <2>2, <2>4
  <2>8. \A i \in 1..Len(rest) : rest[i].key # k /\ From(rest[i])
    BY <1>1, <1>2, <2>2, <2>7 DEF From
  <2>9. ASSUME NEW i \in 1..Len(rest), NEW j \in 1..Len(rest), rest[i].key = rest[j].key PROVE i = j
    <3>1. PICK u \in 1..n : rest[i] = buckets[u] /\ u = IF i < p THEN i ELSE i + 1
      BY <2>7
    <3>2. PICK v \in 1..n : rest[j] = buckets[v] /\ v = IF j < p THEN j ELSE j + 1
      BY <2>7
    <3>3. u = v
      BY <1>2, <2>9, <3>1, <3>2
    <3> QED
      BY <1>1, <2>2, <2>4, <3>1, <3>2, <3>3
  <2>10. /\ Prune(buckets[p]) \in Buckets /\ Prune(buckets[p]).key = k
         /\ Prune(buckets[p]).times = Live(buckets[p].times) /\ buckets[p].times \in Seq(Nat)
    BY <1>1, <2>2, BucketFields DEF LInv
  <2>11. Accounted(k, buckets[p].times) /\ Len(buckets[p].times) <= Limit
    BY <1>1, <2>2 DEF LInv, Accounts, OneBucketEach
  <2>12. \E i \in 1..Len(buckets) : buckets[i].key = k /\ buckets[i].times = buckets[p].times
    BY <1>1, <2>2
  <2> QED
    BY <1>3, <2>4, <2>5, <2>6, <2>8, <2>9, <2>10, <2>11, <2>12 DEF found
<1>5. CASE Position(k) = {}
  <2> DEFINE rest == Capacity  b == [key |-> k, times |-> <<>>]
  <2>1. found = Append(rest, b)
    BY <1>5 DEF Found
  <2>2. /\ rest \in Seq(Buckets) /\ Len(rest) < MaxBuckets
        /\ \A i, j \in 1..Len(rest) : rest[i].key = rest[j].key => i = j
        /\ \A i \in 1..Len(rest) : From(rest[i])
    BY CapacityFacts DEF LInv
  <2>3. \A i \in 1..n : buckets[i].key # k
    BY <1>1, <1>5 DEF Position
  <2> DEFINE none == <<>>
  <2>4. none \in Seq(Nat) /\ Len(none) = 0
    OBVIOUS
  <2>5. b \in Buckets /\ b.key = k /\ b.times = none
    BY <2>4 DEF Buckets
  <2>6. Live(none) = none
    <3>1. Len(Live(none)) <= 0 /\ Live(none) \in Seq(Nat)
      BY <1>1, <2>4, LiveShorter
    <3> QED
      BY <3>1
  <2>7. Accounted(k, none) /\ Len(none) <= Limit /\ none = <<>>
    BY <1>1, <1>5, <2>4 DEF LInv, Accounts
  <2> HIDE DEF rest, b, found, none
  <2>8. \A i \in 1..Len(rest) : rest[i].key # k
    BY <1>1, <2>2, <2>3 DEF From
  <2>9. /\ b.times = Live(none) /\ \A i \in 1..Len(rest) : rest[i].key # k /\ From(rest[i])
        /\ none = <<>> \/ \E i \in 1..Len(buckets) : buckets[i].key = k /\ buckets[i].times = none
    BY <2>2, <2>5, <2>6, <2>7, <2>8
  <2>10. Accounted(k, none) /\ Len(none) <= Limit
    BY <2>7
  <2>11. found = Append(rest, b) /\ none \in Seq(Nat) /\ b \in Buckets /\ b.key = k
    BY <2>1, <2>4, <2>5
  <2> QED
    BY <1>3, <2>2, <2>9, <2>10, <2>11 DEF found
<1> QED
  BY <1>4, <1>5 DEF found

-----------------------------------------------------------------------------
(* What an evaluation leaves behind.                                       *)

LEMMA LiveTwice ==
  ASSUME now \in Nat, NEW old \in Seq(Nat)
  PROVE  Live(Live(old)) = Live(old)
<1> DEFINE t == Live(old)
<1>1. t \in Seq(Nat) /\ (t # <<>> => t[1] + Window > now)
  BY LiveShorter
<1> HIDE DEF t
<1>2. PICK f \in 1..Len(t) + 1 : (\A i \in 1 .. f - 1 : t[i] + Window <= now) /\ Len(Live(t)) = Len(t) - f + 1
  BY <1>1, LiveFacts
<1>3. Len(t) \in Nat /\ (Len(t) # 0 => t # <<>> /\ t[1] \in Nat) /\ Window \in Nat
  BY <1>1, LimitsAssumption
<1>4. f = 1
  <2> SUFFICES ASSUME f # 1 PROVE FALSE
    OBVIOUS
  <2>1. 1 \in 1 .. f - 1
    BY <1>3
  <2>2. t[1] + Window <= now
    BY <1>2, <2>1
  <2>3. CASE Len(t) = 0
    BY <2>3
  <2>4. CASE Len(t) # 0
    BY <1>1, <1>3, <2>2, <2>4
  <2> QED
    BY <2>3, <2>4
<1>5. Len(Live(t)) = Len(t)
  BY <1>2, <1>3, <1>4
<1>6. Live(t) = t
  BY <1>1, <1>5, LiveShorter
<1> QED
  BY <1>6 DEF t

LEMMA EvictedIn ==
  ASSUME LTypes, Evicted, NEW k \in Keys
  PROVE  /\ evictedAt' \in [Keys -> Nat \cup {None}]
         /\ (\E j \in 1..Len(buckets') : buckets'[j].key = k) /\ buckets' \in Seq(Buckets) => evictedAt'[k] = evictedAt[k]
         /\ (\A i \in 1..Len(buckets) : buckets[i].key = k => Live(buckets[i].times) = <<>>) => evictedAt'[k] = evictedAt[k]
         /\ (\E i \in 1..Len(buckets) : buckets[i].key = k /\ Live(buckets[i].times) # <<>>)
            /\ buckets' \in Seq(Buckets) /\ (\A j \in 1..Len(buckets') : buckets'[j].key # k) => evictedAt'[k] = now
<1>1. evictedAt' = [q \in Keys |->
        IF \E i \in Position(q) : Live(buckets[i].times) # <<>> /\ \A j \in DOMAIN buckets' : buckets'[j].key # q
        THEN now ELSE evictedAt[q]]
  BY DEF Evicted
<1>2. Position(k) = {i \in 1..Len(buckets) : buckets[i].key = k}
  BY DEF Position, LTypes
<1>3. buckets' \in Seq(Buckets) => DOMAIN buckets' = 1..Len(buckets')
  OBVIOUS
<1>4. evictedAt'[k] = IF \E i \in Position(k) : Live(buckets[i].times) # <<>> /\ \A j \in DOMAIN buckets' : buckets'[j].key # k
                      THEN now ELSE evictedAt[k]
  BY <1>1
<1>5. evictedAt' \in [Keys -> Nat \cup {None}]
  BY <1>1 DEF LTypes
<1> QED
  BY <1>2, <1>3, <1>4, <1>5

\* What is known of a key that nobody touches, while the clock goes on.
LEMMA AccountedStays ==
  ASSUME LTypes, NEW k \in Keys, NEW times \in Seq(Nat), Accounted(k, times), now' \in Nat, now' >= now,
         admitted'[k] = admitted[k], evictedAt'[k] = evictedAt[k]
  PROVE  Accounted(k, times)'
<1> DEFINE a == admitted[k]  d == Len(a) - Len(times)
<1>1. \A i \in 1..d : a[i] + Window <= now \/ (evictedAt[k] # None /\ a[i] <= evictedAt[k])
  BY DEF Accounted
<1>2. a \in Seq(Nat) /\ Window \in Nat /\ now \in Nat /\ Len(times) <= Len(a)
  BY LimitsAssumption DEF LTypes, Accounted
<1>3. \A i \in 1..d : i \in 1..Len(a)
  BY <1>2
<1>4. \A i \in 1..d : a[i] + Window <= now' \/ (evictedAt[k] # None /\ a[i] <= evictedAt[k])
  <2> SUFFICES ASSUME NEW i \in 1..d, a[i] + Window <= now PROVE a[i] + Window <= now'
    BY <1>1
  <2>1. a[i] \in Nat
    <3>1. i \in 1..Len(a)
      BY <1>3
    <3> QED
      BY <1>2, <3>1, ElementOfSeq
  <2>2. \A x \in Nat : x + Window <= now => x + Window <= now'
    BY <1>2
  <2> HIDE DEF a, d
  <2> QED
    BY <2>1, <2>2
<1> QED
  BY <1>4 DEF Accounted

\* A request of k is evaluated: the last bucket is the one of k, as it comes out.
LEMMA StoreMoves ==
  ASSUME LInv, NEW k \in Keys, Evicted, UNCHANGED now, buckets' \in Seq(Buckets),
         Len(buckets') = Len(Found(k)), buckets'[Len(Found(k))].key = k,
         \A i \in 1 .. Len(Found(k)) - 1 : buckets'[i] = Found(k)[i],
         NEW times \in Seq(Nat), buckets'[Len(Found(k))].times = times, Len(times) <= Limit,
         LTypes' => Accounted(k, times)', LTypes',
         \A q \in Keys : q # k => admitted'[q] = admitted[q] /\ promise'[q] = promise[q],
         \A i \in 1..Len(admitted'[k]) : admitted'[k][i] <= now,
         promise'[k] = None \/ Len(times) < Limit \/ times[1] + Window <= promise'[k]
  PROVE  LInv'
<1> DEFINE n == Len(buckets)  m == Len(Found(k))
<1>0. /\ m \in 1..MaxBuckets /\ Len(buckets') = m /\ MaxBuckets \in Nat
      /\ \A i \in 1 .. m - 1 : Found(k)[i].key # k /\ From(Found(k)[i])
      /\ \A i, j \in 1..m : Found(k)[i].key = Found(k)[j].key => i = j
      /\ Last(Found(k)) = Found(k)[m] /\ Last(Found(k)).key = k
  BY FoundFacts, LimitsAssumption
<1>1. /\ m \in 1..MaxBuckets /\ Len(buckets') = m /\ MaxBuckets \in Nat
      /\ \A i \in 1 .. m - 1 : buckets'[i].key # k /\ From(buckets'[i])
      /\ \A i, j \in 1..m : Found(k)[i].key = Found(k)[j].key => i = j
      /\ Found(k)[m].key = k
  <2>1. ASSUME NEW i \in 1 .. m - 1 PROVE buckets'[i].key # k /\ From(buckets'[i])
    <3>1. PICK b : b = Found(k)[i]
      OBVIOUS
    <3>2. buckets'[i] = b /\ b.key # k /\ From(b)
      BY <1>0, <3>1
    <3> QED
      BY <3>2
  <2> QED
    BY <1>0, <2>1
<1>2. \A i \in 1..m : buckets'[i].key = Found(k)[i].key
  <2>1. \A i \in 1..m : i \in 1 .. m - 1 \/ i = m
    BY <1>1
  <2> QED
    BY <1>1, <2>1
<1>3. \A i, j \in 1..m : buckets'[i].key = buckets'[j].key => i = j
  BY <1>1, <1>2
<1>4. n \in Nat /\ now \in Nat /\ Limit \in Nat /\ LTypes /\ n = Len(buckets)
  BY LimitsAssumption DEF LInv, LTypes
<1> HIDE DEF n, m
<1>5. \A i \in 1..m : i \in 1 .. m - 1 \/ i = m
  BY <1>1
<1>6. ASSUME NEW i \in 1 .. m - 1
      PROVE  /\ buckets'[i].key \in Keys /\ buckets'[i].key # k /\ Len(buckets'[i].times) <= Limit
             /\ Accounted(buckets[i].key, buckets[i].times)'
             /\ promise'[buckets'[i].key] # None =>
                  Len(buckets'[i].times) < Limit \/ buckets'[i].times[1] + Window <= promise'[buckets'[i].key]
  <2>1. PICK j \in 1..n : /\ buckets'[i].key = buckets[j].key
                          /\ buckets'[i].times \in {buckets[j].times, Live(buckets[j].times)}
    BY <1>1, <1>4 DEF From
  <2>2. PICK q \in Keys : q = buckets[j].key
    BY <1>4, BucketFields
  <2>3. PICK old \in Seq(Nat) : old = buckets[j].times
    BY <1>4, BucketFields
  <2>4. q # k /\ buckets'[i].key = q /\ admitted'[q] = admitted[q] /\ promise'[q] = promise[q]
    BY <1>1, <2>1, <2>2
  <2>5. /\ Accounted(q, old) /\ Len(old) <= Limit
        /\ promise[q] # None => Len(old) < Limit \/ old[1] + Window <= promise[q]
    BY <1>4, <2>2, <2>3 DEF LInv, Accounts, OneBucketEach, Promises
  <2>6. /\ Live(old) \in Seq(Nat) /\ Len(Live(old)) <= Len(old) /\ Len(old) \in Nat /\ Len(Live(old)) \in Nat
        /\ Len(Live(old)) = Len(old) => Live(old) = old
    BY <1>4, LiveShorter
  <2>7. PICK new \in Seq(Nat) : new = buckets'[i].times /\ new \in {old, Live(old)}
    BY <2>1, <2>3, <2>6
  <2>8. Accounted(q, new)
    BY <1>4, <2>5, <2>7, PrunedAccounted
  <2>9. evictedAt'[q] = evictedAt[q]
    <3>1. \E u \in 1..Len(buckets') : buckets'[u].key = q
      BY <1>1, <1>5, <2>4
    <3> QED
      BY <1>4, <3>1, EvictedIn
  <2>10. Accounted(q, new)'
    BY <1>4, <2>4, <2>8, <2>9, AccountedStays
  <2>11. Len(new) <= Limit /\ (new = old \/ Len(new) < Limit)
    <3>1. CASE new = old
      BY <2>5, <3>1
    <3>2. CASE new # old
      <4>1. new = Live(old) /\ Len(new) # Len(old)
        BY <2>6, <2>7, <3>2
      <4> QED
        BY <1>4, <2>5, <2>6, <4>1
    <3> QED
      BY <3>1, <3>2
  <2>12. promise'[q] # None => Len(new) < Limit \/ new[1] + Window <= promise'[q]
    BY <2>4, <2>5, <2>11
  <2>13. Accounted(buckets[i].key, buckets[i].times)'
    BY <2>4, <2>7, <2>10
  <2> QED
    BY <2>4, <2>7, <2>11, <2>12, <2>13
<1>7. OneBucketEach'
  <2>1. \A i \in 1..m : Len(buckets'[i].times) <= Limit
    BY <1>5, <1>6 DEF m
  <2> QED
    BY <1>1, <1>3, <2>1 DEF OneBucketEach
<1>8. Promises'
  <2>1. ASSUME NEW i \in 1..m, promise'[buckets'[i].key] # None
        PROVE  Len(buckets'[i].times) < Limit \/ buckets'[i].times[1] + Window <= promise'[buckets'[i].key]
    <3>1. CASE i = m
      BY <2>1, <3>1 DEF m
    <3> QED
      BY <1>5, <1>6, <2>1, <3>1
  <2> QED
    BY <1>1, <2>1 DEF Promises
<1>9. Accounts'
  <2>1. ASSUME NEW i \in 1..m PROVE Accounted(buckets[i].key, buckets[i].times)'
    <3>1. CASE i = m
      <4>1. buckets'[m].key = k /\ buckets'[m].times = times
        BY DEF m
      <4>2. Accounted(k, times)'
        OBVIOUS
      <4> QED
        BY <3>1, <4>1, <4>2 DEF Accounted
    <3> QED
      BY <1>5, <1>6, <3>1
  <2>2. ASSUME NEW q \in Keys, Position(q)' = {} PROVE Accounted(q, <<>>)'
    <3> DEFINE none == <<>>
    <3>1. none \in Seq(Nat) /\ none = <<>>
      OBVIOUS
    <3>2. \A j \in 1..m : buckets'[j].key # q
      BY <1>1, <2>2 DEF Position
    <3>3. q # k
      BY <1>1, <3>2 DEF m
    <3>4. admitted'[q] = admitted[q] /\ \A i \in 1..Len(admitted[q]) : admitted[q][i] <= now
      BY <3>3 DEF LInv, Accounts
    <3>5. CASE \E i \in 1..n : buckets[i].key = q /\ Live(buckets[i].times) # <<>>
      <4>1. evictedAt'[q] = now
        BY <1>1, <1>4, <3>2, <3>5, EvictedIn
      <4>2. now # None /\ Len(none) = 0 /\ admitted[q] \in Seq(Nat)
        BY <1>4, LimitsAssumption DEF LTypes
      <4>3. Len(admitted[q]) \in Nat /\ Len(admitted[q]) - 0 = Len(admitted[q])
        BY <4>2
      <4> HIDE DEF none
      <4>4. Accounted(q, none)'
        <5>1. Len(none) <= Len(admitted'[q]) /\ (\A j \in 1..Len(none) : none[j] = admitted'[q][Len(admitted'[q]) - Len(none) + j])
          BY <3>4, <4>2, <4>3
        <5>2. \A i \in 1..Len(admitted'[q]) - Len(none) : evictedAt'[q] # None /\ admitted'[q][i] <= evictedAt'[q]
          BY <3>4, <4>1, <4>2, <4>3
        <5> QED
          BY <5>1, <5>2 DEF Accounted
      <4> QED
        BY <3>1, <4>4
    <3>6. CASE ~ \E i \in 1..n : buckets[i].key = q /\ Live(buckets[i].times) # <<>>
      <4>1. evictedAt'[q] = evictedAt[q]
        BY <1>4, <3>6, EvictedIn
      <4>2. Accounted(q, none)
        <5>1. CASE \E i \in 1..n : buckets[i].key = q
          <6>1. PICK i \in 1..n : buckets[i].key = q
            BY <5>1
          <6>2. buckets[i].times \in Seq(Nat) /\ Accounted(q, buckets[i].times) /\ Live(buckets[i].times) = <<>>
            BY <1>4, <3>6, <6>1, BucketFields DEF LInv, Accounts
          <6>3. Accounted(q, Live(buckets[i].times))
            BY <1>4, <6>2, PrunedAccounted
          <6> QED
            BY <6>2, <6>3
        <5>2. CASE ~ \E i \in 1..n : buckets[i].key = q
          <6>1. Position(q) = {}
            BY <1>4, <5>2 DEF Position, LTypes
          <6> QED
            BY <6>1 DEF LInv, Accounts
        <5> QED
          BY <5>1, <5>2
      <4>0. now' \in Nat /\ now' >= now
        BY <1>4
      <4>9. PICK no \in Seq(Nat) : no = none
        BY <3>1
      <4>8. Accounted(q, no)
        BY <4>2, <4>9
      <4>7. Accounted(q, no)'
        BY <1>4, <3>4, <4>0, <4>1, <4>8, AccountedStays
      <4> HIDE DEF none
      <4>3. Accounted(q, none)'
        BY <4>7, <4>9
      <4> QED
        BY <3>1, <4>3
    <3> QED
      BY <3>5, <3>6
  <2>3. ASSUME NEW q \in Keys PROVE \A i \in 1..Len(admitted'[q]) : admitted'[q][i] <= now
    BY DEF LInv, Accounts
  <2> QED
    BY <1>1, <2>1, <2>2, <2>3 DEF Accounts
<1> QED
  BY <1>7, <1>8, <1>9 DEF LInv

LEMMA AdmitKeeps == ASSUME LInv, NEW k \in Keys, Admit(k), Evicted, UNCHANGED now PROVE LInv'
<1> DEFINE found == Found(k)  m == Len(found)
<1>1. /\ found \in Seq(Buckets) /\ m \in 1..MaxBuckets /\ Last(found) = found[m] /\ Last(found).key = k
  BY FoundFacts
<1>2. PICK old \in Seq(Nat) : Last(found).times = Live(old) /\ Accounted(k, old) /\ Len(old) <= Limit
  BY FoundFacts
<1>3. LTypes /\ now \in Nat /\ Limit \in Nat /\ MaxBuckets \in Nat
  BY LimitsAssumption DEF LInv, LTypes
<1>4. PICK times \in Seq(Nat) : times = Live(old)
  BY <1>3, LiveShorter
<1>5. /\ Len(times) < Limit
      /\ buckets' = [found EXCEPT ![m] = [Last(found) EXCEPT !.times = Append(times, now)]]
      /\ admitted' = [admitted EXCEPT ![k] = Append(Live(admitted[k]), now)]
      /\ promise' = [promise EXCEPT ![k] = None]
  BY <1>2, <1>4 DEF Admit, ReplaceAt
<1>6. PICK more \in Seq(Nat) : more = Append(times, now) /\ Len(more) = Len(times) + 1
  BY <1>3, AppendProperties
<1>7. [Last(found) EXCEPT !.times = more] \in Buckets /\ [Last(found) EXCEPT !.times = more].key = k
      /\ [Last(found) EXCEPT !.times = more].times = more
  <2>1. Last(found) \in Buckets
    BY <1>1
  <2> QED
    BY <1>1, <2>1 DEF Buckets
<1> DEFINE b == [Last(found) EXCEPT !.times = more]
<1>8. buckets' = [found EXCEPT ![m] = b]
  BY <1>5, <1>6
<1>9. b \in Buckets /\ b.key = k /\ b.times = more
  BY <1>7
<1> HIDE DEF found, m, b
<1>10. m = Len(found)
  BY DEF m
<1>11. /\ buckets' \in Seq(Buckets) /\ Len(buckets') = m /\ buckets'[m] = b
       /\ \A i \in 1 .. m - 1 : buckets'[i] = found[i]
  <2>1. m \in 1..m /\ (\A i \in 1 .. m - 1 : i \in 1..m /\ i # m)
    BY <1>1, <1>3
  <2> QED
    BY <1>1, <1>8, <1>9, <1>10, <2>1, ExceptSeq
<1>12. admitted[k] \in Seq(Nat) /\ Live(admitted[k]) \in Seq(Nat) /\ Len(Live(admitted[k])) <= Len(admitted[k])
  BY <1>3, LiveShorter DEF LTypes
<1>13. /\ admitted' \in [Keys -> Seq(Nat)] /\ admitted'[k] = Append(Live(admitted[k]), now)
       /\ \A q \in Keys : q # k => admitted'[q] = admitted[q] /\ promise'[q] = promise[q]
       /\ promise' \in [Keys -> Nat \cup {None}] /\ promise'[k] = None
  <2>1. Append(Live(admitted[k]), now) \in Seq(Nat)
    BY <1>3, <1>12, AppendProperties
  <2> QED
    BY <1>3, <1>5, <2>1 DEF LTypes
<1>14. LTypes'
  BY <1>3, <1>11, <1>13, EvictedIn DEF LTypes
<1>15. Accounted(k, more)'
  <2>1. Accounted(k, times) /\ Live(times) = times
    BY <1>2, <1>3, <1>4, PrunedAccounted, LiveTwice
  <2>2. evictedAt'[k] = evictedAt[k]
    <3>1. m \in 1..Len(buckets') /\ buckets'[m].key = k
      BY <1>1, <1>3, <1>9, <1>11
    <3> QED
      BY <1>3, <1>11, <3>1, EvictedIn
  <2>3. Accounted(k, Append(times, now))'
    BY <1>3, <1>13, <1>14, <2>1, <2>2, AdmitAccounted
  <2>4. Append(times, now') = more
    BY <1>6
  <2> QED
    BY <2>3, <2>4 DEF Accounted
<1>16. \A i \in 1..Len(admitted'[k]) : admitted'[k][i] <= now
  <2>1. PICK f \in 1..Len(admitted[k]) + 1 :
           /\ Len(Live(admitted[k])) = Len(admitted[k]) - f + 1
           /\ \A i \in 1..Len(Live(admitted[k])) : Live(admitted[k])[i] = admitted[k][f + i - 1]
    BY <1>3, <1>12, LiveFacts
  <2>2. \A i \in 1..Len(Live(admitted[k])) : f + i - 1 \in 1..Len(admitted[k])
    BY <1>12, <2>1
  <2>3. \A i \in 1..Len(Live(admitted[k])) : Live(admitted[k])[i] <= now
    BY <2>1, <2>2 DEF LInv, Accounts
  <2>4. /\ Len(admitted'[k]) = Len(Live(admitted[k])) + 1 /\ admitted'[k][Len(Live(admitted[k])) + 1] = now
        /\ \A i \in 1..Len(Live(admitted[k])) : admitted'[k][i] = Live(admitted[k])[i]
    BY <1>3, <1>12, <1>13, AppendProperties
  <2>5. \A i \in 1..Len(admitted'[k]) : i \in 1..Len(Live(admitted[k])) \/ i = Len(Live(admitted[k])) + 1
    BY <1>12, <2>4
  <2>6. now <= now
    BY <1>3
  <2> QED
    BY <2>3, <2>4, <2>5, <2>6
<1>17. Len(more) <= Limit
  BY <1>3, <1>5, <1>6
<1> QED
  BY <1>9, <1>10, <1>11, <1>13, <1>14, <1>15, <1>16, <1>17, StoreMoves DEF found

LEMMA RefuseKeeps == ASSUME LInv, NEW k \in Keys, Refuse(k), Evicted, UNCHANGED now PROVE LInv'
<1> DEFINE found == Found(k)  m == Len(found)
<1>1. /\ found \in Seq(Buckets) /\ m \in 1..MaxBuckets /\ Last(found) = found[m] /\ Last(found).key = k
  BY FoundFacts
<1>2. PICK old \in Seq(Nat) : Last(found).times = Live(old) /\ Accounted(k, old) /\ Len(old) <= Limit
  BY FoundFacts
<1>3. LTypes /\ now \in Nat /\ Limit \in Nat \ {0} /\ MaxBuckets \in Nat /\ Window \in Nat \ {0}
  BY LimitsAssumption DEF LInv, LTypes
<1>4. PICK times \in Seq(Nat) : times = Live(old) /\ Len(times) <= Len(old) /\ (times # <<>> => times[1] + Window > now)
  BY <1>3, LiveShorter
<1> DEFINE after == Window - (now - times[1])
<1>5. /\ Len(times) >= Limit /\ buckets' = found /\ admitted' = admitted
      /\ promise' = [promise EXCEPT ![k] = now + (IF after < 1 THEN 1 ELSE after)]
  BY <1>2, <1>4 DEF Refuse
<1>6. Len(times) \in Nat /\ Len(old) \in Nat
  OBVIOUS
<1>7. times[1] \in Nat /\ times[1] + Window > now
  <2>1. Len(times) >= 1 /\ times # <<>> /\ 1 \in 1..Len(times)
    BY <1>3, <1>5, <1>6
  <2> QED
    BY <1>4, <2>1
<1>8. now + (IF after < 1 THEN 1 ELSE after) = times[1] + Window
  BY <1>3, <1>7
<1> HIDE DEF found, m, after
<1>9. m = Len(found)
  BY DEF m
<1>10. /\ promise' \in [Keys -> Nat \cup {None}] /\ promise'[k] = times[1] + Window
       /\ \A q \in Keys : q # k => promise'[q] = promise[q]
  <2>1. times[1] + Window \in Nat
    BY <1>3, <1>7
  <2> QED
    BY <1>3, <1>5, <1>8, <2>1 DEF LTypes
<1>11. LTypes'
  BY <1>1, <1>3, <1>5, <1>10, EvictedIn DEF LTypes
<1>12. buckets'[m].key = k /\ buckets'[m].times = times /\ m \in 1..Len(buckets') /\ buckets' \in Seq(Buckets)
  BY <1>1, <1>2, <1>3, <1>4, <1>5, <1>9
<1>13. Accounted(k, times)'
  <2>1. Accounted(k, times)
    BY <1>2, <1>3, <1>4, PrunedAccounted
  <2>2. evictedAt'[k] = evictedAt[k]
    BY <1>3, <1>12, EvictedIn
  <2>3. now' >= now /\ admitted'[k] = admitted[k]
    BY <1>3, <1>5
  <2> QED
    BY <1>3, <2>1, <2>2, <2>3, AccountedStays
<1>14. Len(times) <= Limit
  BY <1>2, <1>3, <1>4, <1>6
<1>15. \A i \in 1..Len(admitted'[k]) : admitted'[k][i] <= now
  BY <1>5 DEF LInv, Accounts
<1>16. times[1] + Window <= promise'[k]
  BY <1>3, <1>7, <1>10
<1>17. \A i \in 1 .. m - 1 : buckets'[i] = found[i]
  BY <1>5
<1>18. \A q \in Keys : q # k => admitted'[q] = admitted[q] /\ promise'[q] = promise[q]
  BY <1>5, <1>10
<1>19. Len(buckets') = m
  BY <1>5, <1>9
<1> QED
  BY <1>9, <1>11, <1>12, <1>13, <1>14, <1>15, <1>16, <1>17, <1>18, <1>19, StoreMoves DEF found

LEMMA TickKeeps == ASSUME LInv, now' \in Nat, now' >= now, UNCHANGED <<buckets, admitted, evictedAt, promise>> PROVE LInv'
<1>1. LTypes'
  BY DEF LInv, LTypes
<1>2. OneBucketEach' /\ Promises'
  BY DEF LInv, OneBucketEach, Promises
<1>3. LTypes /\ now \in Nat
  BY DEF LInv, LTypes
<1>4. Accounts'
  <2>1. ASSUME NEW i \in 1..Len(buckets) PROVE Accounted(buckets[i].key, buckets[i].times)'
    <3>1. PICK k \in Keys : k = buckets[i].key
      BY <1>3, BucketFields
    <3>2. PICK times \in Seq(Nat) : times = buckets[i].times
      BY <1>3, BucketFields
    <3>3. Accounted(k, times)
      BY <3>1, <3>2 DEF LInv, Accounts
    <3>4. Accounted(k, times)'
      BY <1>3, <3>3, AccountedStays
    <3> QED
      BY <3>1, <3>2, <3>4 DEF Accounted
  <2>2. ASSUME NEW k \in Keys, Position(k)' = {} PROVE Accounted(k, <<>>)'
    <3>1. Position(k) = {}
      BY <2>2 DEF Position
    <3>5. <<>> \in Seq(Nat)
      OBVIOUS
    <3>2. PICK none \in Seq(Nat) : none = <<>>
      BY <3>5
    <3>3. Accounted(k, none)
      BY <3>1, <3>2 DEF LInv, Accounts
    <3>4. Accounted(k, none)'
      BY <1>3, <3>3, AccountedStays
    <3> QED
      BY <3>2, <3>4
  <2>3. ASSUME NEW k \in Keys, NEW i \in 1..Len(admitted[k]) PROVE admitted[k][i] <= now'
    <3>1. admitted[k][i] <= now /\ admitted[k] \in Seq(Nat)
      BY <1>3 DEF LInv, Accounts, LTypes
    <3>2. admitted[k][i] \in Nat
      BY <3>1
    <3> QED
      BY <1>3, <3>1, <3>2
  <2> QED
    BY <2>1, <2>2, <2>3 DEF Accounts
<1> QED
  BY <1>1, <1>2, <1>4 DEF LInv

LEMMA LInvInit == LInit => LInv
<1> SUFFICES ASSUME LInit PROVE LInv
  OBVIOUS
<1>1. /\ buckets = <<>> /\ now = 0 /\ admitted = [k \in Keys |-> <<>>]
      /\ evictedAt = [k \in Keys |-> None] /\ promise = [k \in Keys |-> None]
  BY DEF LInit
<1>2. PICK none : none = <<>> /\ none \in Seq(Nat) /\ none \in Seq(Buckets) /\ Len(none) = 0
  <2>1. <<>> \in Seq(Nat) /\ <<>> \in Seq(Buckets) /\ Len(<<>>) = 0
    OBVIOUS
  <2> QED
    BY <2>1
<1>3. LTypes
  BY <1>1, <1>2 DEF LTypes
<1>4. OneBucketEach /\ Promises
  BY <1>1, LimitsAssumption DEF OneBucketEach, Promises
<1>5. \A k \in Keys : admitted[k] = none
  BY <1>1, <1>2
<1>6. Accounts
  <2>1. \A k \in Keys : Accounted(k, none)
    BY <1>2, <1>5 DEF Accounted
  <2>2. \A k \in Keys : \A i \in 1..Len(admitted[k]) : admitted[k][i] <= now
    BY <1>2, <1>5
  <2> QED
    BY <1>1, <1>2, <2>1, <2>2 DEF Accounts
<1> QED
  BY <1>3, <1>4, <1>6 DEF LInv

LEMMA LInvKept == LInv /\ [LNext]_lvars => LInv'
<1> SUFFICES ASSUME LInv, [LNext]_lvars PROVE LInv'
  OBVIOUS
<1>1. now \in Nat
  BY DEF LInv, LTypes
<1>2. ASSUME UNCHANGED <<buckets, now, admitted, evictedAt, promise>> PROVE LInv'
  BY <1>1, <1>2, TickKeeps
<1>3. ASSUME NEW c \in Callers, NEW p \in Paths,
             RefuseUnnamed(c, p) \/ PassExempt(c, p) \/ PassLimited(c, p) \/ RefuseLimited(c, p)
      PROVE  LInv'
  <2>1. PICK k \in Keys : k = Key(c)
    BY DEF Keys
  <2>2. CASE RefuseUnnamed(c, p) \/ PassExempt(c, p)
    BY <1>2, <2>2 DEF RefuseUnnamed, PassExempt
  <2>3. CASE PassLimited(c, p)
    BY <2>1, <2>3, AdmitKeeps DEF PassLimited
  <2>4. CASE RefuseLimited(c, p)
    BY <2>1, <2>4, RefuseKeeps DEF RefuseLimited
  <2> QED
    BY <1>3, <2>2, <2>3, <2>4
<1>4. CASE ClockTick
  BY <1>1, <1>4, TickKeeps DEF ClockTick
<1>5. CASE UNCHANGED lvars
  BY <1>2, <1>5 DEF lvars
<1> QED
  BY <1>3, <1>4, <1>5 DEF LNext

LEMMA LInvariant == LSpec => []LInv
BY LInvInit, LInvKept, PTL DEF LSpec

\* No caller gets more than the window allows, unless its bucket made room for another, and
\* none that waits as long as it was told to is refused again (rate_limits.evaluate).
THEOREM LimitsAreHonest == LSpec => []LimitsHonest
<1>1. ASSUME LInv PROVE LimitsHonest
  <2>1. LTypes /\ now \in Nat /\ Limit \in Nat \ {0} /\ Window \in Nat
    BY <1>1, LimitsAssumption DEF LInv, LTypes
  <2>2. ASSUME NEW k \in Keys, evictedAt[k] = None \/ evictedAt[k] + Window <= now
        PROVE  Len(Live(admitted[k])) <= Limit
    <3>1. PICK times \in Seq(Nat) : Accounted(k, times) /\ Len(times) <= Limit
      <4>1. CASE Position(k) = {}
        <5>3. <<>> \in Seq(Nat) /\ Len(<<>>) = 0
          OBVIOUS
        <5>1. PICK none \in Seq(Nat) : none = <<>> /\ Len(none) = 0
          BY <5>3
        <5>2. Accounted(k, none)
          BY <1>1, <4>1, <5>1 DEF LInv, Accounts
        <5>4. Len(none) <= Limit
          BY <2>1, <5>1
        <5> QED
          BY <5>2, <5>4, Zenon
      <4>2. CASE Position(k) # {}
        <5>1. PICK i \in 1..Len(buckets) : buckets[i].key = k
          BY <2>1, <4>2 DEF Position, LTypes
        <5>2. Accounted(k, buckets[i].times) /\ Len(buckets[i].times) <= Limit /\ buckets[i].times \in Seq(Nat)
          BY <1>1, <2>1, <5>1, BucketFields DEF LInv, Accounts, OneBucketEach
        <5> QED
          BY <5>2
      <4> QED
        BY <4>1, <4>2
    <3> DEFINE a == admitted[k]  n == Len(a)  d == n - Len(times)
    <3>2. a \in Seq(Nat) /\ n \in Nat /\ Len(times) \in Nat /\ Len(times) <= n
      BY <2>1, <3>1 DEF LTypes, Accounted
    <3>3. evictedAt[k] # None => evictedAt[k] \in Nat
      BY <2>1 DEF LTypes
    <3>4. \A i \in 1..d : a[i] + Window <= now \/ (evictedAt[k] # None /\ a[i] <= evictedAt[k])
      BY <3>1 DEF Accounted
    <3>5. \A i \in 1..n : a[i] \in Nat
      BY <3>2
    <3>6. PICK f \in 1..n + 1 : (f <= n => a[f] + Window > now) /\ Len(Live(a)) = n - f + 1
      BY <2>1, <3>2, LiveFacts
    <3> HIDE DEF a, n
    <3>7. \A i \in 1..d : i \in 1..n
      BY <3>2
    <3>8. \A i \in 1..d : a[i] + Window <= now
      <4> SUFFICES ASSUME NEW i \in 1..d PROVE a[i] + Window <= now
        OBVIOUS
      <4>1. a[i] \in Nat
        BY <3>5, <3>7
      <4>2. a[i] + Window <= now \/ (evictedAt[k] # None /\ a[i] <= evictedAt[k])
        BY <3>4
      <4> QED
        BY <2>1, <2>2, <3>3, <4>1, <4>2
    <3>9. f > d
      <4> SUFFICES ASSUME ~ (f > d) PROVE FALSE
        OBVIOUS
      <4>1. f \in 1..d /\ f <= n
        BY <3>2, <3>6
      <4>2. a[f] + Window <= now /\ a[f] + Window > now /\ a[f] \in Nat
        BY <3>5, <3>6, <3>7, <3>8, <4>1
      <4> QED
        BY <2>1, <4>2
    <3>10. Len(Live(a)) <= Len(times)
      BY <3>2, <3>6, <3>9
    <3>11. Len(Live(a)) \in Int
      BY <3>2, <3>6
    <3> QED
      BY <2>1, <3>1, <3>2, <3>10, <3>11 DEF a
  <2>3. ASSUME NEW k \in Keys, promise[k] # None, now >= promise[k], NEW i \in Position(k)
        PROVE  Len(Live(buckets[i].times)) < Limit
    <3>1. i \in 1..Len(buckets) /\ buckets[i].key = k
      BY <2>1, <2>3 DEF Position, LTypes
    <3>2. PICK times \in Seq(Nat) : times = buckets[i].times
      BY <2>1, <3>1, BucketFields
    <3>3. /\ Len(times) <= Limit /\ promise[k] \in Nat
          /\ Len(times) < Limit \/ times[1] + Window <= promise[k]
      BY <1>1, <2>1, <2>3, <3>1, <3>2 DEF LInv, OneBucketEach, Promises, LTypes
    <3>4. PICK f \in 1..Len(times) + 1 : (f <= Len(times) => times[f] + Window > now)
                                         /\ Len(Live(times)) = Len(times) - f + 1
      BY <2>1, LiveFacts
    <3>5. Len(times) \in Nat
      OBVIOUS
    <3>6. CASE Len(times) < Limit
      <4>1. Len(Live(times)) <= Len(times) /\ Len(Live(times)) \in Int
        BY <3>4, <3>5
      <4> QED
        BY <2>1, <3>2, <3>5, <3>6, <4>1
    <3>7. CASE ~ (Len(times) < Limit)
      <4>1. 1 \in 1..Len(times) /\ times[1] \in Nat
        <5>1. 1 \in 1..Len(times)
          BY <2>1, <3>5, <3>7
        <5> QED
          BY <5>1
      <4>2. ~ (times[1] + Window > now)
        BY <2>1, <2>3, <3>3, <3>7, <4>1
      <4>3. f # 1
        BY <3>4, <3>5, <4>1, <4>2
      <4>4. Len(Live(times)) < Len(times) /\ Len(Live(times)) \in Int
        BY <3>4, <3>5, <4>3
      <4> QED
        BY <2>1, <3>2, <3>3, <3>5, <4>4
    <3> QED
      BY <3>6, <3>7
  <2>4. WindowBound
    BY <1>1, <2>2 DEF WindowBound, LInv, OneBucketEach
  <2>5. RetryAfterHonest
    BY <2>3 DEF RetryAfterHonest
  <2> QED
    BY <2>4, <2>5 DEF LimitsHonest
<1>2. LInv => LimitsHonest
  BY <1>1
<1> QED
  BY <1>2, LInvariant, PTL
=============================================================================
