------------------------- MODULE CallServices_proofs ------------------------
(***************************************************************************)
(* What is called keeps its promises for any number of calls, callers and  *)
(* approvals: the delegation of a mesh node, the tool gateway and the      *)
(* steps of a workflow.                                                    *)
(*                                                                         *)
(* Each part states what its properties lack to be inductive, as an        *)
(* invariant of several named conjuncts, and shows that every action keeps *)
(* each of them.                                                           *)
(***************************************************************************)
EXTENDS MeshDelegation, ToolCalls, WorkflowRuns, FiniteSetTheorems, SequenceTheorems, TLAPS

-----------------------------------------------------------------------------
(* Delegation.  A nonce is counted once more only if it was forgotten      *)
(* (Replay), what waits for an approval was not routed yet (RoutedCopies), *)
(* one copy has one handler (FirstCopy), and the uses of the last hour are *)
(* counted (Counted).                                                      *)

Grants == [covers : SUBSET Want, approval : BOOLEAN, limit : Nat, until : Nat]
Permits == [kind : SUBSET Want, at : Nat, limit : Nat]
Answers == {"ok", "refused", "later", "failed", None}
Calls == [pc : {"idle", "sent", "ended"}, want : Want \cup {None}, at : Nat, got : Answers]
Hands == [pc : {"idle", "asking", "routing"}, call : Call \cup {None}]
HitchRecord == [edits : Nat, reboots : Nat, lead : Nat,
                approver : SUBSET {"approved", "pending", "denied", "raises"}]

\* The handlers that wait for the approval of a call, and those that handle it at all.
Asking(c) == {h \in Handler : hand[h].pc = "asking" /\ hand[h].call = c}
Handles(h, c) == hand[h].pc # "idle" /\ hand[h].call = c

DTypes ==
  /\ time \in Nat
  /\ hitch \in HitchRecord
  /\ call \in [Call -> Calls]
  /\ peer \in PeerRecord \cup {None}
  /\ seen \in Seq(Call)
  /\ permits \in Seq(Permits)
  /\ spent \subseteq 1..Len(permits)
  /\ hand \in [Handler -> Hands]
  /\ \A h \in Handler : hand[h].pc # "idle" => hand[h].call \in Call
  /\ copies \in [Call -> Nat] /\ routed \in [Call -> Nat] /\ forgot \in [Call -> Nat]
  /\ done \subseteq Call

\* An envelope passes the checks once, and once more for each time its nonce was forgotten too
\* early: a first copy leaves the nonce in the cache until it is dropped or the envelope is old.
Replay ==
  \A c \in Call :
    /\ call[c].pc = "idle" => copies[c] = 0
    /\ copies[c] <= 1 + forgot[c]
    /\ copies[c] <= forgot[c] \/ Contains(seen, c) \/ time > call[c].at + AgeLimit

\* A copy is routed at most once: what waits for an approval has not been routed yet.
RoutedCopies ==
  \A c \in Call : /\ IsFiniteSet(Asking(c))
                  /\ routed[c] + Cardinality(Asking(c)) <= copies[c]

\* What is so before the first copy, and as long as there is one at most.
FirstCopy ==
  \A c \in Call :
    /\ copies[c] = 0 => /\ c \notin done /\ call[c].got \notin {"ok", "refused", "later"}
                        /\ \A h \in Handler : ~Handles(h, c)
    /\ forgot[c] = 0 =>
         \A h \in Handler : Handles(h, c) =>
           /\ c \notin done /\ call[c].got \notin {"ok", "refused", "later"}
           /\ \A g \in Handler : Handles(g, c) => g = h

\* The uses of the last hour are all still counted.
Counted ==
  \A i \in 1..Len(permits) :
    permits[i].at <= time /\ (permits[i].at + Hour > time => i \in spent)

DInv == DTypes /\ Replay /\ RoutedCopies /\ FirstCopy /\ AnswerTellsEffect /\ Counted /\ HourlyBudget


\* A set of numbers that is not empty has a least element.
LEMMA LeastNumber ==
  ASSUME NEW S \in SUBSET Nat, S # {}
  PROVE Min(S) \in S /\ \A m \in S : Min(S) <= m
<1> DEFINE Below == {p \in Nat \X Nat : p[1] < p[2]}
<1>1. IsWellFoundedOn(Below, Nat)
  BY NatLessThanWellFounded DEF OpToRel
<1>2. PICK n \in S : \A m \in S : ~(<<m, n>> \in Below)
  <2> HIDE DEF Below
  <2> QED
    BY <1>1, WFMin
<1>3. ASSUME NEW m \in S PROVE n <= m
  <2>1. ~(<<m, n>> \in Below)
    BY <1>2
  <2> QED
    BY <2>1
<1> QED
  BY <1>2, <1>3 DEF Min

\* _find_grant finds a grant of the peer, when there is one.
LEMMA FoundOne ==
  ASSUME DTypes, peer # None, NEW want, Matching(want) # {}
  PROVE FoundGrant(want) \in Grants
<1>1. peer.grants \in Seq(Grants)
  BY MeshAssumption DEF DTypes, Grants
<1>2. Matching(want) \in SUBSET Nat /\ Matching(want) \subseteq 1..Len(peer.grants)
  BY <1>1 DEF Matching
<1>3. Min(Matching(want)) \in Matching(want)
  BY <1>2, LeastNumber
<1> QED
  BY <1>1, <1>2, <1>3 DEF FoundGrant

\* What an answer does to the calls.
LEMMA Answered ==
  ASSUME DTypes, NEW c \in Call, NEW status \in Answers, Answer(c, status)
  PROVE /\ call' \in [Call -> Calls]
        /\ \A d \in Call : /\ call'[d].at = call[d].at
                           /\ \/ call'[d].pc = call[d].pc
                              \/ call[d].pc = "sent" /\ call'[d].pc = "ended"
                           /\ call'[d].want = call[d].want
                           /\ \/ call'[d].got \in {call[d].got, "failed"}
                              \/ d = c /\ call'[d].got = status
<1>1. call \in [Call -> Calls]
  BY DEF DTypes
<1>2. CASE UNCHANGED call
  BY <1>1, <1>2
<1>3. CASE /\ call[c].pc = "sent"
           /\ call' = [call EXCEPT ![c].pc = "ended",
                                   ![c].got = IF hitch.lead > AgeLimit THEN "failed" ELSE status]
  <2>1. PICK got \in {status, "failed"} : call' = [call EXCEPT ![c].pc = "ended", ![c].got = got]
    BY <1>3, Zenon
  <2>2. got \in Answers
    BY DEF Answers
  <2>3. call' \in [Call -> Calls]
    BY <1>1, <2>1, <2>2, ZenonT(40) DEF Calls
  <2>4. ASSUME NEW d \in Call, d # c PROVE call'[d] = call[d]
    BY <1>1, <2>1, <2>4
  <2>5. call[c] \in Calls /\ call' = [call EXCEPT ![c] = [call[c] EXCEPT !.pc = "ended", !.got = got]]
    BY <1>1, <2>1
  <2>6. /\ call'[c].at = call[c].at /\ call'[c].want = call[c].want
        /\ call'[c].pc = "ended" /\ call'[c].got = got
    BY <1>1, <2>5 DEF Calls
  <2> QED
    BY <1>3, <2>1, <2>3, <2>4, <2>6
<1> QED
  BY <1>2, <1>3 DEF Answer

\* The cache takes the nonce of the call; what it drops is old or counted as forgotten.
LEMMA Remembered ==
  ASSUME DTypes, NEW c \in Call, Remember(c)
  PROVE /\ seen' \in Seq(Call) /\ Contains(seen', c)
        /\ forgot' \in [Call -> Nat]
        /\ \A d \in Call : forgot'[d] \in {forgot[d], forgot[d] + 1}
        /\ \A d \in Call : Contains(seen, d) =>
             Contains(seen', d) \/ forgot'[d] = forgot[d] + 1 \/ time > call[d].at + AgeLimit
<1> DEFINE full == Len(seen) = NonceRoom
           kept == IF full THEN Tail(seen) ELSE seen
<1>1. seen \in Seq(Call) /\ forgot \in [Call -> Nat] /\ time \in Nat /\ call \in [Call -> Calls]
  BY DEF DTypes
<1>2. full => seen # <<>>
  BY <1>1, MeshAssumption
<1>3. kept \in Seq(Call) /\ seen' = Append(kept, c)
  BY <1>1, <1>2 DEF Remember
<1>4. ASSUME NEW d \in Call, Contains(seen, d), ~(full /\ d = Head(seen)) PROVE Contains(kept, d)
  <2>1. PICK i \in 1..Len(seen) : seen[i] = d
    BY <1>4 DEF Contains
  <2>2. CASE full
    <3>1. i - 1 \in 1..Len(Tail(seen)) /\ Tail(seen)[i - 1] = d
      BY <1>1, <1>2, <1>4, <2>1, <2>2
    <3> QED
      BY <2>2, <3>1 DEF Contains
  <2> QED
    BY <1>4, <2>2
<1>5. ASSUME NEW d \in Call, Contains(kept, d) PROVE Contains(seen', d)
  <2> HIDE DEF kept
  <2> QED
    BY <1>3, <1>5 DEF Contains
<1>6. Contains(seen', c)
  <2> HIDE DEF kept
  <2>1. Len(seen') \in 1..Len(seen') /\ seen'[Len(seen')] = c
    BY <1>3
  <2> QED
    BY <2>1 DEF Contains
<1>7. seen' \in Seq(Call)
  BY <1>3
<1>8. forgot' = [d \in Call |-> IF full /\ d = Head(seen) /\ time <= call[d].at + AgeLimit
                                THEN forgot[d] + 1 ELSE forgot[d]]
  BY DEF Remember
<1>9. forgot' \in [Call -> Nat] /\ \A d \in Call : forgot'[d] \in {forgot[d], forgot[d] + 1}
  BY <1>1, <1>8
<1>10. ASSUME NEW d \in Call, full, d = Head(seen)
       PROVE forgot'[d] = forgot[d] + 1 \/ time > call[d].at + AgeLimit
  BY <1>1, <1>8, <1>10, MeshAssumption DEF Calls
<1> QED
  BY <1>4, <1>5, <1>6, <1>7, <1>9, <1>10

\* The part of Receive that is not about the cache.
LEMMA Received ==
  ASSUME DTypes, NEW h \in Handler, NEW c \in Call, Receive(h, c)
  PROVE /\ hand[h].pc = "idle" /\ call[c].pc # "idle" /\ Accepted(c)
        /\ copies' = [copies EXCEPT ![c] = @ + 1] /\ Remember(c)
        /\ UNCHANGED <<time, hitch, peer, done>>
        /\ \/ (\E status \in {"refused", "later"} : Answer(c, status)) /\ UNCHANGED <<hand, routed>>
           \/ hand' = [hand EXCEPT ![h] = [pc |-> "asking", call |-> c]] /\ UNCHANGED <<call, routed>>
           \/ Route(h, c)
        /\ Spend \/ \E want : Permitted(want) /\ Permit(want)
  BY DEF Receive

\* One use of a grant that has something left of its hourly budget.
Use(g) ==
  /\ Cardinality(Recent(g)) < g.limit
  /\ permits' = Append(permits, [kind |-> g.covers, at |-> time, limit |-> g.limit])
  /\ spent' = (spent \ ({i \in spent : permits[i].kind = g.covers} \ Recent(g))) \cup {Len(permits) + 1}

\* Receive permits one use at most, and keeps the types of what it counts with.
LEMMA Uses ==
  ASSUME DTypes, peer # None, Spend \/ \E want : Permitted(want) /\ Permit(want)
  PROVE /\ permits' \in Seq(Permits) /\ spent' \subseteq 1..Len(permits')
        /\ UNCHANGED <<spent, permits>> \/ \E g \in Grants : Use(g)
<1>1. permits \in Seq(Permits) /\ spent \subseteq 1..Len(permits) /\ time \in Nat
  BY DEF DTypes
<1>2. CASE UNCHANGED <<spent, permits>>
  BY <1>1, <1>2
<1>3. ASSUME NEW want, Permitted(want), Permit(want), ~UNCHANGED <<spent, permits>>
      PROVE \E g \in Grants : Use(g)
  <2>1. FoundGrant(want) \in Grants
    BY <1>3, FoundOne DEF Permitted
  <2>2. FoundGrant(want).limit = 0 \/ Cardinality(Recent(FoundGrant(want))) < FoundGrant(want).limit
    BY <1>3 DEF Permitted
  <2> QED
    BY <1>3, <2>1, <2>2 DEF Permit, Use
<1>4. ASSUME NEW g \in Grants, Use(g) PROVE permits' \in Seq(Permits) /\ spent' \subseteq 1..Len(permits')
  <2>1. [kind |-> g.covers, at |-> time, limit |-> g.limit] \in Permits
    BY <1>1 DEF Grants, Permits
  <2>2. permits' \in Seq(Permits) /\ Len(permits') = Len(permits) + 1
    BY <1>1, <1>4, <2>1 DEF Use
  <2>3. spent' \subseteq spent \cup {Len(permits) + 1}
    BY <1>4 DEF Use
  <2> QED
    BY <1>1, <2>2, <2>3
<1> QED
  BY <1>2, <1>3, <1>4 DEF Spend

\* A use within the budget keeps the budget: the uses of the last hour that the property counts
\* are all among those the policy counted.
LEMMA UseWithinBudget ==
  ASSUME DTypes, Counted, HourlyBudget, NEW g \in Grants, Use(g), UNCHANGED time
  PROVE Counted' /\ HourlyBudget'
<1> DEFINE n == Len(permits) + 1
           new == [kind |-> g.covers, at |-> time, limit |-> g.limit]
           Within == {j \in 1..n : /\ permits'[j].kind = permits'[n].kind
                                 /\ permits'[j].at + Hour > permits'[n].at}
<1>1. permits \in Seq(Permits) /\ spent \subseteq 1..Len(permits) /\ time \in Nat /\ Hour \in Nat \ {0}
  BY MeshAssumption DEF DTypes
<1>2. new \in Permits
  BY <1>1 DEF Grants, Permits
<1>3. /\ permits' \in Seq(Permits) /\ Len(permits') = n /\ permits'[n] = new
      /\ \A i \in 1..Len(permits) : permits'[i] = permits[i]
  BY <1>1, <1>2 DEF Use
<1>4. /\ permits'[n].kind = g.covers /\ permits'[n].at = time /\ permits'[n].limit = g.limit
      /\ g.limit \in Nat
  BY <1>3 DEF Grants
<1>5. Counted'
  <2>1. ASSUME NEW i \in 1..Len(permits)
        PROVE permits'[i].at <= time /\ (permits'[i].at + Hour > time => i \in spent')
    <3>1. permits[i].at <= time /\ (permits[i].at + Hour > time => i \in spent)
      BY DEF Counted
    <3> QED
      BY <1>3, <3>1 DEF Use, Recent
  <2>2. permits'[n].at <= time /\ n \in spent'
    BY <1>1, <1>4 DEF Use
  <2> QED
    BY <1>1, <1>3, <2>1, <2>2 DEF Counted
<1>6. Within \subseteq Recent(g) \cup {n}
  <2>1. ASSUME NEW j \in Within, j # n PROVE j \in Recent(g)
    <3>1. j \in 1..Len(permits)
      BY <1>1, <2>1
    <3>2. permits[j].kind = g.covers /\ permits[j].at + Hour > time
      BY <1>3, <1>4, <3>1
    <3> QED
      BY <3>1, <3>2 DEF Counted, Recent
  <2> QED
    BY <2>1
<1>7. IsFiniteSet(Recent(g))
  <2>1. IsFiniteSet(1..Len(permits))
    BY <1>1, FS_Interval
  <2>2. Recent(g) \in SUBSET (1..Len(permits))
    BY <1>1 DEF Recent
  <2> QED
    BY <2>1, <2>2, FS_Subset
<1>8. Cardinality(Within) <= g.limit
  <2> HIDE DEF Within, n
  <2>1. Cardinality(Recent(g)) \in Nat /\ Cardinality(Recent(g)) < g.limit
    BY <1>7, FS_CardinalityType DEF Use
  <2>2. IsFiniteSet(Recent(g) \cup {n}) /\ Cardinality(Recent(g) \cup {n}) <= Cardinality(Recent(g)) + 1
    BY <1>7, <2>1, FS_AddElement
  <2>3. IsFiniteSet(Within) /\ Cardinality(Within) <= Cardinality(Recent(g) \cup {n})
    BY <1>6, <2>2, FS_Subset
  <2>4. Cardinality(Within) \in Nat /\ Cardinality(Recent(g) \cup {n}) \in Nat
    BY <2>2, <2>3, FS_CardinalityType
  <2> QED
    BY <1>4, <2>1, <2>2, <2>3, <2>4
<1>9. ASSUME NEW i \in 1..Len(permits)
      PROVE Cardinality({j \in 1..i : /\ permits'[j].kind = permits'[i].kind
                                      /\ permits'[j].at + Hour > permits'[i].at}) <= permits'[i].limit
  <2>1. {j \in 1..i : permits'[j].kind = permits'[i].kind /\ permits'[j].at + Hour > permits'[i].at}
          = {j \in 1..i : permits[j].kind = permits[i].kind /\ permits[j].at + Hour > permits[i].at}
    BY <1>1, <1>3
  <2> QED
    BY <1>1, <1>3, <2>1 DEF HourlyBudget
<1>10. HourlyBudget'
  <2>1. DOMAIN permits' = 1..n
    BY <1>3
  <2>2. ASSUME NEW i \in 1..n
        PROVE Cardinality({j \in 1..i : /\ permits'[j].kind = permits'[i].kind
                                        /\ permits'[j].at + Hour > permits'[i].at}) <= permits'[i].limit
    <3>1. CASE i = n
      BY <1>4, <1>8, <3>1
    <3>2. CASE i # n
      <4>1. i \in 1..Len(permits)
        BY <1>1, <3>2
      <4> QED
        BY <1>9, <4>1
    <3> QED
      BY <3>1, <3>2
  <2> QED
    BY <2>1, <2>2 DEF HourlyBudget
<1> QED
  BY <1>5, <1>10

\* approval_fn returns: the handler goes on, or the call is answered.
LEMMA Approved ==
  ASSUME DTypes, NEW h \in Handler, Approve(h)
  PROVE /\ hand[h].pc = "asking" /\ hand[h].call \in Call
        /\ call' \in [Call -> Calls] /\ routed' \in [Call -> Nat]
        /\ \/ Route(h, hand[h].call)
           \/ /\ hand' = [hand EXCEPT ![h] = Waiting] /\ UNCHANGED routed
              /\ \E status \in {"refused", "later"} : Answer(hand[h].call, status)
<1>1. hand[h].pc = "asking" /\ hand[h].call \in Call
  BY DEF Approve, DTypes
<1>2. \/ Route(h, hand[h].call)
      \/ /\ hand' = [hand EXCEPT ![h] = Waiting] /\ UNCHANGED routed
         /\ \E status \in {"refused", "later"} : Answer(hand[h].call, status)
  <2>1. PICK outcome \in hitch.approver :
          \/ Route(h, hand[h].call)
          \/ /\ Answer(hand[h].call, IF outcome \in {"pending", "raises"} THEN "later" ELSE "refused")
             /\ hand' = [hand EXCEPT ![h] = Waiting] /\ UNCHANGED routed
    BY DEF Approve
  <2>2. (IF outcome \in {"pending", "raises"} THEN "later" ELSE "refused") \in {"refused", "later"}
    OBVIOUS
  <2> QED
    BY <2>1, <2>2
<1>3. CASE Route(h, hand[h].call)
  BY <1>1, <1>3 DEF Route, DTypes
<1>4. ASSUME UNCHANGED routed, NEW status \in {"refused", "later"}, Answer(hand[h].call, status)
      PROVE call' \in [Call -> Calls] /\ routed' \in [Call -> Nat]
  <2>1. status \in Answers
    BY DEF Answers
  <2> QED
    BY <1>1, <1>4, <2>1, Answered DEF DTypes
<1> QED
  BY <1>1, <1>2, <1>3, <1>4

\* The tool gateway returns: "ok" and the end of the tool go together.
LEMMA Finished ==
  ASSUME DTypes, NEW h \in Handler, Finish(h)
  PROVE /\ hand[h].pc = "routing" /\ hand[h].call \in Call /\ hand' = [hand EXCEPT ![h] = Waiting]
        /\ call' \in [Call -> Calls]
        /\ \/ Answer(hand[h].call, "ok") /\ done' = done \cup {hand[h].call}
           \/ (\E status \in {"refused", "failed"} : Answer(hand[h].call, status)) /\ done' = done
<1>1. hand[h].pc = "routing" /\ hand[h].call \in Call /\ hand' = [hand EXCEPT ![h] = Waiting]
  BY DEF Finish, DTypes
<1>2. \/ Answer(hand[h].call, "ok") /\ done' = done \cup {hand[h].call}
      \/ (\E status \in {"refused", "failed"} : Answer(hand[h].call, status)) /\ done' = done
  <2>1. StatusFor("ok") = "ok" /\ StatusFor("error") = "refused" /\ StatusFor("unapproved") = "failed"
    BY DEF StatusFor
  <2>2. PICK outcome \in {"ok", "error", "unapproved"} :
          /\ Answer(hand[h].call, StatusFor(outcome))
          /\ done' = IF outcome = "ok" THEN done \cup {hand[h].call} ELSE done
    BY DEF Finish
  <2>3. CASE outcome = "ok"
    BY <2>1, <2>2, <2>3
  <2>4. CASE outcome # "ok"
    BY <2>1, <2>2, <2>4
  <2> QED
    BY <2>3, <2>4
<1> QED
  BY <1>1, <1>2, Answered DEF Answers

LEMMA DTypesKept ==
  DTypes /\ [DNext]_dvars => DTypes'
<1> SUFFICES ASSUME DTypes, [DNext]_dvars PROVE DTypes'
  OBVIOUS
<1>1. ASSUME NEW c \in Call, GiveUp(c) PROVE DTypes'
  <2>1. call' \in [Call -> Calls]
    BY <1>1, Answered DEF GiveUp, Answer, Answers
  <2> QED
    BY <1>1, <2>1 DEF GiveUp, DTypes
<1>2. ASSUME NEW c \in Call, Reject(c) PROVE DTypes'
  <2>1. call' \in [Call -> Calls]
    BY <1>2, Answered DEF Reject, Answers
  <2> QED
    BY <1>2, <2>1 DEF Reject, DTypes
<1>3. ASSUME NEW c \in Call, NEW want \in Want, Delegate(c, want) PROVE DTypes'
  <2>1. time + hitch.lead \in Nat
    BY DEF DTypes, HitchRecord
  <2>2. [pc |-> "sent", want |-> want, at |-> time + hitch.lead, got |-> None] \in Calls
    BY <2>1 DEF DTypes, Calls, Answers
  <2> QED
    BY <1>3, <2>2 DEF Delegate, DTypes
<1>4. ASSUME NEW h \in Handler, Approve(h) PROVE DTypes'
  <2>1. call' \in [Call -> Calls] /\ routed' \in [Call -> Nat]
    BY <1>4, Approved
  <2>2. hand' \in [Handler -> Hands] /\ \A g \in Handler : hand'[g].pc # "idle" => hand'[g].call \in Call
    <3>1. CASE Route(h, hand[h].call)
      BY <1>4, <3>1, Approved DEF Route, DTypes, Hands
    <3>2. CASE hand' = [hand EXCEPT ![h] = Waiting]
      BY <3>2 DEF DTypes, Hands, Waiting
    <3> QED
      BY <1>4, <3>1, <3>2, Approved
  <2> QED
    BY <1>4, <2>1, <2>2 DEF Approve, DTypes
<1>5. ASSUME NEW h \in Handler, Finish(h) PROVE DTypes'
  <2>1. call' \in [Call -> Calls] /\ done' \subseteq Call
    BY <1>5, Finished DEF DTypes
  <2>2. hand' \in [Handler -> Hands] /\ \A g \in Handler : hand'[g].pc # "idle" => hand'[g].call \in Call
    BY <1>5 DEF Finish, DTypes, Hands, Waiting
  <2> QED
    BY <1>5, <2>1, <2>2 DEF Finish, DTypes
<1>6. ASSUME NEW h \in Handler, NEW c \in Call, Receive(h, c) PROVE DTypes'
  <2>1. peer # None /\ copies' = [copies EXCEPT ![c] = copies[c] + 1] /\ UNCHANGED <<time, hitch, peer, done>>
    BY <1>6, Received DEF Accepted
  <2>2. seen' \in Seq(Call) /\ forgot' \in [Call -> Nat]
    BY <1>6, Received, Remembered
  <2>3. permits' \in Seq(Permits) /\ spent' \subseteq 1..Len(permits')
    BY <1>6, <2>1, Received, Uses
  <2>4. /\ call' \in [Call -> Calls] /\ routed' \in [Call -> Nat]
        /\ hand' \in [Handler -> Hands] /\ \A g \in Handler : hand'[g].pc # "idle" => hand'[g].call \in Call
    <3>1. CASE (\E status \in {"refused", "later"} : Answer(c, status)) /\ UNCHANGED <<hand, routed>>
      BY <3>1, Answered DEF DTypes, Answers
    <3>2. CASE hand' = [hand EXCEPT ![h] = [pc |-> "asking", call |-> c]] /\ UNCHANGED <<call, routed>>
      BY <3>2 DEF DTypes, Hands
    <3>3. CASE Route(h, c)
      BY <3>3 DEF Route, DTypes, Hands
    <3> QED
      BY <1>6, <3>1, <3>2, <3>3, Received
  <2>5. copies' \in [Call -> Nat]
    BY <2>1 DEF DTypes
  <2>6. UNCHANGED <<time, hitch, peer, done>>
    BY <2>1
  <2> QED
    BY <2>2, <2>3, <2>4, <2>5, <2>6 DEF DTypes
<1>7. ASSUME NEW record \in PeerRecord \cup {None}, SetPeer(record) PROVE DTypes'
  <2>1. hitch' \in HitchRecord
    <3>1. /\ hitch' = [hitch EXCEPT !.edits = hitch.edits - 1]
          /\ hitch \in HitchRecord /\ hitch.edits > 0
      BY <1>7 DEF SetPeer, DTypes
    <3>2. hitch.edits - 1 \in Nat
      BY <3>1 DEF HitchRecord
    <3> QED
      BY <3>1, <3>2 DEF HitchRecord
  <2> QED
    BY <1>7, <2>1 DEF SetPeer, DTypes
<1>8. CASE Reboot
  <2>1. forgot' \in [Call -> Nat]
    BY <1>8 DEF Reboot, DTypes
  <2>2. hand' \in [Handler -> Hands] /\ \A g \in Handler : hand'[g].pc = "idle"
    BY <1>8 DEF Reboot, Waiting, Hands
  <2>3. hitch' \in HitchRecord
    <3>1. /\ hitch' = [hitch EXCEPT !.reboots = hitch.reboots - 1]
          /\ hitch \in HitchRecord /\ hitch.reboots > 0
      BY <1>8 DEF Reboot, DTypes
    <3>2. hitch.reboots - 1 \in Nat
      BY <3>1 DEF HitchRecord
    <3> QED
      BY <3>1, <3>2 DEF HitchRecord
  <2> QED
    BY <1>8, <2>1, <2>2, <2>3 DEF Reboot, DTypes
<1>9. CASE MeshTick
  BY <1>9 DEF MeshTick, DTypes
<1>10. CASE UNCHANGED dvars
  BY <1>10 DEF dvars, DTypes
<1> QED
  BY <1>1, <1>2, <1>3, <1>4, <1>5, <1>6, <1>7, <1>8, <1>9, <1>10
  DEF DNext

\* The steps that may answer a call change nothing else of it.
LEMMA SameEnvelope ==
  ASSUME DTypes, NEW c \in Call, NEW status \in Answers, Answer(c, status), NEW d \in Call
  PROVE call'[d].at = call[d].at /\ (call'[d].pc = "idle" <=> call[d].pc = "idle")
  BY Answered

\* Replay only looks at the clock, the cache, the copies and the stamps of the envelopes.
LEMMA ReplayFrame ==
  ASSUME DTypes, Replay, UNCHANGED <<time, seen, copies, forgot>>,
         \A d \in Call : call'[d].at = call[d].at /\ (call'[d].pc = "idle" <=> call[d].pc = "idle")
  PROVE Replay'
  BY DEF Replay, DTypes

LEMMA ReplayKept ==
  DTypes /\ Replay /\ [DNext]_dvars => Replay'
<1> SUFFICES ASSUME DTypes, Replay, [DNext]_dvars PROVE Replay'
  OBVIOUS
<1>1. ASSUME NEW c \in Call, GiveUp(c) PROVE Replay'
  <2>1. Answer(c, "failed")
    BY <1>1 DEF GiveUp, Answer
  <2> QED
    BY <1>1, <2>1, SameEnvelope, ReplayFrame DEF GiveUp, Answers
<1>2. ASSUME NEW c \in Call, Reject(c) PROVE Replay'
  BY <1>2, SameEnvelope, ReplayFrame DEF Reject, Answers
<1>3. ASSUME NEW c \in Call, NEW want \in Want, Delegate(c, want) PROVE Replay'
  <2>1. copies[c] = 0 /\ call[c].pc = "idle"
    BY <1>3 DEF Delegate, Replay
  <2>2. /\ call'[c].pc = "sent" /\ \A d \in Call : d # c => call'[d] = call[d]
        /\ UNCHANGED <<time, seen, copies, forgot>>
    BY <1>3 DEF Delegate, DTypes
  <2>3. forgot \in [Call -> Nat]
    BY DEF DTypes
  <2>4. ASSUME NEW d \in Call
        PROVE /\ call'[d].pc = "idle" => copies'[d] = 0
              /\ copies'[d] <= 1 + forgot'[d]
              /\ copies'[d] <= forgot'[d] \/ Contains(seen', d) \/ time' > call'[d].at + AgeLimit
    BY <2>1, <2>2, <2>3 DEF Replay
  <2> QED
    BY <2>4 DEF Replay
<1>4. ASSUME NEW h \in Handler, Approve(h) PROVE Replay'
  <2>1. \A d \in Call : call'[d].at = call[d].at /\ (call'[d].pc = "idle" <=> call[d].pc = "idle")
    BY <1>4, Approved, SameEnvelope DEF Route, Answers
  <2> QED
    BY <1>4, <2>1, ReplayFrame DEF Approve
<1>5. ASSUME NEW h \in Handler, Finish(h) PROVE Replay'
  <2>1. \A d \in Call : call'[d].at = call[d].at /\ (call'[d].pc = "idle" <=> call[d].pc = "idle")
    BY <1>5, Finished, SameEnvelope DEF Answers
  <2> QED
    BY <1>5, <2>1, ReplayFrame DEF Finish
<1>6. ASSUME NEW h \in Handler, NEW c \in Call, Receive(h, c) PROVE Replay'
  <2>1. \A d \in Call : call'[d].at = call[d].at /\ (call'[d].pc = "idle" <=> call[d].pc = "idle")
    BY <1>6, Received, SameEnvelope DEF Route, Answers
  <2>2. /\ call[c].pc # "idle" /\ time <= call[c].at + AgeLimit /\ ~Contains(seen, c)
        /\ copies' = [copies EXCEPT ![c] = copies[c] + 1] /\ UNCHANGED time
    BY <1>6, Received DEF Accepted, InWindow
  <2>3. /\ \A d \in Call : forgot'[d] \in {forgot[d], forgot[d] + 1}
        /\ Contains(seen', c)
        /\ \A d \in Call : Contains(seen, d) =>
             Contains(seen', d) \/ forgot'[d] = forgot[d] + 1 \/ time > call[d].at + AgeLimit
    BY <1>6, Received, Remembered
  <2>4. time \in Nat /\ AgeLimit \in Nat /\ copies \in [Call -> Nat] /\ forgot \in [Call -> Nat]
        /\ \A d \in Call : call[d].at \in Nat
    BY MeshAssumption DEF DTypes, Calls
  <2>5. ASSUME NEW d \in Call
        PROVE /\ call'[d].pc = "idle" => copies'[d] = 0
              /\ copies'[d] <= 1 + forgot'[d]
              /\ copies'[d] <= forgot'[d] \/ Contains(seen', d) \/ time' > call'[d].at + AgeLimit
    <3>1. CASE d = c
      BY <2>1, <2>2, <2>3, <2>4, <3>1 DEF Replay
    <3>2. CASE d # c
      <4>1. copies'[d] = copies[d] /\ forgot'[d] >= forgot[d] /\ call'[d].at = call[d].at /\ time' = time
        BY <2>1, <2>2, <2>3, <2>4, <3>2
      <4>2. CASE copies[d] <= forgot[d]
        BY <2>1, <2>4, <2>3, <4>1, <4>2 DEF Replay
      <4>3. CASE Contains(seen, d) /\ ~(copies[d] <= forgot[d])
        BY <2>1, <2>4, <2>3, <4>1, <4>3 DEF Replay
      <4>4. CASE time > call[d].at + AgeLimit
        BY <2>1, <2>4, <2>3, <4>1, <4>4 DEF Replay
      <4> QED
        BY <4>2, <4>3, <4>4 DEF Replay
    <3> QED
      BY <3>1, <3>2
  <2> QED
    BY <2>5 DEF Replay
<1>7. ASSUME NEW record \in PeerRecord \cup {None}, SetPeer(record) PROVE Replay'
  BY <1>7 DEF SetPeer, DTypes, Replay
<1>8. CASE Reboot
  <2>1. /\ forgot' = [d \in Call |-> IF Contains(seen, d) /\ time <= call[d].at + AgeLimit
                                     THEN forgot[d] + 1 ELSE forgot[d]]
        /\ UNCHANGED <<time, call, copies>>
    BY <1>8 DEF Reboot
  <2> QED
    BY <2>1, MeshAssumption DEF Replay, DTypes, Calls
<1>9. CASE MeshTick
  BY <1>9, MeshAssumption DEF MeshTick, Replay, DTypes, Calls
<1>10. CASE UNCHANGED dvars
  BY <1>10 DEF dvars, DTypes, Replay
<1> QED
  BY <1>1, <1>2, <1>3, <1>4, <1>5, <1>6, <1>7, <1>8, <1>9, <1>10
  DEF DNext

\* Approvals that are waited for, and what was routed: a call that is asked about or routed has
\* passed the checks, and every copy is used once.
LEMMA AskingFrame ==
  ASSUME RoutedCopies, UNCHANGED hand, UNCHANGED <<routed, copies>>
  PROVE RoutedCopies'
  BY DEF RoutedCopies, Asking

\* A handler starts or stops waiting for the approval of a call.
LEMMA AskingChanges ==
  ASSUME DTypes, RoutedCopies, NEW h \in Handler, NEW row \in Hands,
         hand' = [hand EXCEPT ![h] = row], NEW c \in Call
  PROVE /\ IsFiniteSet(Asking(c)) /\ Cardinality(Asking(c)) \in Nat
        /\ row.pc = "asking" /\ row.call = c /\ hand[h].pc = "idle" =>
             IsFiniteSet(Asking(c)') /\ Cardinality(Asking(c)') = Cardinality(Asking(c)) + 1
        /\ hand[h].pc = "asking" /\ hand[h].call = c /\ row.pc # "asking" =>
             IsFiniteSet(Asking(c)') /\ Cardinality(Asking(c)') = Cardinality(Asking(c)) - 1
        /\ ~(hand[h].pc = "asking" /\ hand[h].call = c) /\ ~(row.pc = "asking" /\ row.call = c) =>
             Asking(c)' = Asking(c)
<1>1. IsFiniteSet(Asking(c)) /\ Cardinality(Asking(c)) \in Nat
  BY FS_CardinalityType DEF RoutedCopies
<1>2. \A g \in Handler : hand'[g] = IF g = h THEN row ELSE hand[g]
  BY DEF DTypes
<1>3. CASE row.pc = "asking" /\ row.call = c /\ hand[h].pc = "idle"
  <2>1. Asking(c)' = Asking(c) \cup {h} /\ h \notin Asking(c)
    BY <1>2, <1>3 DEF Asking
  <2> QED
    BY <1>1, <1>3, <2>1, FS_AddElement
<1>4. CASE hand[h].pc = "asking" /\ hand[h].call = c /\ row.pc # "asking"
  <2>1. Asking(c)' = Asking(c) \ {h} /\ h \in Asking(c)
    BY <1>2, <1>4 DEF Asking
  <2> QED
    BY <1>1, <1>4, <2>1, FS_RemoveElement
<1>5. CASE ~(hand[h].pc = "asking" /\ hand[h].call = c) /\ ~(row.pc = "asking" /\ row.call = c)
  <2>1. Asking(c)' = Asking(c)
    BY <1>2, <1>5 DEF Asking
  <2> QED
    BY <1>1, <1>5, <2>1
<1> QED
  BY <1>1, <1>3, <1>4, <1>5

LEMMA RoutedCopiesKept ==
  DTypes /\ RoutedCopies /\ [DNext]_dvars => RoutedCopies'
<1> SUFFICES ASSUME DTypes, RoutedCopies, [DNext]_dvars PROVE RoutedCopies'
  OBVIOUS
<1>1. ASSUME NEW c \in Call, GiveUp(c) PROVE RoutedCopies'
  BY <1>1, AskingFrame DEF GiveUp
<1>2. ASSUME NEW c \in Call, Reject(c) PROVE RoutedCopies'
  BY <1>2, AskingFrame DEF Reject
<1>3. ASSUME NEW c \in Call, NEW want \in Want, Delegate(c, want) PROVE RoutedCopies'
  BY <1>3, AskingFrame DEF Delegate
<1>4. ASSUME NEW h \in Handler, Approve(h) PROVE RoutedCopies'
  <2>1. hand[h].pc = "asking" /\ hand[h].call \in Call /\ UNCHANGED copies
    BY <1>4, Approved DEF Approve
  <2>2. \/ /\ hand' = [hand EXCEPT ![h] = [pc |-> "routing", call |-> hand[h].call]]
           /\ routed' = [routed EXCEPT ![hand[h].call] = routed[hand[h].call] + 1]
        \/ hand' = [hand EXCEPT ![h] = Waiting] /\ UNCHANGED routed
    BY <1>4, Approved DEF Route
  <2>3. PICK row \in Hands : row.pc # "asking" /\ hand' = [hand EXCEPT ![h] = row]
    BY <2>1, <2>2 DEF Waiting, Hands
  <2>4. ASSUME NEW c \in Call
        PROVE IsFiniteSet(Asking(c)') /\ routed'[c] + Cardinality(Asking(c)') <= copies'[c]
    <3>1. routed[c] + Cardinality(Asking(c)) <= copies[c] /\ routed[c] \in Nat /\ copies[c] \in Nat
          /\ IsFiniteSet(Asking(c)) /\ Cardinality(Asking(c)) \in Nat
      BY <2>3, AskingChanges DEF RoutedCopies, DTypes
    <3>2. CASE c = hand[h].call
      <4>1. IsFiniteSet(Asking(c)') /\ Cardinality(Asking(c)') = Cardinality(Asking(c)) - 1
        BY <2>1, <2>3, <3>2, AskingChanges
      <4>2. routed'[c] \in {routed[c], routed[c] + 1}
        BY <2>2, <3>2 DEF DTypes
      <4> QED
        BY <2>1, <3>1, <4>1, <4>2
    <3>3. CASE c # hand[h].call
      <4>1. Asking(c)' = Asking(c)
        BY <2>1, <2>3, <3>3, AskingChanges
      <4>2. routed'[c] = routed[c]
        BY <2>2, <3>3 DEF DTypes
      <4> QED
        BY <2>1, <3>1, <4>1, <4>2
    <3> QED
      BY <3>2, <3>3
  <2> QED
    BY <2>4 DEF RoutedCopies
<1>5. ASSUME NEW h \in Handler, Finish(h) PROVE RoutedCopies'
  <2>1. Waiting \in Hands /\ Waiting.pc = "idle" /\ hand[h].pc = "routing"
        /\ hand' = [hand EXCEPT ![h] = Waiting] /\ UNCHANGED <<copies, routed>>
    BY <1>5 DEF Finish, Waiting, Hands
  <2>2. \A c \in Call : Asking(c)' = Asking(c)
    BY <2>1, AskingChanges
  <2> QED
    BY <2>1, <2>2 DEF RoutedCopies
<1>6. ASSUME NEW h \in Handler, NEW c \in Call, Receive(h, c) PROVE RoutedCopies'
  <2>1. hand[h].pc = "idle" /\ copies' = [copies EXCEPT ![c] = copies[c] + 1]
    BY <1>6, Received
  <2>2. ASSUME NEW d \in Call
        PROVE IsFiniteSet(Asking(d)') /\ routed'[d] + Cardinality(Asking(d)') <= copies'[d]
    <3>1. routed[d] + Cardinality(Asking(d)) <= copies[d] /\ routed[d] \in Nat /\ copies[d] \in Nat
          /\ IsFiniteSet(Asking(d)) /\ Cardinality(Asking(d)) \in Nat
      BY FS_CardinalityType DEF RoutedCopies, DTypes
    <3>2. copies'[d] = IF d = c THEN copies[d] + 1 ELSE copies[d]
      BY <2>1 DEF DTypes
    <3>3. CASE UNCHANGED <<hand, routed>>
      <4>1. Asking(d)' = Asking(d)
        BY <3>3 DEF Asking
      <4> QED
        BY <3>1, <3>2, <3>3, <4>1
    <3>4. CASE hand' = [hand EXCEPT ![h] = [pc |-> "asking", call |-> c]] /\ UNCHANGED routed
      <4>1. PICK row \in Hands : row.pc = "asking" /\ row.call = c /\ hand' = [hand EXCEPT ![h] = row]
        BY <3>4 DEF Hands
      <4>2. CASE d = c
        <5>1. IsFiniteSet(Asking(d)') /\ Cardinality(Asking(d)') = Cardinality(Asking(d)) + 1
          BY <2>1, <4>1, <4>2, AskingChanges
        <5> QED
          BY <3>1, <3>2, <3>4, <4>2, <5>1
      <4>3. CASE d # c
        <5>1. Asking(d)' = Asking(d)
          BY <2>1, <4>1, <4>3, AskingChanges
        <5> QED
          BY <3>1, <3>2, <3>4, <4>3, <5>1
      <4> QED
        BY <4>2, <4>3
    <3>5. CASE Route(h, c)
      <4>1. [pc |-> "routing", call |-> c] \in Hands
        BY DEF Hands
      <4>2. Asking(d)' = Asking(d)
        BY <2>1, <3>5, <4>1, AskingChanges DEF Route
      <4>3. routed'[d] = IF d = c THEN routed[d] + 1 ELSE routed[d]
        BY <3>5 DEF Route, DTypes
      <4> QED
        BY <3>1, <3>2, <4>2, <4>3
    <3> QED
      BY <1>6, <3>3, <3>4, <3>5, Received
  <2> QED
    BY <2>2 DEF RoutedCopies
<1>7. ASSUME NEW record \in PeerRecord \cup {None}, SetPeer(record) PROVE RoutedCopies'
  BY <1>7, AskingFrame DEF SetPeer
<1>8. CASE Reboot
  <2>1. \A c \in Call : Asking(c)' = {}
    BY <1>8 DEF Reboot, Asking, Waiting
  <2>2. \A c \in Call : Cardinality(Asking(c)) \in Nat
    BY FS_CardinalityType DEF RoutedCopies
  <2>3. UNCHANGED <<routed, copies>>
    BY <1>8 DEF Reboot
  <2>4. ASSUME NEW c \in Call
        PROVE IsFiniteSet(Asking(c)') /\ routed'[c] + Cardinality(Asking(c)') <= copies'[c]
    <3>1. routed[c] + Cardinality(Asking(c)) <= copies[c] /\ routed[c] \in Nat /\ copies[c] \in Nat
      BY DEF RoutedCopies, DTypes
    <3> QED
      BY <2>1, <2>2, <2>3, <3>1, FS_EmptySet
  <2> QED
    BY <2>4 DEF RoutedCopies
<1>9. CASE MeshTick
  BY <1>9, AskingFrame DEF MeshTick
<1>10. CASE UNCHANGED dvars
  BY <1>10 DEF dvars, RoutedCopies, Asking
<1> QED
  BY <1>1, <1>2, <1>3, <1>4, <1>5, <1>6, <1>7, <1>8, <1>9, <1>10
  DEF DNext

\* The handlers of a call when one of them is done with it.
LEMMA HandlerLeaves ==
  ASSUME DTypes, NEW h \in Handler, hand' = [hand EXCEPT ![h] = Waiting],
         NEW g \in Handler, NEW d \in Call
  PROVE Handles(g, d)' <=> Handles(g, d) /\ g # h
  BY DEF DTypes, Handles, Waiting, Hands

\* As long as there are no new copies, handlers and effects, a transport that fails tells nothing.
LEMMA TellingFrame ==
  ASSUME FirstCopy, AnswerTellsEffect, UNCHANGED <<copies, forgot, done, hand>>,
         \A d \in Call : call'[d].got \in {call[d].got, "failed", None}
  PROVE FirstCopy' /\ AnswerTellsEffect'
<1>1. \A d \in Call : call'[d].got \in {"ok", "refused", "later"} => call'[d].got = call[d].got
  BY MeshAssumption
<1> QED
  BY <1>1 DEF FirstCopy, AnswerTellsEffect, Handles

\* A handler leaves the call it handled: the call may be answered, or its tool may have ended.
LEMMA TellingEnds ==
  ASSUME DTypes, FirstCopy, AnswerTellsEffect, UNCHANGED <<copies, forgot>>,
         NEW h \in Handler, NEW c \in Call, Handles(h, c), hand' = [hand EXCEPT ![h] = Waiting],
         NEW status \in Answers, Answer(c, status),
         \/ status = "ok" /\ done' = done \cup {c}
         \/ status # "ok" /\ UNCHANGED done
  PROVE FirstCopy' /\ AnswerTellsEffect'
<1>1. \A d \in Call : \/ call'[d].got \in {call[d].got, "failed"}
                      \/ d = c /\ call'[d].got = status
  BY Answered
<1>2. /\ copies[c] # 0
      /\ forgot[c] = 0 => /\ c \notin done /\ call[c].got \notin {"ok", "refused", "later"}
                          /\ \A g \in Handler : Handles(g, c) => g = h
  BY DEF FirstCopy
<1>3. \A g \in Handler, d \in Call : Handles(g, d)' <=> Handles(g, d) /\ g # h
  BY HandlerLeaves
<1>4. \A d \in Call : d # c => /\ d \in done' <=> d \in done
                               /\ call'[d].got \in {call[d].got, "failed"}
  BY <1>1
<1>5. ASSUME NEW d \in Call
      PROVE /\ copies[d] = 0 => /\ d \notin done' /\ call'[d].got \notin {"ok", "refused", "later"}
                                /\ \A g \in Handler : ~Handles(g, d)'
            /\ forgot[d] = 0 =>
                 \A g \in Handler : Handles(g, d)' =>
                   /\ d \notin done' /\ call'[d].got \notin {"ok", "refused", "later"}
                   /\ \A k \in Handler : Handles(k, d)' => k = g
  <2>1. CASE d = c
    BY <1>2, <1>3, <2>1
  <2>2. CASE d # c
    BY <1>3, <1>4, <2>2 DEF FirstCopy
  <2> QED
    BY <2>1, <2>2
<1>6. FirstCopy'
  BY <1>5 DEF FirstCopy
<1>7. ASSUME NEW d \in Call
      PROVE /\ call'[d].got = "ok" => d \in done'
            /\ (call'[d].got \in {"refused", "later"} /\ forgot[d] = 0) => d \notin done'
  <2>1. CASE d = c
    <3>1. call'[c].got \in {call[c].got, "failed", status}
      BY <1>1
    <3>2. c \in done => c \in done'
      OBVIOUS
    <3>3. call'[c].got = "ok" => c \in done'
      BY <3>1, <3>2 DEF AnswerTellsEffect
    <3>4. (call'[c].got \in {"refused", "later"} /\ forgot[c] = 0) => c \notin done'
      BY <1>2, <3>1
    <3> QED
      BY <2>1, <3>3, <3>4
  <2>2. CASE d # c
    BY <1>4, <2>2 DEF AnswerTellsEffect
  <2> QED
    BY <2>1, <2>2
<1> QED
  BY <1>6, <1>7 DEF AnswerTellsEffect

LEMMA TellingKept ==
  DTypes /\ Replay /\ FirstCopy /\ AnswerTellsEffect /\ [DNext]_dvars => (FirstCopy /\ AnswerTellsEffect)'
<1> SUFFICES ASSUME DTypes, Replay, FirstCopy, AnswerTellsEffect, [DNext]_dvars PROVE (FirstCopy /\ AnswerTellsEffect)'
  OBVIOUS
<1>1. ASSUME NEW c \in Call, GiveUp(c) PROVE (FirstCopy /\ AnswerTellsEffect)'
  <2>1. \A d \in Call : call'[d].got \in {call[d].got, "failed", None}
    BY <1>1 DEF GiveUp, DTypes, Calls
  <2> QED
    BY <1>1, <2>1, TellingFrame DEF GiveUp
<1>2. ASSUME NEW c \in Call, Reject(c) PROVE (FirstCopy /\ AnswerTellsEffect)'
  <2>1. \A d \in Call : call'[d].got \in {call[d].got, "failed", None}
    BY <1>2, Answered DEF Reject, Answers
  <2> QED
    BY <1>2, <2>1, TellingFrame DEF Reject
<1>3. ASSUME NEW c \in Call, NEW want \in Want, Delegate(c, want) PROVE (FirstCopy /\ AnswerTellsEffect)'
  <2>1. \A d \in Call : call'[d].got \in {call[d].got, "failed", None}
    BY <1>3 DEF Delegate, DTypes
  <2> QED
    BY <1>3, <2>1, TellingFrame DEF Delegate
<1>4. ASSUME NEW h \in Handler, Approve(h) PROVE (FirstCopy /\ AnswerTellsEffect)'
  <2>1. Handles(h, hand[h].call) /\ hand[h].call \in Call /\ UNCHANGED <<copies, forgot, done>>
    BY <1>4, Approved DEF Approve, Handles
  <2>2. CASE Route(h, hand[h].call)
    <3>1. \A g \in Handler, d \in Call : Handles(g, d)' <=> Handles(g, d)
      BY <2>1, <2>2 DEF Route, Handles, DTypes, Hands
    <3>2. UNCHANGED call
      BY <2>2 DEF Route
    <3> QED
      BY <2>1, <3>1, <3>2 DEF FirstCopy, AnswerTellsEffect
  <2>3. ASSUME hand' = [hand EXCEPT ![h] = Waiting], NEW status \in {"refused", "later"},
               Answer(hand[h].call, status)
        PROVE FirstCopy' /\ AnswerTellsEffect'
    <3>1. status \in Answers /\ status # "ok"
      BY DEF Answers
    <3> QED
      BY <2>1, <2>3, <3>1, TellingEnds
  <2> QED
    BY <1>4, <2>2, <2>3, Approved
<1>5. ASSUME NEW h \in Handler, Finish(h) PROVE (FirstCopy /\ AnswerTellsEffect)'
  <2>1. /\ Handles(h, hand[h].call) /\ hand[h].call \in Call /\ UNCHANGED <<copies, forgot>>
        /\ hand' = [hand EXCEPT ![h] = Waiting]
    BY <1>5, Finished DEF Finish, Handles
  <2>2. PICK status \in Answers : /\ Answer(hand[h].call, status)
                                  /\ \/ status = "ok" /\ done' = done \cup {hand[h].call}
                                     \/ status # "ok" /\ UNCHANGED done
    BY <1>5, Finished DEF Answers
  <2> QED
    BY <2>1, <2>2, TellingEnds
<1>6. ASSUME NEW h \in Handler, NEW c \in Call, Receive(h, c) PROVE (FirstCopy /\ AnswerTellsEffect)'
  <2>1. /\ hand[h].pc = "idle" /\ call[c].pc # "idle" /\ time <= call[c].at + AgeLimit
        /\ ~Contains(seen, c) /\ copies' = [copies EXCEPT ![c] = copies[c] + 1] /\ UNCHANGED done
    BY <1>6, Received DEF Accepted, InWindow
  <2>2. \A d \in Call : forgot'[d] \in {forgot[d], forgot[d] + 1}
    BY <1>6, Received, Remembered
  <2>3. copies \in [Call -> Nat] /\ forgot \in [Call -> Nat] /\ time \in Nat /\ call[c].at + AgeLimit \in Nat
    BY MeshAssumption DEF DTypes, Calls
  <2>4. /\ copies'[c] # 0 /\ \A d \in Call : d # c => copies'[d] = copies[d]
        /\ \A d \in Call : forgot'[d] = 0 => forgot[d] = 0
    BY <2>1, <2>2, <2>3
  <2>5. forgot'[c] = 0 => copies[c] = 0
    BY <2>1, <2>3, <2>4 DEF Replay
  <2>6. forgot'[c] = 0 => /\ c \notin done /\ call[c].got \notin {"ok", "refused", "later"}
                          /\ \A g \in Handler : ~Handles(g, c)
    BY <2>5 DEF FirstCopy
  <2>7. ASSUME NEW status \in {"refused", "later"}, Answer(c, status), UNCHANGED hand
        PROVE FirstCopy' /\ AnswerTellsEffect'
    <3>1. status \in Answers
      BY DEF Answers
    <3>2. \A d \in Call : \/ call'[d].got \in {call[d].got, "failed"}
                          \/ d = c /\ call'[d].got = status
      BY <2>7, <3>1, Answered
    <3>3. FirstCopy'
      BY <2>1, <2>4, <2>6, <2>7, <3>2 DEF FirstCopy, Handles
    <3> QED
      BY <2>1, <2>4, <2>6, <2>7, <3>2, <3>3 DEF AnswerTellsEffect
  <2>8. ASSUME NEW pc \in {"asking", "routing"}, hand' = [hand EXCEPT ![h] = [pc |-> pc, call |-> c]],
               UNCHANGED call
        PROVE FirstCopy' /\ AnswerTellsEffect'
    <3>1. \A g \in Handler : hand'[g] = IF g = h THEN [pc |-> pc, call |-> c] ELSE hand[g]
      BY <2>8 DEF DTypes
    <3>2. FirstCopy'
      BY <2>1, <2>4, <2>6, <2>8, <3>1 DEF FirstCopy, Handles
    <3> QED
      BY <2>1, <2>4, <2>6, <2>8, <3>2 DEF AnswerTellsEffect
  <2> QED
    BY <1>6, <2>7, <2>8, Received DEF Route
<1>7. ASSUME NEW record \in PeerRecord \cup {None}, SetPeer(record) PROVE (FirstCopy /\ AnswerTellsEffect)'
  BY <1>7, TellingFrame DEF SetPeer
<1>8. CASE Reboot
  <2>1. \A g \in Handler, d \in Call : ~Handles(g, d)'
    BY <1>8 DEF Reboot, Handles, Waiting
  <2>2. \A d \in Call : forgot'[d] = 0 => forgot[d] = 0
    BY <1>8 DEF Reboot, DTypes
  <2>3. UNCHANGED <<call, copies, done>>
    BY <1>8 DEF Reboot
  <2> QED
    BY <2>1, <2>2, <2>3 DEF FirstCopy, AnswerTellsEffect
<1>9. CASE MeshTick
  BY <1>9, TellingFrame DEF MeshTick
<1>10. CASE UNCHANGED dvars
  BY <1>10 DEF dvars, FirstCopy, AnswerTellsEffect, Handles
<1> QED
  BY <1>1, <1>2, <1>3, <1>4, <1>5, <1>6, <1>7, <1>8, <1>9, <1>10
  DEF DNext

LEMMA BudgetFrame ==
  ASSUME Counted, HourlyBudget, UNCHANGED <<time, spent, permits>>
  PROVE Counted' /\ HourlyBudget'
  BY DEF Counted, HourlyBudget

LEMMA BudgetKept ==
  DTypes /\ Counted /\ HourlyBudget /\ [DNext]_dvars => (Counted /\ HourlyBudget)'
<1> SUFFICES ASSUME DTypes, Counted, HourlyBudget, [DNext]_dvars PROVE (Counted /\ HourlyBudget)'
  OBVIOUS
<1>1. ASSUME NEW c \in Call, GiveUp(c) PROVE (Counted /\ HourlyBudget)'
  BY <1>1, BudgetFrame DEF GiveUp
<1>2. ASSUME NEW c \in Call, Reject(c) PROVE (Counted /\ HourlyBudget)'
  BY <1>2, BudgetFrame DEF Reject
<1>3. ASSUME NEW c \in Call, NEW want \in Want, Delegate(c, want) PROVE (Counted /\ HourlyBudget)'
  BY <1>3, BudgetFrame DEF Delegate
<1>4. ASSUME NEW h \in Handler, Approve(h) PROVE (Counted /\ HourlyBudget)'
  BY <1>4, BudgetFrame DEF Approve
<1>5. ASSUME NEW h \in Handler, Finish(h) PROVE (Counted /\ HourlyBudget)'
  BY <1>5, BudgetFrame DEF Finish
<1>6. ASSUME NEW h \in Handler, NEW c \in Call, Receive(h, c) PROVE (Counted /\ HourlyBudget)'
  <2>1. peer # None /\ UNCHANGED time
    BY <1>6, Received DEF Accepted
  <2>2. UNCHANGED <<spent, permits>> \/ \E g \in Grants : Use(g)
    BY <1>6, <2>1, Received, Uses
  <2> QED
    BY <2>1, <2>2, BudgetFrame, UseWithinBudget
<1>7. ASSUME NEW record \in PeerRecord \cup {None}, SetPeer(record) PROVE (Counted /\ HourlyBudget)'
  BY <1>7, BudgetFrame DEF SetPeer
<1>8. CASE Reboot
  BY <1>8 DEF Reboot, Counted, HourlyBudget
<1>9. CASE MeshTick
  <2>1. time' = time + 1 /\ UNCHANGED <<spent, permits>> /\ time \in Nat /\ Hour \in Nat
        /\ permits \in Seq(Permits)
    BY <1>9, MeshAssumption DEF MeshTick, DTypes
  <2>2. \A i \in 1..Len(permits) : permits[i].at \in Nat
    <3> SUFFICES ASSUME NEW i \in 1..Len(permits) PROVE permits[i].at \in Nat
      OBVIOUS
    <3>1. permits[i] \in Permits
      BY <2>1
    <3> QED
      BY <3>1 DEF Permits
  <2>3. Counted'
    BY <2>1, <2>2 DEF Counted
  <2>4. HourlyBudget'
    BY <2>1 DEF HourlyBudget
  <2> QED
    BY <2>3, <2>4
<1>10. CASE UNCHANGED dvars
  BY <1>10 DEF dvars, Counted, HourlyBudget
<1> QED
  BY <1>1, <1>2, <1>3, <1>4, <1>5, <1>6, <1>7, <1>8, <1>9, <1>10
  DEF DNext

\* The start satisfies the invariant.
LEMMA DInitInv == DInit => DInv
<1> SUFFICES ASSUME DInit PROVE DInv
  OBVIOUS
<1>1. Unasked \in Calls /\ Waiting \in Hands
  BY DEF Unasked, Waiting, Calls, Hands, Answers
<1>2. DTypes
  <2>1. hitch \in HitchRecord
    BY MeshAssumption DEF DInit, HitchRecord
  <2> QED
    BY <1>1, <2>1 DEF DInit, DTypes, Waiting
<1>3. Replay
  BY DEF DInit, Replay
<1>4. RoutedCopies
  <2>1. \A c \in Call : Asking(c) = {}
    BY DEF DInit, Asking, Waiting
  <2>2. \A c \in Call : routed[c] = 0 /\ copies[c] = 0
    BY DEF DInit
  <2> QED
    BY <2>1, <2>2, FS_EmptySet DEF RoutedCopies
<1>5. FirstCopy /\ AnswerTellsEffect
  BY MeshAssumption DEF DInit, FirstCopy, AnswerTellsEffect, Handles, Unasked, Waiting
<1>6. Counted /\ HourlyBudget
  BY DEF DInit, Counted, HourlyBudget
<1> QED
  BY <1>2, <1>3, <1>4, <1>5, <1>6 DEF DInv

LEMMA DInvariant == DSpec => []DInv
<1>1. DInv /\ [DNext]_dvars => DInv'
  BY DTypesKept, ReplayKept, RoutedCopiesKept, TellingKept, BudgetKept DEF DInv
<1> QED
  BY <1>1, DInitInv, PTL DEF DSpec

\* Neither a second copy of an envelope, nor a restart, nor an edit of the peer's record makes the
\* asked node do more than it was allowed: a capability is routed once, and once more for every
\* time its nonce was forgotten too early, and a grant is not used beyond its budget of an hour.
THEOREM Delegated == DSpec => []DelegatedOnce
<1>1. DInv => DelegatedOnce
  <2> SUFFICES ASSUME DInv PROVE \A c \in Call : routed[c] <= 1 + forgot[c]
    BY DEF DInv, DelegatedOnce, RoutedOnce
  <2> TAKE c \in Call
  <2>1. IsFiniteSet(Asking(c)) /\ routed[c] + Cardinality(Asking(c)) <= copies[c]
    BY DEF DInv, RoutedCopies
  <2>2. Cardinality(Asking(c)) \in Nat
    BY <2>1, FS_CardinalityType
  <2>3. /\ copies[c] <= 1 + forgot[c]
        /\ copies[c] \in Nat /\ routed[c] \in Nat /\ forgot[c] \in Nat
    BY DEF DInv, DTypes, Replay
  <2> QED
    BY <2>1, <2>2, <2>3
<1> QED
  BY <1>1, DInvariant, PTL

\* What delegate is answered is so: after "ok" the tool has run to its end, and a request that was
\* refused has run none, unless its nonce was forgotten and the envelope handled once more.
THEOREM AnsweredTruly == DSpec => []AnswerTellsEffect
<1>1. DInv => AnswerTellsEffect
  BY DEF DInv
<1> QED
  BY <1>1, DInvariant, PTL

-----------------------------------------------------------------------------
(* The tool gateway.  An approval that holds was given for what it says    *)
(* (ByOperator), a call past its checks has its approval (Backed), and only *)
(* one call has spent an approval, on its way or answered (SpentOnce).     *)

ToolRequests ==
  [tool : STRING, what : STRING, profile : STRING, id : Grant \cup {None},
   governedId : Grant \cup {None}, session : BOOLEAN, valid : BOOLEAN]
GrantRecords == [status : {"pending", "approved", "rejected", "executed"}, what : STRING, fresh : BOOLEAN]
Servings ==
  [pc : {"idle", "look", "approve", "handle", "work", "mark", "settle"}, call : ToolRequests \cup {None},
   grant : Grant \cup {None}, number : Nat]
Granted == {"handle", "work", "mark", "settle"}   \* where a governed call has its approval

TTypes ==
  /\ scene \in DOMAIN Scenes
  /\ serving \in [Client -> Servings]
  /\ \A c \in Client : serving[c].pc # "idle" => serving[c].call \in ToolRequests
  /\ grants \in [Grant -> GrantRecords \cup {None}]
  /\ blessed \subseteq Grant \X STRING

\* An approval that holds was given by the operator, for what it says.
ByOperator ==
  \A g \in Grant : grants[g] # None /\ grants[g].status = "approved" => <<g, grants[g].what>> \in blessed

\* What a call has on its way through the gateway.
Backed ==
  \A c \in Client :
    /\ serving[c].pc \notin Granted => serving[c].grant = None
    /\ serving[c].pc \in Granted =>
         /\ serving[c].grant # None => NeedsGrant(Mine(c))
         /\ NeedsGrant(Mine(c)) => <<serving[c].grant, Mine(c).what>> \in blessed
         /\ serving[c].pc # "handle" /\ HandlerAsks(Mine(c)) => <<Mine(c).id, Mine(c).what>> \in blessed
         /\ serving[c].pc = "mark" => HandlerAsks(Mine(c))
         /\ serving[c].pc \in {"mark", "settle"} => \E d \in carried : d.by = By(c)

\* Who has spent an approval: a call that its handler marked it for, until it is answered, or a
\* call that was answered.
Spender(c, g) == serving[c].pc = "settle" /\ HandlerAsks(Mine(c)) /\ Mine(c).id = g
Executed(g) == grants[g] # None /\ grants[g].status = "executed"
SpentOnce ==
  /\ \A c \in Client, g \in Grant : Spender(c, g) =>
       /\ Executed(g)
       /\ \A d \in Client : Spender(d, g) => d = c
       /\ \A r \in replies : ~(r.ok /\ r.grant = g)
  /\ \A r \in replies : r.ok /\ r.grant # None =>
       /\ r.grant \in Grant /\ Executed(r.grant)
       /\ \E d \in carried : d.by = r.by
       /\ \A q \in replies : q.ok /\ q.grant = r.grant => q = r

\* What was done had its approval.
DoneWithApproval ==
  \A d \in carried : NeedsGrant(d.call) \/ HandlerAsks(d.call) => <<d.grant, d.call.what>> \in blessed

TInv == TTypes /\ ByOperator /\ Backed /\ SpentOnce /\ DoneWithApproval


\* An approval that is there is not None.
LEMMA RecordsAreThere == \A r \in GrantRecords : r # None
  BY ToolAssumption DEF GrantRecords

\* An answer ends the call, any other step of a client moves it on and keeps the call.
LEMMA Replied ==
  ASSUME TTypes, NEW c \in Client, NEW ok, NEW grant, Reply(c, ok, grant)
  PROVE /\ serving' \in [Client -> Servings] /\ serving'[c].pc = "idle" /\ serving'[c].grant = None
        /\ \A d \in Client : d # c => serving'[d] = serving[d]
        /\ replies' = replies \cup {[by |-> By(c), grant |-> grant, call |-> Mine(c), ok |-> ok]}
<1>1. serving \in [Client -> Servings]
  BY DEF TTypes
<1>2. serving' = [serving EXCEPT ![c].pc = "idle", ![c].grant = None]
  BY DEF Reply
<1>3. serving' \in [Client -> Servings]
  BY <1>1, <1>2, ZenonT(40) DEF Servings
<1>4. serving'[c].pc = "idle" /\ serving'[c].grant = None /\ \A d \in Client : d # c => serving'[d] = serving[d]
  BY <1>1, <1>2 DEF Servings
<1> QED
  BY <1>3, <1>4 DEF Reply

LEMMA Continued ==
  ASSUME TTypes, NEW c \in Client, NEW pc \in {"approve", "handle", "work", "mark", "settle"}, Continue(c, pc)
  PROVE /\ serving' \in [Client -> Servings]
        /\ serving'[c].pc = pc /\ serving'[c].call = serving[c].call
        /\ serving'[c].grant = serving[c].grant /\ serving'[c].number = serving[c].number
        /\ \A d \in Client : d # c => serving'[d] = serving[d]
        /\ UNCHANGED replies
<1>1. serving \in [Client -> Servings]
  BY DEF TTypes
<1>2. serving' = [serving EXCEPT ![c].pc = pc]
  BY DEF Continue
<1> QED
  BY <1>1, <1>2 DEF Continue, Servings

\* The same for a call whose approval was found.
LEMMA Backing ==
  ASSUME TTypes, NEW c \in Client, NEW id \in Grant,
         serving' = [serving EXCEPT ![c].pc = "handle", ![c].grant = id]
  PROVE /\ serving' \in [Client -> Servings]
        /\ serving'[c].pc = "handle" /\ serving'[c].call = serving[c].call /\ serving'[c].grant = id
        /\ serving'[c].number = serving[c].number
        /\ \A d \in Client : d # c => serving'[d] = serving[d]
<1>1. serving \in [Client -> Servings]
  BY DEF TTypes
<1> QED
  BY <1>1 DEF Servings

\* What happens to the approvals: one is asked for, marked, decided or grows old.
LEMMA Pended ==
  ASSUME TTypes, NEW c \in Client, NEW what \in STRING, Pend(c, what)
  PROVE /\ grants' \in [Grant -> GrantRecords \cup {None}]
        /\ \A g \in Grant : grants'[g] # grants[g] =>
             grants[g] = None /\ grants'[g] # None /\ grants'[g].status = "pending"
        /\ Reply(c, FALSE, None)
<1>1. grants \in [Grant -> GrantRecords \cup {None}]
  BY DEF TTypes
<1>2. CASE UNCHANGED grants
  BY <1>1, <1>2 DEF Pend
<1>3. ASSUME NEW g \in Grant, grants[g] = None,
             grants' = [grants EXCEPT ![g] = [status |-> "pending", what |-> what, fresh |-> TRUE]]
      PROVE /\ grants' \in [Grant -> GrantRecords \cup {None}]
            /\ \A h \in Grant : grants'[h] # grants[h] =>
                 grants[h] = None /\ grants'[h] # None /\ grants'[h].status = "pending"
  <2>1. [status |-> "pending", what |-> what, fresh |-> TRUE] \in GrantRecords
    BY DEF GrantRecords
  <2>2. [status |-> "pending", what |-> what, fresh |-> TRUE] # None
    BY <2>1, RecordsAreThere
  <2> QED
    BY <1>1, <1>3, <2>1, <2>2
<1> QED
  BY <1>2, <1>3 DEF Pend

LEMMA GrantMarked ==
  ASSUME TTypes, NEW g \in Grant, MayMark(g), MarkGrant(g)
  PROVE /\ grants' \in [Grant -> GrantRecords \cup {None}]
        /\ grants[g].status = "approved" /\ grants'[g] # None /\ grants'[g].status = "executed"
        /\ \A h \in Grant : h # g => grants'[h] = grants[h]
<1>1. grants \in [Grant -> GrantRecords \cup {None}] /\ grants[g] \in GrantRecords
  BY DEF TTypes, MayMark
<1>2. grants' = [grants EXCEPT ![g] = [grants[g] EXCEPT !.status = "executed"]]
  BY <1>1 DEF MarkGrant
<1>3. [grants[g] EXCEPT !.status = "executed"] \in GrantRecords
  BY <1>1 DEF GrantRecords
<1>4. grants'[g] # None
  BY <1>1, <1>2, <1>3, RecordsAreThere
<1>5. grants'[g].status = "executed"
  BY <1>1, <1>2 DEF GrantRecords
<1> QED
  BY <1>1, <1>2, <1>3, <1>4, <1>5 DEF MayMark

LEMMA TTypesKept ==
  TTypes /\ [TNext]_tvars => TTypes'
<1> SUFFICES ASSUME TTypes, [TNext]_tvars PROVE TTypes'
  OBVIOUS
<1>1. ASSUME NEW c \in Client, CallTool(c) PROVE TTypes'
  <2>1. PICK asked \in Gateway.calls :
          serving' = [serving EXCEPT ![c] = [pc |-> "look", call |-> asked, grant |-> None, number |-> serving[c].number + 1]]
    BY <1>1 DEF CallTool
  <2>2. asked \in ToolRequests
    BY ToolAssumption DEF TTypes, Gateway, ToolRequests
  <2>3. serving' \in [Client -> Servings] /\ \A d \in Client : serving'[d].pc # "idle" => serving'[d].call \in ToolRequests
    BY <2>1, <2>2 DEF TTypes, Servings
  <2> QED
    BY <1>1, <2>3 DEF CallTool, TTypes
<1>2. ASSUME NEW c \in Client, LookUp(c) PROVE TTypes'
  <2>1. serving' \in [Client -> Servings] /\ \A d \in Client : serving'[d].pc # "idle" => serving'[d].call \in ToolRequests
    BY <1>2, Replied, Continued, ZenonT(40) DEF LookUp, TTypes
  <2> QED
    BY <1>2, <2>1 DEF LookUp, TTypes
<1>3. ASSUME NEW c \in Client, RequireApproval(c) PROVE TTypes'
  <2>1. Mine(c) \in ToolRequests /\ PolicyId(Mine(c)) \in Grant \cup {None} /\ Mine(c).what \in STRING
    BY <1>3 DEF RequireApproval, TTypes, Mine, PolicyId, ToolRequests
  <2>2. \/ Continue(c, "handle") /\ UNCHANGED grants
        \/ Pend(c, Mine(c).what)
        \/ /\ serving' = [serving EXCEPT ![c].pc = "handle", ![c].grant = PolicyId(Mine(c))]
           /\ UNCHANGED grants /\ PolicyId(Mine(c)) \in Grant
        \/ Reply(c, FALSE, None) /\ UNCHANGED grants
    BY <1>3, <2>1 DEF RequireApproval
  <2>3. serving' \in [Client -> Servings] /\ \A d \in Client : serving'[d].pc # "idle" => serving'[d].call \in ToolRequests
    <3>1. CASE Pend(c, Mine(c).what)
      <4>1. Reply(c, FALSE, None)
        BY <2>1, <3>1, Pended
      <4> QED
        BY <4>1, Replied DEF TTypes
    <3>2. CASE Continue(c, "handle") \/ Reply(c, FALSE, None)
      BY <1>3, <3>2, Replied, Continued DEF TTypes, RequireApproval
    <3>3. CASE /\ serving' = [serving EXCEPT ![c].pc = "handle", ![c].grant = PolicyId(Mine(c))]
               /\ PolicyId(Mine(c)) \in Grant
      <4>1. /\ serving' \in [Client -> Servings] /\ serving'[c].call = serving[c].call
            /\ \A d \in Client : d # c => serving'[d] = serving[d]
        BY <3>3, Backing
      <4> QED
        BY <4>1, <2>1 DEF TTypes, Mine
    <3> QED
      BY <2>2, <3>1, <3>2, <3>3
  <2>4. grants' \in [Grant -> GrantRecords \cup {None}]
    BY <2>1, <2>2, Pended DEF TTypes
  <2> QED
    BY <1>3, <2>3, <2>4 DEF RequireApproval, TTypes
<1>4. ASSUME NEW c \in Client, HandlerChecks(c) PROVE TTypes'
  <2>1. Mine(c).what \in STRING
    BY <1>4 DEF HandlerChecks, TTypes, Mine, ToolRequests
  <2>2. \/ Continue(c, "work") /\ UNCHANGED grants
        \/ Pend(c, Mine(c).what)
        \/ Reply(c, FALSE, None) /\ UNCHANGED grants
    BY <1>4 DEF HandlerChecks
  <2>3. serving' \in [Client -> Servings] /\ \A d \in Client : serving'[d].pc # "idle" => serving'[d].call \in ToolRequests
    <3>1. CASE Pend(c, Mine(c).what)
      <4>1. Reply(c, FALSE, None)
        BY <2>1, <3>1, Pended
      <4> QED
        BY <4>1, Replied DEF TTypes
    <3>2. CASE Continue(c, "work") \/ Reply(c, FALSE, None)
      BY <1>4, <3>2, Replied, Continued DEF TTypes, HandlerChecks
    <3> QED
      BY <2>2, <3>1, <3>2
  <2>4. grants' \in [Grant -> GrantRecords \cup {None}]
    BY <2>1, <2>2, Pended DEF TTypes
  <2> QED
    BY <1>4, <2>3, <2>4 DEF HandlerChecks, TTypes
<1>5. ASSUME NEW c \in Client, HandlerBegins(c) PROVE TTypes'
  <2>1. serving' \in [Client -> Servings] /\ \A d \in Client : serving'[d].pc # "idle" => serving'[d].call \in ToolRequests
    BY <1>5, Replied, Continued, ZenonT(40) DEF HandlerBegins, TTypes
  <2> QED
    BY <1>5, <2>1 DEF HandlerBegins, TTypes
<1>6. ASSUME NEW c \in Client, HandlerWorks(c) PROVE TTypes'
  <2>1. serving' \in [Client -> Servings] /\ \A d \in Client : serving'[d].pc # "idle" => serving'[d].call \in ToolRequests
    BY <1>6, Replied, Continued DEF HandlerWorks, TTypes
  <2> QED
    BY <1>6, <2>1 DEF HandlerWorks, TTypes
<1>7. ASSUME NEW c \in Client, HandlerMarks(c) PROVE TTypes'
  <2>1. serving' \in [Client -> Servings] /\ \A d \in Client : serving'[d].pc # "idle" => serving'[d].call \in ToolRequests
    BY <1>7, Replied, Continued DEF HandlerMarks, TTypes
  <2>2. grants' \in [Grant -> GrantRecords \cup {None}]
    BY <1>7, GrantMarked DEF HandlerMarks, TTypes, MarkGrant
  <2> QED
    BY <1>7, <2>1, <2>2 DEF HandlerMarks, TTypes
<1>8. ASSUME NEW c \in Client, Settle(c) PROVE TTypes'
  <2>1. serving' \in [Client -> Servings] /\ \A d \in Client : serving'[d].pc # "idle" => serving'[d].call \in ToolRequests
    BY <1>8, Replied DEF Settle, TTypes
  <2>2. grants' \in [Grant -> GrantRecords \cup {None}]
    BY <1>8, GrantMarked DEF Settle, TTypes, MarkGrant
  <2> QED
    BY <1>8, <2>1, <2>2 DEF Settle, TTypes
<1>9. ASSUME NEW g \in Grant, OperatorDecides(g) PROVE TTypes'
  BY <1>9 DEF OperatorDecides, TTypes, GrantRecords
<1>10. ASSUME NEW g \in Grant, GrantExpires(g) PROVE TTypes'
  BY <1>10 DEF GrantExpires, TTypes, GrantRecords
<1>11. CASE SessionCloses
  BY <1>11 DEF SessionCloses, TTypes
<1>12. CASE UNCHANGED tvars
  BY <1>12 DEF tvars, TTypes
<1> QED
  BY <1>1, <1>2, <1>3, <1>4, <1>5, <1>6, <1>7, <1>8, <1>9, <1>10, <1>11, <1>12
  DEF TNext

LEMMA ByOperatorKept ==
  TTypes /\ ByOperator /\ [TNext]_tvars => ByOperator'
<1> SUFFICES ASSUME TTypes, ByOperator, [TNext]_tvars PROVE ByOperator'
  OBVIOUS
<1>1. ASSUME NEW c \in Client, CallTool(c) PROVE ByOperator'
  BY <1>1 DEF CallTool, ByOperator
<1>2. ASSUME NEW c \in Client, LookUp(c) PROVE ByOperator'
  BY <1>2 DEF LookUp, ByOperator
<1>3. ASSUME NEW c \in Client, RequireApproval(c) PROVE ByOperator'
  <2>1. \/ UNCHANGED grants
        \/ Pend(c, Mine(c).what)
    BY <1>3 DEF RequireApproval
  <2>2. Mine(c).what \in STRING
    BY <1>3 DEF RequireApproval, TTypes, Mine, ToolRequests
  <2>3. \A g \in Grant : grants'[g] # grants[g] => grants'[g] # None /\ grants'[g].status = "pending"
    BY <2>1, <2>2, Pended
  <2>4. blessed' = blessed
    BY <1>3 DEF RequireApproval
  <2> QED
    BY <2>3, <2>4 DEF ByOperator
<1>4. ASSUME NEW c \in Client, HandlerChecks(c) PROVE ByOperator'
  <2>1. \/ UNCHANGED grants
        \/ Pend(c, Mine(c).what)
    BY <1>4 DEF HandlerChecks
  <2>2. Mine(c).what \in STRING
    BY <1>4 DEF HandlerChecks, TTypes, Mine, ToolRequests
  <2>3. \A g \in Grant : grants'[g] # grants[g] => grants'[g] # None /\ grants'[g].status = "pending"
    BY <2>1, <2>2, Pended
  <2>4. blessed' = blessed
    BY <1>4 DEF HandlerChecks
  <2> QED
    BY <2>3, <2>4 DEF ByOperator
<1>5. ASSUME NEW c \in Client, HandlerBegins(c) PROVE ByOperator'
  BY <1>5 DEF HandlerBegins, ByOperator
<1>6. ASSUME NEW c \in Client, HandlerWorks(c) PROVE ByOperator'
  BY <1>6 DEF HandlerWorks, ByOperator
<1>7. ASSUME NEW c \in Client, HandlerMarks(c) PROVE ByOperator'
  <2>1. Mine(c).id \in Grant \cup {None}
    BY <1>7 DEF HandlerMarks, TTypes, Servings, ToolRequests, Mine
  <2>2. ASSUME Mine(c).id \in Grant, MayMark(Mine(c).id), MarkGrant(Mine(c).id) PROVE ByOperator'
    <3>1. \A g \in Grant : grants'[g] # grants[g] => grants'[g].status = "executed"
      BY <2>2, GrantMarked DEF Executed
    <3> QED
      BY <3>1, <1>7 DEF HandlerMarks, ByOperator
  <2>3. ASSUME Mine(c).id = None, MarkGrant(Mine(c).id) PROVE \A g \in Grant : grants'[g] = grants[g]
    BY <2>3, ToolAssumption DEF MarkGrant, TTypes
  <2>4. blessed' = blessed
    BY <1>7 DEF HandlerMarks
  <2>5. UNCHANGED grants \/ (MayMark(Mine(c).id) /\ MarkGrant(Mine(c).id))
    BY <1>7, Zenon DEF HandlerMarks
  <2> QED
    BY <2>1, <2>2, <2>3, <2>4, <2>5 DEF ByOperator
<1>8. ASSUME NEW c \in Client, Settle(c) PROVE ByOperator'
  <2>1. serving[c].grant \in Grant \cup {None}
    BY <1>8 DEF Settle, TTypes, Servings, ToolRequests, Mine
  <2>2. ASSUME serving[c].grant \in Grant, MayMark(serving[c].grant), MarkGrant(serving[c].grant) PROVE ByOperator'
    <3>1. \A g \in Grant : grants'[g] # grants[g] => grants'[g].status = "executed"
      BY <2>2, GrantMarked DEF Executed
    <3> QED
      BY <3>1, <1>8 DEF Settle, ByOperator
  <2>3. ASSUME serving[c].grant = None, MarkGrant(serving[c].grant) PROVE \A g \in Grant : grants'[g] = grants[g]
    BY <2>3, ToolAssumption DEF MarkGrant, TTypes
  <2>4. blessed' = blessed
    BY <1>8 DEF Settle
  <2>5. UNCHANGED grants \/ (MayMark(serving[c].grant) /\ MarkGrant(serving[c].grant))
    BY <1>8, Zenon DEF Settle
  <2> QED
    BY <2>1, <2>2, <2>3, <2>4, <2>5 DEF ByOperator
<1>9. ASSUME NEW g \in Grant, OperatorDecides(g) PROVE ByOperator'
  <2>1. grants \in [Grant -> GrantRecords \cup {None}] /\ grants[g] \in GrantRecords
    BY <1>9 DEF OperatorDecides, TTypes
  <2>2. CASE grants' = [grants EXCEPT ![g].status = "approved", ![g].fresh = TRUE] /\ blessed' = blessed \cup {<<g, grants[g].what>>}
    <3>1. grants'[g].what = grants[g].what /\ \A h \in Grant : h # g => grants'[h] = grants[h]
      BY <2>1, <2>2 DEF GrantRecords
    <3>2. blessed \subseteq blessed' /\ <<g, grants'[g].what>> \in blessed'
      BY <3>1, <2>2
    <3> QED
      BY <3>1, <3>2, <1>9 DEF ByOperator, OperatorDecides
  <2>3. CASE grants' = [grants EXCEPT ![g].status = "rejected"] /\ UNCHANGED blessed
    <3>1. grants'[g].status = "rejected" /\ \A h \in Grant : h # g => grants'[h] = grants[h]
      BY <2>1, <2>3 DEF GrantRecords
    <3>2. blessed' = blessed
      BY <2>3
    <3> QED
      BY <3>1, <3>2 DEF ByOperator
  <2> QED
    BY <1>9, <2>2, <2>3 DEF OperatorDecides
<1>10. ASSUME NEW g \in Grant, GrantExpires(g) PROVE ByOperator'
  <2>1. grants \in [Grant -> GrantRecords \cup {None}] /\ grants[g] \in GrantRecords
    BY <1>10 DEF GrantExpires, TTypes
  <2>2. /\ grants'[g].what = grants[g].what /\ grants'[g].status = grants[g].status
        /\ \A h \in Grant : h # g => grants'[h] = grants[h]
    BY <2>1, <1>10 DEF GrantRecords, GrantExpires
  <2> QED
    BY <2>1, <2>2, <1>10, RecordsAreThere DEF ByOperator, GrantExpires
<1>11. CASE SessionCloses
  BY <1>11 DEF SessionCloses, ByOperator
<1>12. CASE UNCHANGED tvars
  BY <1>12 DEF tvars, ByOperator
<1> QED
  BY <1>1, <1>2, <1>3, <1>4, <1>5, <1>6, <1>7, <1>8, <1>9, <1>10, <1>11, <1>12
  DEF TNext

\* A step that leaves a call where it is leaves what the call has.
LEMMA StaysBacked ==
  ASSUME Backed, NEW d \in Client, serving'[d] = serving[d], blessed \subseteq blessed', carried \subseteq carried'
  PROVE
    /\ serving'[d].pc \notin Granted => serving'[d].grant = None
    /\ serving'[d].pc \in Granted =>
         /\ serving'[d].grant # None => NeedsGrant(serving'[d].call)
         /\ NeedsGrant(serving'[d].call) => <<serving'[d].grant, serving'[d].call.what>> \in blessed'
         /\ serving'[d].pc # "handle" /\ HandlerAsks(serving'[d].call) => <<serving'[d].call.id, serving'[d].call.what>> \in blessed'
         /\ serving'[d].pc = "mark" => HandlerAsks(serving'[d].call)
         /\ serving'[d].pc \in {"mark", "settle"} => \E e \in carried' : e.by = <<d, serving'[d].number>>
  BY DEF Backed, Mine, By

LEMMA BackedKept ==
  TTypes /\ ByOperator /\ Backed /\ [TNext]_tvars => Backed'
<1> SUFFICES ASSUME TTypes, ByOperator, Backed, [TNext]_tvars PROVE Backed'
  OBVIOUS
<1>1. ASSUME NEW c \in Client, CallTool(c) PROVE Backed'
  <2>7. /\ serving'[c].pc \notin Granted => serving'[c].grant = None
        /\ serving'[c].pc \in Granted =>
             /\ serving'[c].grant # None => NeedsGrant(serving'[c].call)
             /\ NeedsGrant(serving'[c].call) => <<serving'[c].grant, serving'[c].call.what>> \in blessed'
             /\ serving'[c].pc # "handle" /\ HandlerAsks(serving'[c].call) => <<serving'[c].call.id, serving'[c].call.what>> \in blessed'
             /\ serving'[c].pc = "mark" => HandlerAsks(serving'[c].call)
             /\ serving'[c].pc \in {"mark", "settle"} => \E e \in carried' : e.by = <<c, serving'[c].number>>
    BY <1>1 DEF CallTool, TTypes, Servings, Granted
  <2>8. \A d \in Client : d # c => serving'[d] = serving[d]
    BY <1>1 DEF CallTool, TTypes, Servings
  <2>9. blessed' = blessed /\ carried \subseteq carried'
    BY <1>1 DEF CallTool
  <2> QED
    BY <2>7, <2>8, <2>9, StaysBacked DEF Backed, Mine, By
<1>2. ASSUME NEW c \in Client, LookUp(c) PROVE Backed'
  <2>1. Reply(c, FALSE, None) \/ Continue(c, "approve")
    BY <1>2 DEF LookUp
  <2>2. TRUE
    OBVIOUS
  <2>7. /\ serving'[c].pc \notin Granted => serving'[c].grant = None
        /\ serving'[c].pc \in Granted =>
             /\ serving'[c].grant # None => NeedsGrant(serving'[c].call)
             /\ NeedsGrant(serving'[c].call) => <<serving'[c].grant, serving'[c].call.what>> \in blessed'
             /\ serving'[c].pc # "handle" /\ HandlerAsks(serving'[c].call) => <<serving'[c].call.id, serving'[c].call.what>> \in blessed'
             /\ serving'[c].pc = "mark" => HandlerAsks(serving'[c].call)
             /\ serving'[c].pc \in {"mark", "settle"} => \E e \in carried' : e.by = <<c, serving'[c].number>>
    BY <2>1, <1>2, Replied, Continued DEF Granted, LookUp, Backed
  <2>8. \A d \in Client : d # c => serving'[d] = serving[d]
    BY <2>1, <2>2, Replied, Continued, Backing, Pended
  <2>9. blessed' = blessed /\ carried \subseteq carried'
    BY <1>2 DEF LookUp
  <2> QED
    BY <2>7, <2>8, <2>9, StaysBacked DEF Backed, Mine, By
<1>3. ASSUME NEW c \in Client, RequireApproval(c) PROVE Backed'
  <2>1. \/ ~NeedsGrant(Mine(c)) /\ Continue(c, "handle")
        \/ Pend(c, Mine(c).what)
        \/ /\ serving' = [serving EXCEPT ![c].pc = "handle", ![c].grant = PolicyId(Mine(c))]
           /\ PolicyId(Mine(c)) \in Grant /\ NeedsGrant(Mine(c)) /\ Approves(PolicyId(Mine(c)), Mine(c).what)
        \/ Reply(c, FALSE, None)
    BY <1>3 DEF RequireApproval, TTypes, Mine, ToolRequests, PolicyId
  <2>2. Mine(c).what \in STRING
    BY <1>3 DEF RequireApproval, TTypes, Mine, ToolRequests
  <2>3. serving[c].grant = None
    BY <1>3 DEF RequireApproval, Backed, Granted
  <2>7. /\ serving'[c].pc \notin Granted => serving'[c].grant = None
        /\ serving'[c].pc \in Granted =>
             /\ serving'[c].grant # None => NeedsGrant(serving'[c].call)
             /\ NeedsGrant(serving'[c].call) => <<serving'[c].grant, serving'[c].call.what>> \in blessed'
             /\ serving'[c].pc # "handle" /\ HandlerAsks(serving'[c].call) => <<serving'[c].call.id, serving'[c].call.what>> \in blessed'
             /\ serving'[c].pc = "mark" => HandlerAsks(serving'[c].call)
             /\ serving'[c].pc \in {"mark", "settle"} => \E e \in carried' : e.by = <<c, serving'[c].number>>
    <3>1. CASE ~NeedsGrant(Mine(c)) /\ Continue(c, "handle")
      BY <3>1, <2>3, Continued DEF Mine
    <3>2. CASE Pend(c, Mine(c).what) \/ Reply(c, FALSE, None)
      BY <3>2, <2>2, Pended, Replied DEF Granted
    <3>3. CASE /\ serving' = [serving EXCEPT ![c].pc = "handle", ![c].grant = PolicyId(Mine(c))]
               /\ PolicyId(Mine(c)) \in Grant /\ NeedsGrant(Mine(c)) /\ Approves(PolicyId(Mine(c)), Mine(c).what)
      <4>1. <<PolicyId(Mine(c)), Mine(c).what>> \in blessed
        BY <3>3 DEF Approves, ByOperator
      <4>2. blessed' = blessed
        BY <1>3 DEF RequireApproval
      <4>3. /\ serving'[c].pc = "handle" /\ serving'[c].call = Mine(c)
            /\ serving'[c].grant = PolicyId(Mine(c))
        BY <3>3, Backing DEF Mine
      <4>4. NeedsGrant(serving'[c].call) /\ <<serving'[c].grant, serving'[c].call.what>> \in blessed'
        <5>1. serving'[c].call = Mine(c) /\ serving'[c].grant = PolicyId(Mine(c)) /\ blessed' = blessed
          BY <4>2, <4>3
        <5>2. NeedsGrant(Mine(c))
          BY <3>3
        <5>3. NeedsGrant(serving'[c].call)
          BY <5>1, <5>2
        <5>4. <<serving'[c].grant, serving'[c].call.what>> \in blessed'
          BY <4>1, <5>1
        <5> QED
          BY <5>3, <5>4
      <4> QED
        BY <4>3, <4>4 DEF Granted
    <3> QED
      BY <2>1, <3>1, <3>2, <3>3
  <2>8. \A d \in Client : d # c => serving'[d] = serving[d]
    BY <2>1, <2>2, Replied, Continued, Backing, Pended, ZenonT(40)
  <2>9. blessed' = blessed /\ carried \subseteq carried'
    BY <1>3 DEF RequireApproval
  <2> QED
    BY <2>7, <2>8, <2>9, StaysBacked DEF Backed, Mine, By
<1>4. ASSUME NEW c \in Client, HandlerChecks(c) PROVE Backed'
  <2>1. \/ Pend(c, Mine(c).what)
        \/ Continue(c, "work") /\ Mine(c).id \in Grant /\ Approves(Mine(c).id, Mine(c).what)
        \/ Reply(c, FALSE, None)
    BY <1>4 DEF HandlerChecks, TTypes, Mine, ToolRequests
  <2>2. Mine(c).what \in STRING
    BY <1>4 DEF HandlerChecks, TTypes, Mine, ToolRequests
  <2>7. /\ serving'[c].pc \notin Granted => serving'[c].grant = None
        /\ serving'[c].pc \in Granted =>
             /\ serving'[c].grant # None => NeedsGrant(serving'[c].call)
             /\ NeedsGrant(serving'[c].call) => <<serving'[c].grant, serving'[c].call.what>> \in blessed'
             /\ serving'[c].pc # "handle" /\ HandlerAsks(serving'[c].call) => <<serving'[c].call.id, serving'[c].call.what>> \in blessed'
             /\ serving'[c].pc = "mark" => HandlerAsks(serving'[c].call)
             /\ serving'[c].pc \in {"mark", "settle"} => \E e \in carried' : e.by = <<c, serving'[c].number>>
    <3>1. CASE Pend(c, Mine(c).what) \/ Reply(c, FALSE, None)
      BY <3>1, <2>2, Pended, Replied DEF Granted
    <3>2. CASE Continue(c, "work") /\ Mine(c).id \in Grant /\ Approves(Mine(c).id, Mine(c).what)
      <4>1. <<Mine(c).id, Mine(c).what>> \in blessed
        BY <3>2 DEF Approves, ByOperator
      <4>2. blessed' = blessed /\ serving[c].pc = "handle"
        BY <1>4 DEF HandlerChecks
      <4> QED
        BY <3>2, <4>1, <4>2, Continued DEF Mine, Backed, Granted
    <3> QED
      BY <2>1, <3>1, <3>2
  <2>8. \A d \in Client : d # c => serving'[d] = serving[d]
    BY <2>1, <2>2, Replied, Continued, Backing, Pended
  <2>9. blessed' = blessed /\ carried \subseteq carried'
    BY <1>4 DEF HandlerChecks
  <2> QED
    BY <2>7, <2>8, <2>9, StaysBacked DEF Backed, Mine, By
<1>5. ASSUME NEW c \in Client, HandlerBegins(c) PROVE Backed'
  <2>1. (\E ok \in BOOLEAN : Reply(c, ok, serving[c].grant)) \/ (Continue(c, "work") /\ ~HandlerAsks(Mine(c)))
    <3>1. HandlerAsks(Mine(c)) => ~open /\ Mine(c).tool \in OnSession
      BY <1>5 DEF HandlerBegins, HandlerAsks, OnSession, OnCoreSession
    <3>2. (Mine(c).tool \in EmptyWithout) \in BOOLEAN
      OBVIOUS
    <3> QED
      BY <1>5, <3>1, <3>2 DEF HandlerBegins
  <2>2. TRUE
    OBVIOUS
  <2>7. /\ serving'[c].pc \notin Granted => serving'[c].grant = None
        /\ serving'[c].pc \in Granted =>
             /\ serving'[c].grant # None => NeedsGrant(serving'[c].call)
             /\ NeedsGrant(serving'[c].call) => <<serving'[c].grant, serving'[c].call.what>> \in blessed'
             /\ serving'[c].pc # "handle" /\ HandlerAsks(serving'[c].call) => <<serving'[c].call.id, serving'[c].call.what>> \in blessed'
             /\ serving'[c].pc = "mark" => HandlerAsks(serving'[c].call)
             /\ serving'[c].pc \in {"mark", "settle"} => \E e \in carried' : e.by = <<c, serving'[c].number>>
    <3>1. blessed' = blessed /\ serving[c].pc = "handle"
      BY <1>5 DEF HandlerBegins
    <3> QED
      BY <2>1, <3>1, Replied, Continued DEF Mine, Backed, Granted
  <2>8. \A d \in Client : d # c => serving'[d] = serving[d]
    BY <2>1, <2>2, Replied, Continued, Backing, Pended
  <2>9. blessed' = blessed /\ carried \subseteq carried'
    BY <1>5 DEF HandlerBegins
  <2> QED
    BY <2>7, <2>8, <2>9, StaysBacked DEF Backed, Mine, By
<1>6. ASSUME NEW c \in Client, HandlerWorks(c) PROVE Backed'
  <2>1. \/ Reply(c, FALSE, GrantOf(c))
        \/ HandlerAsks(Mine(c)) /\ Continue(c, "mark") /\ Did(c)
        \/ ~HandlerAsks(Mine(c)) /\ Continue(c, "settle") /\ Did(c)
    BY <1>6 DEF HandlerWorks
  <2>2. TRUE
    OBVIOUS
  <2>7. /\ serving'[c].pc \notin Granted => serving'[c].grant = None
        /\ serving'[c].pc \in Granted =>
             /\ serving'[c].grant # None => NeedsGrant(serving'[c].call)
             /\ NeedsGrant(serving'[c].call) => <<serving'[c].grant, serving'[c].call.what>> \in blessed'
             /\ serving'[c].pc # "handle" /\ HandlerAsks(serving'[c].call) => <<serving'[c].call.id, serving'[c].call.what>> \in blessed'
             /\ serving'[c].pc = "mark" => HandlerAsks(serving'[c].call)
             /\ serving'[c].pc \in {"mark", "settle"} => \E e \in carried' : e.by = <<c, serving'[c].number>>
    <3>1. blessed' = blessed /\ serving[c].pc = "work"
      BY <1>6 DEF HandlerWorks
    <3>2. Did(c) => \E e \in carried' : e.by = <<c, serving[c].number>>
      <4>1. [by |-> <<c, serving[c].number>>, grant |-> GrantOf(c), call |-> Mine(c)].by = <<c, serving[c].number>>
        OBVIOUS
      <4> QED
        BY <4>1 DEF Did, By
    <3> QED
      BY <2>1, <3>1, <3>2, Replied, Continued DEF Mine, Backed, Granted
  <2>8. \A d \in Client : d # c => serving'[d] = serving[d]
    BY <2>1, <2>2, Replied, Continued, Backing, Pended
  <2>9. blessed' = blessed /\ carried \subseteq carried'
    BY <1>6 DEF HandlerWorks, Did
  <2> QED
    BY <2>7, <2>8, <2>9, StaysBacked DEF Backed, Mine, By
<1>7. ASSUME NEW c \in Client, HandlerMarks(c) PROVE Backed'
  <2>1. Reply(c, FALSE, Mine(c).id) \/ Continue(c, "settle")
    BY <1>7 DEF HandlerMarks
  <2>2. TRUE
    OBVIOUS
  <2>7. /\ serving'[c].pc \notin Granted => serving'[c].grant = None
        /\ serving'[c].pc \in Granted =>
             /\ serving'[c].grant # None => NeedsGrant(serving'[c].call)
             /\ NeedsGrant(serving'[c].call) => <<serving'[c].grant, serving'[c].call.what>> \in blessed'
             /\ serving'[c].pc # "handle" /\ HandlerAsks(serving'[c].call) => <<serving'[c].call.id, serving'[c].call.what>> \in blessed'
             /\ serving'[c].pc = "mark" => HandlerAsks(serving'[c].call)
             /\ serving'[c].pc \in {"mark", "settle"} => \E e \in carried' : e.by = <<c, serving'[c].number>>
    <3>1. blessed' = blessed /\ carried' = carried /\ serving[c].pc = "mark"
      BY <1>7 DEF HandlerMarks
    <3> QED
      BY <2>1, <3>1, Replied, Continued DEF Mine, Backed, Granted, By
  <2>8. \A d \in Client : d # c => serving'[d] = serving[d]
    BY <2>1, <2>2, Replied, Continued, Backing, Pended
  <2>9. blessed' = blessed /\ carried \subseteq carried'
    BY <1>7 DEF HandlerMarks
  <2> QED
    BY <2>7, <2>8, <2>9, StaysBacked DEF Backed, Mine, By
<1>8. ASSUME NEW c \in Client, Settle(c) PROVE Backed'
  <2>1. \E ok \in BOOLEAN, g \in {serving[c].grant, GrantOf(c)} : Reply(c, ok, g)
    BY <1>8 DEF Settle
  <2>2. TRUE
    OBVIOUS
  <2>7. /\ serving'[c].pc \notin Granted => serving'[c].grant = None
        /\ serving'[c].pc \in Granted =>
             /\ serving'[c].grant # None => NeedsGrant(serving'[c].call)
             /\ NeedsGrant(serving'[c].call) => <<serving'[c].grant, serving'[c].call.what>> \in blessed'
             /\ serving'[c].pc # "handle" /\ HandlerAsks(serving'[c].call) => <<serving'[c].call.id, serving'[c].call.what>> \in blessed'
             /\ serving'[c].pc = "mark" => HandlerAsks(serving'[c].call)
             /\ serving'[c].pc \in {"mark", "settle"} => \E e \in carried' : e.by = <<c, serving'[c].number>>
    BY <2>1, Replied DEF Granted
  <2>8. \A d \in Client : d # c => serving'[d] = serving[d]
    BY <2>1, <2>2, Replied, Continued, Backing, Pended
  <2>9. blessed' = blessed /\ carried \subseteq carried'
    BY <1>8 DEF Settle
  <2> QED
    BY <2>7, <2>8, <2>9, StaysBacked DEF Backed, Mine, By
<1>9. ASSUME NEW g \in Grant, OperatorDecides(g) PROVE Backed'
  <2>1. serving' = serving /\ blessed \subseteq blessed' /\ carried' = carried
    BY <1>9 DEF OperatorDecides
  <2> QED
    BY <2>1, StaysBacked DEF Backed, Mine, By
<1>10. ASSUME NEW g \in Grant, GrantExpires(g) PROVE Backed'
  <2>1. serving' = serving /\ blessed \subseteq blessed' /\ carried' = carried
    BY <1>10 DEF GrantExpires
  <2> QED
    BY <2>1, StaysBacked DEF Backed, Mine, By
<1>11. CASE SessionCloses
  <2>1. serving' = serving /\ blessed \subseteq blessed' /\ carried' = carried
    BY <1>11 DEF SessionCloses
  <2> QED
    BY <2>1, StaysBacked DEF Backed, Mine, By
<1>12. CASE UNCHANGED tvars
  BY <1>12 DEF tvars, Backed, Mine, By, Granted, NeedsGrant, HandlerAsks
<1> QED
  BY <1>1, <1>2, <1>3, <1>4, <1>5, <1>6, <1>7, <1>8, <1>9, <1>10, <1>11, <1>12
  DEF TNext

\* A refusal, and an answer that rests on no approval, spends none.
LEMMA Refused ==
  ASSUME TTypes, NEW c \in Client, NEW ok \in BOOLEAN, NEW grant, Reply(c, ok, grant), ok = FALSE \/ grant = None
  PROVE \A r \in replies' : r.ok /\ r.grant # None => r \in replies
<1> DEFINE new == [by |-> By(c), grant |-> grant, call |-> Mine(c), ok |-> ok]
<1>1. replies' = replies \cup {new}
  BY Replied
<1>2. new.ok = ok /\ new.grant = grant
  OBVIOUS
<1> HIDE DEF new
<1>3. ~(new.ok /\ new.grant # None)
  <2>1. CASE ok = FALSE
    <3>1. new.ok = FALSE
      BY <1>2, <2>1
    <3> QED
      BY <3>1, Zenon
  <2>2. CASE grant = None
    BY <1>2, <2>2
  <2> QED
    BY <2>1, <2>2
<1> QED
  BY <1>1, <1>3

\* What nobody has marked nobody has spent.
LEMMA NotSpent ==
  ASSUME SpentOnce, NEW g \in Grant, ~Executed(g), None \notin Grant
  PROVE (\A d \in Client : ~Spender(d, g)) /\ \A r \in replies : ~(r.ok /\ r.grant = g)
  BY DEF SpentOnce

\* No step unmarks an approval.
LEMMA MarksStay ==
  TTypes /\ ByOperator /\ Backed /\ [TNext]_tvars =>
    \A g \in Grant : Executed(g) => grants'[g] # None /\ grants'[g].status = "executed"
<1> SUFFICES ASSUME TTypes, ByOperator, Backed, [TNext]_tvars, NEW g \in Grant, Executed(g)
             PROVE grants'[g] # None /\ grants'[g].status = "executed"
  OBVIOUS
<1>1. grants \in [Grant -> GrantRecords \cup {None}] /\ grants[g] \in GrantRecords
  BY DEF TTypes, Executed
<1>2. ASSUME UNCHANGED grants PROVE grants'[g] # None /\ grants'[g].status = "executed"
  BY <1>2 DEF Executed
<1>3. ASSUME NEW c \in Client, Pend(c, Mine(c).what), Mine(c).what \in STRING
      PROVE grants'[g] # None /\ grants'[g].status = "executed"
  BY <1>3, Pended DEF Executed
<1>4. ASSUME NEW h \in Grant \cup {None}, MayMark(h), MarkGrant(h) PROVE grants'[g] # None /\ grants'[g].status = "executed"
  <2>1. CASE h = g
    BY <1>1, <1>4, <2>1 DEF MayMark, Executed
  <2>2. CASE h # g
    BY <1>1, <1>4, <2>2 DEF MarkGrant, Executed
  <2> QED
    BY <2>1, <2>2
<1>5. CASE \E c \in Client : CallTool(c) \/ LookUp(c) \/ HandlerBegins(c) \/ HandlerWorks(c)
  BY <1>5, <1>2 DEF CallTool, LookUp, HandlerBegins, HandlerWorks
<1>6. ASSUME NEW c \in Client, RequireApproval(c) \/ HandlerChecks(c)
      PROVE grants'[g] # None /\ grants'[g].status = "executed"
  <2>1. Mine(c).what \in STRING
    BY <1>6 DEF RequireApproval, HandlerChecks, TTypes, Mine, ToolRequests
  <2>2. UNCHANGED grants \/ Pend(c, Mine(c).what)
    BY <1>6 DEF RequireApproval, HandlerChecks
  <2> QED
    BY <2>1, <2>2, <1>2, <1>3
<1>7. ASSUME NEW c \in Client, HandlerMarks(c) \/ Settle(c) PROVE grants'[g] # None /\ grants'[g].status = "executed"
  <2>1. serving[c].grant \in Grant \cup {None}
    BY DEF TTypes, Servings
  <2>2. HandlerMarks(c) => Mine(c).id \in Grant \cup {None}
    BY DEF HandlerMarks, TTypes, Mine, ToolRequests
  <2>3. \/ UNCHANGED grants
        \/ (HandlerMarks(c) /\ MayMark(Mine(c).id) /\ MarkGrant(Mine(c).id))
        \/ (MayMark(serving[c].grant) /\ MarkGrant(serving[c].grant))
    BY <1>7, Zenon DEF HandlerMarks, Settle
  <2> QED
    BY <2>1, <2>2, <2>3, <1>2, <1>4
<1>8. ASSUME NEW h \in Grant, OperatorDecides(h) \/ GrantExpires(h)
      PROVE grants'[g] # None /\ grants'[g].status = "executed"
  <2>1. h # g
    BY <1>8 DEF OperatorDecides, GrantExpires, Executed
  <2>2. grants'[g] = grants[g]
    BY <1>8, <1>1, <2>1 DEF OperatorDecides, GrantExpires
  <2> QED
    BY <2>2 DEF Executed
<1> QED
  BY <1>2, <1>5, <1>6, <1>7, <1>8 DEF TNext, tvars, SessionCloses

\* A step that neither marks an approval nor answers a call as a success that rests on one.
LEMMA SpendsNothing ==
  ASSUME SpentOnce, TTypes, ToolAssumption,
         \A d \in Client : serving'[d].pc = "settle" /\ HandlerAsks(serving'[d].call) =>
           serving[d].pc = "settle" /\ serving'[d].call = serving[d].call,
         \A r \in replies' : r.ok /\ r.grant # None => r \in replies,
         \A g \in Grant : Executed(g) => grants'[g] # None /\ grants'[g].status = "executed",
         carried \subseteq carried'
  PROVE SpentOnce'
<1>1. ASSUME NEW c \in Client, NEW g \in Grant, Spender(c, g)'
      PROVE Executed(g)' /\ (\A d \in Client : Spender(d, g)' => d = c) /\ \A r \in replies' : ~(r.ok /\ r.grant = g)
  <2>1. Spender(c, g)
    BY <1>1 DEF Spender, Mine
  <2>2. \A d \in Client : Spender(d, g)' => Spender(d, g)
    BY DEF Spender, Mine
  <2>3. Executed(g) /\ (\A d \in Client : Spender(d, g) => d = c) /\ \A r \in replies : ~(r.ok /\ r.grant = g)
    BY <2>1 DEF SpentOnce
  <2>4. Executed(g)'
    BY <2>3 DEF Executed
  <2>5. \A r \in replies' : ~(r.ok /\ r.grant = g)
    BY <2>3, ToolAssumption
  <2> QED
    BY <2>2, <2>3, <2>4, <2>5
<1>2. ASSUME NEW r \in replies', r.ok, r.grant # None
      PROVE /\ r.grant \in Grant /\ Executed(r.grant)'
            /\ \E d \in carried' : d.by = r.by
            /\ \A q \in replies' : q.ok /\ q.grant = r.grant => q = r
  <2>1. r \in replies
    BY <1>2
  <2>2. /\ r.grant \in Grant /\ Executed(r.grant)
        /\ \E d \in carried : d.by = r.by
        /\ \A q \in replies : q.ok /\ q.grant = r.grant => q = r
    BY <1>2, <2>1 DEF SpentOnce
  <2>3. Executed(r.grant)'
    BY <2>2 DEF Executed
  <2>4. \A q \in replies' : q.ok /\ q.grant = r.grant => q = r
    BY <1>2, <2>2
  <2> QED
    BY <2>2, <2>3, <2>4
<1> QED
  BY <1>1, <1>2 DEF SpentOnce

\* The answer of a call as a success that rests on an approval.
LEMMA AnswerSpends ==
  ASSUME SpentOnce, TTypes, NEW c \in Client, NEW g \in Grant, Reply(c, TRUE, g), None \notin Grant,
         \A d \in Client : Spender(d, g) => d = c,
         \A r \in replies : ~(r.ok /\ r.grant = g),
         \A h \in Grant : Executed(h) \/ h = g => grants'[h] # None /\ grants'[h].status = "executed",
         carried' = carried, \E e \in carried : e.by = By(c)
  PROVE SpentOnce'
<1> DEFINE new == [by |-> By(c), grant |-> g, call |-> Mine(c), ok |-> TRUE]
<1>1. /\ serving'[c].pc = "idle" /\ \A d \in Client : d # c => serving'[d] = serving[d]
      /\ replies' = replies \cup {new}
  BY Replied
<1>2. new.by = By(c) /\ new.grant = g /\ new.ok
  OBVIOUS
<1> HIDE DEF new
<1>3. \A d \in Client, h \in Grant : Spender(d, h)' => Spender(d, h) /\ d # c
  BY <1>1 DEF Spender, Mine
<1>4. ASSUME NEW d \in Client, NEW h \in Grant, Spender(d, h)'
      PROVE Executed(h)' /\ (\A e \in Client : Spender(e, h)' => e = d) /\ \A r \in replies' : ~(r.ok /\ r.grant = h)
  <2>1. Spender(d, h) /\ d # c
    BY <1>3, <1>4
  <2>2. h # g
    BY <2>1
  <2>3. Executed(h) /\ (\A e \in Client : Spender(e, h) => e = d) /\ \A r \in replies : ~(r.ok /\ r.grant = h)
    BY <2>1 DEF SpentOnce
  <2>4. \A r \in replies' : ~(r.ok /\ r.grant = h)
    BY <1>1, <1>2, <2>2, <2>3
  <2>5. Executed(h)'
    BY <2>3 DEF Executed
  <2> QED
    BY <1>3, <2>3, <2>4, <2>5
<1>5. ASSUME NEW r \in replies', r.ok, r.grant # None
      PROVE /\ r.grant \in Grant /\ Executed(r.grant)'
            /\ \E d \in carried' : d.by = r.by
            /\ \A q \in replies' : q.ok /\ q.grant = r.grant => q = r
  <2>1. CASE r = new
    <3>1. Executed(g)'
      BY DEF Executed
    <3> QED
      BY <1>1, <1>2, <2>1, <3>1
  <2>2. CASE r \in replies
    <3>1. /\ r.grant \in Grant /\ Executed(r.grant)
          /\ \E d \in carried : d.by = r.by
          /\ \A q \in replies : q.ok /\ q.grant = r.grant => q = r
      BY <1>5, <2>2 DEF SpentOnce
    <3>2. r.grant # g
      BY <1>5, <2>2
    <3>3. Executed(r.grant)'
      BY <3>1 DEF Executed
    <3> QED
      BY <1>1, <1>2, <3>1, <3>2, <3>3
  <2> QED
    BY <1>1, <2>1, <2>2
<1> QED
  BY <1>4, <1>5 DEF SpentOnce

LEMMA SpentOnceKept ==
  TTypes /\ ByOperator /\ Backed /\ SpentOnce /\ [TNext]_tvars => SpentOnce'
<1> SUFFICES ASSUME TTypes, ByOperator, Backed, SpentOnce, [TNext]_tvars PROVE SpentOnce'
  OBVIOUS
<1>1. ASSUME NEW c \in Client, CallTool(c) PROVE SpentOnce'
  <2>1. \A h \in Grant : Executed(h) => grants'[h] # None /\ grants'[h].status = "executed"
    BY MarksStay
  <2>2. \A d \in Client : serving'[d].pc = "settle" /\ HandlerAsks(serving'[d].call) =>
          serving[d].pc = "settle" /\ serving'[d].call = serving[d].call
    BY <1>1 DEF CallTool, TTypes, Servings
  <2>3. \A r \in replies' : r.ok /\ r.grant # None => r \in replies
    BY <1>1 DEF CallTool
  <2>4. carried \subseteq carried'
    BY <1>1 DEF CallTool
  <2> QED
    BY <2>1, <2>2, <2>3, <2>4, SpendsNothing, ToolAssumption
<1>2. ASSUME NEW c \in Client, LookUp(c) PROVE SpentOnce'
  <2>1. \A h \in Grant : Executed(h) => grants'[h] # None /\ grants'[h].status = "executed"
    BY MarksStay
  <2>2. \A d \in Client : serving'[d].pc = "settle" /\ HandlerAsks(serving'[d].call) =>
          serving[d].pc = "settle" /\ serving'[d].call = serving[d].call
    BY <1>2, Replied, Continued DEF LookUp
  <2>3. \A r \in replies' : r.ok /\ r.grant # None => r \in replies
    BY <1>2, Refused, Continued DEF LookUp
  <2>4. carried \subseteq carried'
    BY <1>2 DEF LookUp
  <2> QED
    BY <2>1, <2>2, <2>3, <2>4, SpendsNothing, ToolAssumption
<1>3. ASSUME NEW c \in Client, RequireApproval(c) PROVE SpentOnce'
  <2>1. \A h \in Grant : Executed(h) => grants'[h] # None /\ grants'[h].status = "executed"
    BY MarksStay
  <2>2. \A d \in Client : serving'[d].pc = "settle" /\ HandlerAsks(serving'[d].call) =>
          serving[d].pc = "settle" /\ serving'[d].call = serving[d].call
    <3>1. Pend(c, Mine(c).what) => Reply(c, FALSE, None)
      BY DEF Pend
    <3>2. CASE Reply(c, FALSE, None)
      BY <3>2, Replied, Refused
    <3>3. CASE Continue(c, "handle") \/ Continue(c, "work")
      BY <3>3, Continued
    <3>4. ASSUME PolicyId(Mine(c)) \in Grant, UNCHANGED replies,
                 serving' = [serving EXCEPT ![c].pc = "handle", ![c].grant = PolicyId(Mine(c))]
          PROVE \A d \in Client : serving'[d].pc = "settle" /\ HandlerAsks(serving'[d].call) =>
                  serving[d].pc = "settle" /\ serving'[d].call = serving[d].call
      BY <3>4, Backing
    <3>5. PolicyId(Mine(c)) \in Grant \cup {None}
      BY <1>3 DEF RequireApproval, TTypes, Mine, PolicyId, ToolRequests
    <3> QED
      BY <1>3, <3>1, <3>2, <3>3, <3>4, <3>5 DEF RequireApproval
  <2>3. \A r \in replies' : r.ok /\ r.grant # None => r \in replies
    <3>1. Pend(c, Mine(c).what) => Reply(c, FALSE, None)
      BY DEF Pend
    <3>2. CASE Reply(c, FALSE, None)
      BY <3>2, Replied, Refused
    <3>3. CASE Continue(c, "handle") \/ Continue(c, "work")
      BY <3>3, Continued
    <3>4. ASSUME PolicyId(Mine(c)) \in Grant, UNCHANGED replies,
                 serving' = [serving EXCEPT ![c].pc = "handle", ![c].grant = PolicyId(Mine(c))]
          PROVE \A r \in replies' : r.ok /\ r.grant # None => r \in replies
      BY <3>4, Backing
    <3>5. PolicyId(Mine(c)) \in Grant \cup {None}
      BY <1>3 DEF RequireApproval, TTypes, Mine, PolicyId, ToolRequests
    <3> QED
      BY <1>3, <3>1, <3>2, <3>3, <3>4, <3>5 DEF RequireApproval
  <2>4. carried \subseteq carried'
    BY <1>3 DEF RequireApproval
  <2> QED
    BY <2>1, <2>2, <2>3, <2>4, SpendsNothing, ToolAssumption
<1>4. ASSUME NEW c \in Client, HandlerChecks(c) PROVE SpentOnce'
  <2>1. \A h \in Grant : Executed(h) => grants'[h] # None /\ grants'[h].status = "executed"
    BY MarksStay
  <2>2. \A d \in Client : serving'[d].pc = "settle" /\ HandlerAsks(serving'[d].call) =>
          serving[d].pc = "settle" /\ serving'[d].call = serving[d].call
    <3>1. Pend(c, Mine(c).what) => Reply(c, FALSE, None)
      BY DEF Pend
    <3>2. CASE Reply(c, FALSE, None)
      BY <3>2, Replied, Refused
    <3>3. CASE Continue(c, "handle") \/ Continue(c, "work")
      BY <3>3, Continued
    <3> QED
      BY <1>4, <3>1, <3>2, <3>3 DEF HandlerChecks
  <2>3. \A r \in replies' : r.ok /\ r.grant # None => r \in replies
    <3>1. Pend(c, Mine(c).what) => Reply(c, FALSE, None)
      BY DEF Pend
    <3>2. CASE Reply(c, FALSE, None)
      BY <3>2, Replied, Refused
    <3>3. CASE Continue(c, "handle") \/ Continue(c, "work")
      BY <3>3, Continued
    <3> QED
      BY <1>4, <3>1, <3>2, <3>3 DEF HandlerChecks
  <2>4. carried \subseteq carried'
    BY <1>4 DEF HandlerChecks
  <2> QED
    BY <2>1, <2>2, <2>3, <2>4, SpendsNothing, ToolAssumption
<1>5. ASSUME NEW c \in Client, HandlerBegins(c) PROVE SpentOnce'
  <2>1. \A h \in Grant : Executed(h) => grants'[h] # None /\ grants'[h].status = "executed"
    BY MarksStay
  <2>2. \A d \in Client : serving'[d].pc = "settle" /\ HandlerAsks(serving'[d].call) =>
          serving[d].pc = "settle" /\ serving'[d].call = serving[d].call
    <3>1. (\E ok \in BOOLEAN : Reply(c, ok, serving[c].grant)) \/ Continue(c, "work")
      <4>1. (Mine(c).tool \in EmptyWithout) \in BOOLEAN
        OBVIOUS
      <4> QED
        BY <1>5, <4>1 DEF HandlerBegins
    <3> QED
      BY <3>1, Replied, Continued
  <2>3. \A r \in replies' : r.ok /\ r.grant # None => r \in replies
    <3>1. \/ Reply(c, FALSE, serving[c].grant) \/ Continue(c, "work")
          \/ (Mine(c).tool \in EmptyWithout /\ Reply(c, TRUE, serving[c].grant))
      <4>1. CASE Mine(c).tool \in EmptyWithout
        <5>1. (Mine(c).tool \in EmptyWithout) = TRUE
          BY <4>1, Zenon
        <5> QED
          BY <1>5, <4>1, <5>1 DEF HandlerBegins
      <4>2. CASE Mine(c).tool \notin EmptyWithout
        <5>1. (Mine(c).tool \in EmptyWithout) = FALSE
          BY <4>2
        <5> QED
          BY <1>5, <4>2, <5>1 DEF HandlerBegins
      <4> QED
        BY <4>1, <4>2
    <3>2. Mine(c).tool \in EmptyWithout => serving[c].grant = None
      <4>1. Mine(c).tool \in EmptyWithout => ~NeedsGrant(Mine(c))
        BY DEF EmptyWithout, NeedsGrant, Governed, GovernedWrite, GovernedAccount
      <4> QED
        BY <4>1, <1>5 DEF HandlerBegins, Backed, Granted
    <3> QED
      BY <3>1, <3>2, Refused, Continued
  <2>4. carried \subseteq carried'
    BY <1>5 DEF HandlerBegins
  <2> QED
    BY <2>1, <2>2, <2>3, <2>4, SpendsNothing, ToolAssumption
<1>6. ASSUME NEW c \in Client, HandlerWorks(c) PROVE SpentOnce'
  <2>1. \A h \in Grant : Executed(h) => grants'[h] # None /\ grants'[h].status = "executed"
    BY MarksStay
  <2>2. \A d \in Client : serving'[d].pc = "settle" /\ HandlerAsks(serving'[d].call) =>
          serving[d].pc = "settle" /\ serving'[d].call = serving[d].call
    <3>1. \/ Reply(c, FALSE, GrantOf(c)) \/ Continue(c, "mark")
          \/ (~HandlerAsks(Mine(c)) /\ Continue(c, "settle"))
      BY <1>6 DEF HandlerWorks
    <3> QED
      BY <3>1, Replied, Continued DEF Mine
  <2>3. \A r \in replies' : r.ok /\ r.grant # None => r \in replies
    <3>1. Reply(c, FALSE, GrantOf(c)) \/ UNCHANGED replies
      BY <1>6 DEF HandlerWorks, Continue
    <3> QED
      BY <3>1, Refused
  <2>4. carried \subseteq carried'
    BY <1>6 DEF HandlerWorks, Did
  <2> QED
    BY <2>1, <2>2, <2>3, <2>4, SpendsNothing, ToolAssumption
<1>7. ASSUME NEW c \in Client, HandlerMarks(c) PROVE SpentOnce'
  <2>1. \A h \in Grant : Executed(h) => grants'[h] # None /\ grants'[h].status = "executed"
    BY MarksStay
  <2>2. carried \subseteq carried' /\ carried' = carried /\ blessed' = blessed /\ serving[c].pc = "mark"
    BY <1>7 DEF HandlerMarks
  <2>3. CASE Reply(c, FALSE, Mine(c).id)
    <3>1. \A d \in Client : serving'[d].pc = "settle" /\ HandlerAsks(serving'[d].call) =>
             serving[d].pc = "settle" /\ serving'[d].call = serving[d].call
      BY <2>3, Replied
    <3>2. \A r \in replies' : r.ok /\ r.grant # None => r \in replies
      BY <2>3, Refused
    <3> QED
      BY <2>1, <2>2, <3>1, <3>2, SpendsNothing, ToolAssumption
  <2>4. HandlerAsks(Mine(c)) /\ Mine(c).id \in Grant
    BY <2>2 DEF Backed, Granted, TTypes
  <2>5. CASE MayMark(Mine(c).id) /\ MarkGrant(Mine(c).id) /\ Continue(c, "settle")
    <3>1. PICK g \in Grant : Mine(c).id = g
      BY <2>4
    <3>2. Executed(g)' /\ ~Executed(g)
      BY <2>5, <3>1, GrantMarked DEF Executed
    <3>3. (\A d \in Client : ~Spender(d, g)) /\ \A r \in replies : ~(r.ok /\ r.grant = g)
      BY <3>1, <3>2, NotSpent, ToolAssumption
    <3>4. /\ serving'[c].pc = "settle" /\ serving'[c].call = serving[c].call /\ replies' = replies
          /\ \A d \in Client : d # c => serving'[d] = serving[d]
      BY <2>5, Continued
    <3>5. \A d \in Client, h \in Grant : Spender(d, h)' => Spender(d, h) \/ (d = c /\ h = g)
      BY <3>1, <3>4 DEF Spender, Mine
    <3>6. ASSUME NEW d \in Client, NEW h \in Grant, Spender(d, h)'
          PROVE Executed(h)' /\ (\A e \in Client : Spender(e, h)' => e = d) /\ \A r \in replies' : ~(r.ok /\ r.grant = h)
      <4>1. CASE h = g
        BY <3>2, <3>3, <3>4, <3>5, <3>6, <4>1
      <4>2. CASE h # g
        <5>1. Spender(d, h)
          BY <3>5, <3>6, <4>2
        <5>2. Executed(h) /\ (\A e \in Client : Spender(e, h) => e = d) /\ \A r \in replies : ~(r.ok /\ r.grant = h)
          BY <5>1 DEF SpentOnce
        <5>3. Executed(h)'
          BY <5>2, <2>1 DEF Executed
        <5> QED
          BY <5>2, <5>3, <3>4, <3>5, <4>2
      <4> QED
        BY <4>1, <4>2
    <3>7. ASSUME NEW r \in replies', r.ok, r.grant # None
          PROVE /\ r.grant \in Grant /\ Executed(r.grant)'
                /\ \E d \in carried' : d.by = r.by
                /\ \A q \in replies' : q.ok /\ q.grant = r.grant => q = r
      <4>1. /\ r.grant \in Grant /\ Executed(r.grant)
            /\ \E d \in carried : d.by = r.by
            /\ \A q \in replies : q.ok /\ q.grant = r.grant => q = r
        BY <3>4, <3>7 DEF SpentOnce
      <4>2. Executed(r.grant)'
        BY <4>1, <2>1 DEF Executed
      <4> QED
        BY <4>1, <4>2, <2>2, <3>4
    <3> QED
      BY <3>6, <3>7 DEF SpentOnce
  <2> QED
    BY <1>7, <2>3, <2>5, Zenon DEF HandlerMarks
<1>8. ASSUME NEW c \in Client, Settle(c) PROVE SpentOnce'
  <2>1. \A h \in Grant : Executed(h) => grants'[h] # None /\ grants'[h].status = "executed"
    BY MarksStay
  <2>2. carried \subseteq carried' /\ carried' = carried /\ blessed' = blessed /\ serving[c].pc = "settle"
    BY <1>8 DEF Settle
  <2>3. \E e \in carried : e.by = By(c)
    BY <2>2 DEF Backed, Granted
  <2>4. CASE Reply(c, FALSE, serving[c].grant)
    <3>1. \A d \in Client : serving'[d].pc = "settle" /\ HandlerAsks(serving'[d].call) =>
             serving[d].pc = "settle" /\ serving'[d].call = serving[d].call
      BY <2>4, Replied
    <3>2. \A r \in replies' : r.ok /\ r.grant # None => r \in replies
      BY <2>4, Refused
    <3> QED
      BY <2>1, <2>2, <3>1, <3>2, SpendsNothing, ToolAssumption
  <2>5. CASE Reply(c, TRUE, GrantOf(c)) /\ ~HandlerAsks(Mine(c)) /\ serving[c].grant = None
    <3>0. GrantOf(c) = None
      BY <2>5 DEF GrantOf
    <3>1. \A d \in Client : serving'[d].pc = "settle" /\ HandlerAsks(serving'[d].call) =>
             serving[d].pc = "settle" /\ serving'[d].call = serving[d].call
      BY <2>5, Replied
    <3>2. \A r \in replies' : r.ok /\ r.grant # None => r \in replies
      BY <2>5, Refused, <3>0
    <3> QED
      BY <2>1, <2>2, <3>1, <3>2, SpendsNothing, ToolAssumption
  <2>6. CASE Reply(c, TRUE, GrantOf(c)) /\ HandlerAsks(Mine(c))
    <3>1. GrantOf(c) = Mine(c).id /\ Mine(c).id \in Grant
      BY <2>2, <2>6 DEF GrantOf, Backed, Granted, TTypes
    <3>2. Spender(c, GrantOf(c)) /\ GrantOf(c) \in Grant
      BY <2>2, <2>6, <3>1 DEF Spender
    <3>3. /\ Executed(GrantOf(c)) /\ \A d \in Client : Spender(d, GrantOf(c)) => d = c
          /\ \A r \in replies : ~(r.ok /\ r.grant = GrantOf(c))
      BY <3>2 DEF SpentOnce
    <3>4. \A h \in Grant : Executed(h) \/ h = GrantOf(c) => grants'[h] # None /\ grants'[h].status = "executed"
      BY <3>3, <2>1
    <3> QED
      BY <2>2, <2>3, <2>6, <3>2, <3>3, <3>4, AnswerSpends, ToolAssumption
  <2>7. CASE /\ serving[c].grant # None /\ MayMark(serving[c].grant) /\ MarkGrant(serving[c].grant)
             /\ Reply(c, TRUE, serving[c].grant)
    <3>1. serving[c].grant \in Grant
      BY <2>7 DEF TTypes, Servings
    <3>2. /\ grants'[serving[c].grant] # None /\ grants'[serving[c].grant].status = "executed"
          /\ ~Executed(serving[c].grant)
      BY <2>7, <3>1, GrantMarked DEF Executed
    <3>3. /\ \A d \in Client : ~Spender(d, serving[c].grant)
          /\ \A r \in replies : ~(r.ok /\ r.grant = serving[c].grant)
      BY <3>1, <3>2, NotSpent, ToolAssumption
    <3>4. \A h \in Grant : Executed(h) \/ h = serving[c].grant => grants'[h] # None /\ grants'[h].status = "executed"
      BY <3>2, <2>1
    <3> QED
      BY <2>2, <2>3, <2>7, <3>1, <3>3, <3>4, AnswerSpends, ToolAssumption
  <2> QED
    BY <1>8, <2>4, <2>5, <2>6, <2>7, Zenon DEF Settle
<1>9. ASSUME NEW g \in Grant, OperatorDecides(g) PROVE SpentOnce'
  <2>1. \A h \in Grant : Executed(h) => grants'[h] # None /\ grants'[h].status = "executed"
    BY MarksStay
  <2>2. \A d \in Client : serving'[d].pc = "settle" /\ HandlerAsks(serving'[d].call) =>
          serving[d].pc = "settle" /\ serving'[d].call = serving[d].call
    BY <1>9 DEF OperatorDecides
  <2>3. \A r \in replies' : r.ok /\ r.grant # None => r \in replies
    BY <1>9 DEF OperatorDecides
  <2>4. carried \subseteq carried'
    BY <1>9 DEF OperatorDecides
  <2> QED
    BY <2>1, <2>2, <2>3, <2>4, SpendsNothing, ToolAssumption
<1>10. ASSUME NEW g \in Grant, GrantExpires(g) PROVE SpentOnce'
  <2>1. \A h \in Grant : Executed(h) => grants'[h] # None /\ grants'[h].status = "executed"
    BY MarksStay
  <2>2. \A d \in Client : serving'[d].pc = "settle" /\ HandlerAsks(serving'[d].call) =>
          serving[d].pc = "settle" /\ serving'[d].call = serving[d].call
    BY <1>10 DEF GrantExpires
  <2>3. \A r \in replies' : r.ok /\ r.grant # None => r \in replies
    BY <1>10 DEF GrantExpires
  <2>4. carried \subseteq carried'
    BY <1>10 DEF GrantExpires
  <2> QED
    BY <2>1, <2>2, <2>3, <2>4, SpendsNothing, ToolAssumption
<1>11. CASE SessionCloses
  <2>1. \A h \in Grant : Executed(h) => grants'[h] # None /\ grants'[h].status = "executed"
    BY MarksStay
  <2>2. \A d \in Client : serving'[d].pc = "settle" /\ HandlerAsks(serving'[d].call) =>
          serving[d].pc = "settle" /\ serving'[d].call = serving[d].call
    BY <1>11 DEF SessionCloses
  <2>3. \A r \in replies' : r.ok /\ r.grant # None => r \in replies
    BY <1>11 DEF SessionCloses
  <2>4. carried \subseteq carried'
    BY <1>11 DEF SessionCloses
  <2> QED
    BY <2>1, <2>2, <2>3, <2>4, SpendsNothing, ToolAssumption
<1>12. CASE UNCHANGED tvars
  BY <1>12 DEF tvars, SpentOnce, Spender, Executed, Mine
<1> QED
  BY <1>1, <1>2, <1>3, <1>4, <1>5, <1>6, <1>7, <1>8, <1>9, <1>10, <1>11, <1>12
  DEF TNext

LEMMA DoneWithApprovalKept ==
  TTypes /\ Backed /\ DoneWithApproval /\ [TNext]_tvars => DoneWithApproval'
<1> SUFFICES ASSUME TTypes, Backed, DoneWithApproval, [TNext]_tvars PROVE DoneWithApproval'
  OBVIOUS
<1>1. ASSUME NEW c \in Client, CallTool(c) PROVE DoneWithApproval'
  <2>1. carried' = carried /\ blessed \subseteq blessed'
    BY <1>1 DEF CallTool
  <2> QED
    BY <2>1 DEF DoneWithApproval
<1>2. ASSUME NEW c \in Client, LookUp(c) PROVE DoneWithApproval'
  <2>1. carried' = carried /\ blessed \subseteq blessed'
    BY <1>2 DEF LookUp
  <2> QED
    BY <2>1 DEF DoneWithApproval
<1>3. ASSUME NEW c \in Client, RequireApproval(c) PROVE DoneWithApproval'
  <2>1. carried' = carried /\ blessed \subseteq blessed'
    BY <1>3 DEF RequireApproval
  <2> QED
    BY <2>1 DEF DoneWithApproval
<1>4. ASSUME NEW c \in Client, HandlerChecks(c) PROVE DoneWithApproval'
  <2>1. carried' = carried /\ blessed \subseteq blessed'
    BY <1>4 DEF HandlerChecks
  <2> QED
    BY <2>1 DEF DoneWithApproval
<1>5. ASSUME NEW c \in Client, HandlerBegins(c) PROVE DoneWithApproval'
  <2>1. carried' = carried /\ blessed \subseteq blessed'
    BY <1>5 DEF HandlerBegins
  <2> QED
    BY <2>1 DEF DoneWithApproval
<1>6. ASSUME NEW c \in Client, HandlerWorks(c) PROVE DoneWithApproval'
  <2>1. blessed' = blessed /\ serving[c].pc = "work" /\ (Did(c) \/ carried' = carried)
    BY <1>6 DEF HandlerWorks
  <2>2. NeedsGrant(Mine(c)) \/ HandlerAsks(Mine(c)) => <<GrantOf(c), Mine(c).what>> \in blessed
    BY <2>1 DEF Backed, Granted, GrantOf
  <2>3. CASE carried' = carried
    BY <2>1, <2>3 DEF DoneWithApproval
  <2>4. CASE Did(c)
    <3> DEFINE new == [by |-> By(c), grant |-> GrantOf(c), call |-> Mine(c)]
    <3>1. carried' = carried \cup {new}
      BY <2>4 DEF Did
    <3>2. new.grant = GrantOf(c) /\ new.call = Mine(c)
      OBVIOUS
    <3> HIDE DEF new
    <3> QED
      BY <2>1, <2>2, <3>1, <3>2 DEF DoneWithApproval
  <2> QED
    BY <2>1, <2>3, <2>4
<1>7. ASSUME NEW c \in Client, HandlerMarks(c) PROVE DoneWithApproval'
  <2>1. carried' = carried /\ blessed \subseteq blessed'
    BY <1>7 DEF HandlerMarks
  <2> QED
    BY <2>1 DEF DoneWithApproval
<1>8. ASSUME NEW c \in Client, Settle(c) PROVE DoneWithApproval'
  <2>1. carried' = carried /\ blessed \subseteq blessed'
    BY <1>8 DEF Settle
  <2> QED
    BY <2>1 DEF DoneWithApproval
<1>9. ASSUME NEW g \in Grant, OperatorDecides(g) PROVE DoneWithApproval'
  <2>1. carried' = carried /\ blessed \subseteq blessed'
    BY <1>9 DEF OperatorDecides
  <2> QED
    BY <2>1 DEF DoneWithApproval
<1>10. ASSUME NEW g \in Grant, GrantExpires(g) PROVE DoneWithApproval'
  <2>1. carried' = carried /\ blessed \subseteq blessed'
    BY <1>10 DEF GrantExpires
  <2> QED
    BY <2>1 DEF DoneWithApproval
<1>11. CASE SessionCloses
  <2>1. carried' = carried /\ blessed \subseteq blessed'
    BY <1>11 DEF SessionCloses
  <2> QED
    BY <2>1 DEF DoneWithApproval
<1>12. CASE UNCHANGED tvars
  BY <1>12 DEF tvars, DoneWithApproval
<1> QED
  BY <1>1, <1>2, <1>3, <1>4, <1>5, <1>6, <1>7, <1>8, <1>9, <1>10, <1>11, <1>12
  DEF TNext

LEMMA TInitInv == TInit => TInv
<1> SUFFICES ASSUME TInit PROVE TInv
  OBVIOUS
<1>1. NoCall \in Servings
  BY DEF NoCall, Servings
<1>2. /\ \A c \in Client : serving[c] = NoCall /\ serving[c].pc = "idle" /\ serving[c].grant = None
      /\ \A g \in Grant : grants[g] = None
  BY DEF TInit, NoCall
<1>3. TTypes
  BY <1>1, <1>2 DEF TInit, TTypes
<1>4. ByOperator /\ Backed
  BY <1>2 DEF ByOperator, Backed, Granted
<1>5. SpentOnce /\ DoneWithApproval
  BY <1>2 DEF TInit, SpentOnce, Spender, DoneWithApproval
<1> QED
  BY <1>3, <1>4, <1>5 DEF TInv

LEMMA TInvariant == TSpec => []TInv
<1>1. TInv /\ [TNext]_tvars => TInv'
  BY TTypesKept, ByOperatorKept, BackedKept, SpentOnceKept, DoneWithApprovalKept DEF TInv
<1> QED
  BY <1>1, TInitInv, PTL DEF TSpec

\* What a governed call of a session's tool does was approved by the operator for that tool or
\* action, and at most one call that rests on an approval is answered as a success: the one that
\* marked it executed (McpToolGateway._call_tool and the handler of execute_action), whatever
\* calls work on the same approvals meanwhile.
THEOREM Governs == TSpec => []GovernedCalls
<1>1. TInv => GovernedCalls
  BY DEF TInv, SpentOnce, Executed, DoneWithApproval, GovernedCalls
<1> QED
  BY <1>1, TInvariant, PTL

-----------------------------------------------------------------------------
(* Workflows.  A step is completed once its handler did its work, and      *)
(* after what it depends on (Earned); one that is pending was never called *)
(* (Uncalled); the step in hand is running in the file, too (InHand); and  *)
(* a run that has not ended does not say so (Going).  What a pass of the   *)
(* loop does to the steps (Fair) is shown turn by turn.                    *)

Statuses == {"pending", "running", "completed", "failed"}
Flows == [pc : {"idle", "choose", "handler", "backoff", "returned", "gone"}, status : Statuses,
          steps : [Steps -> Statuses], step : Steps \cup {None}, attempt : Nat, final : BOOLEAN]

WTypes ==
  /\ plan \in Plan /\ flow \in Flows /\ losses \in Nat /\ calls \in [Steps -> Nat]
  /\ disk # None => disk.steps \in [Steps -> Statuses]

\* A step is completed once its handler did its work, and after what it depends on.
Earned(statuses) ==
  \A s \in Steps : statuses[s] = "completed" =>
    s \in effects /\ \A d \in plan.needs[s] : d \in Steps /\ statuses[d] = "completed"
Uncalled(statuses) == \A s \in Steps : statuses[s] = "pending" => calls[s] = 0

\* What a run says that says how it ended.
Ended(f) ==
  /\ f.status = "completed" => \A s \in Steps : f.steps[s] = "completed"
  /\ f.status = "failed" => AllSettled(f.steps) /\ \E s \in Steps : f.steps[s] = "failed"
  /\ (f.final /\ losses = 0) => f.status \in Settled
Truthful(f) == Earned(f.steps) /\ Uncalled(f.steps) /\ Ended(f)

\* The step whose handler runs, or is about to again, is ready, and is running in the file, too.
InHand ==
  flow.pc \in {"handler", "backoff"} =>
    /\ flow.step \in Steps /\ flow.steps[flow.step] = "running" /\ IsReady(flow.steps, flow.step)
    /\ disk.steps[flow.step] = "running"

\* A run that has not ended does not say so.
Going ==
  /\ flow.pc = "idle" => flow.status = "pending" /\ ~flow.final
  /\ flow.pc \in {"choose", "handler", "backoff"} => flow.status = "running" /\ ~flow.final

WInv ==
  /\ WTypes /\ Earned(flow.steps) /\ Uncalled(flow.steps) /\ InHand /\ Going
  /\ disk # None => Truthful(disk)

LEMMA StepsOfPlan ==
  ASSUME plan \in Plan
  PROVE  /\ Len(plan.order) \in Nat /\ None \notin Steps
         /\ \A i \in 1..Len(plan.order) : plan.order[i] \in Steps
<1>1. plan.order \in Seq(DOMAIN plan.needs) /\ None \notin DOMAIN plan.needs
  BY WorkflowAssumption
<1>2. DOMAIN plan.order = 1..Len(plan.order) /\ Len(plan.order) \in Nat
  BY <1>1
<1>3. \A i \in 1..Len(plan.order) : plan.order[i] \in DOMAIN plan.needs
  BY <1>1
<1> QED
  BY <1>1, <1>2, <1>3 DEF Steps

\* The pass is what its turns make of it.
LEMMA LookedIs ==
  ASSUME plan \in Plan
  PROVE  Looked = [i \in 0 .. Len(plan.order) |->
                     IF i = 0 THEN [steps |-> flow.steps, next |-> None, moved |-> FALSE]
                     ELSE Consider(Looked[i - 1], plan.order[i])]
<1> DEFINE start == [steps |-> flow.steps, next |-> None, moved |-> FALSE]
           turns(m, f) == f = [i \in 0..m |-> IF i = 0 THEN start ELSE Consider(f[i - 1], plan.order[i])]
           without == {m \in Nat : ~ \E f : turns(m, f)}
<1>1. without = {}
  <2> SUFFICES ASSUME without # {} PROVE FALSE
    OBVIOUS
  <2>1. PICK m \in without : \A k \in without : m <= k
    BY LeastNumber
  <2> HIDE DEF start
  <2>2. CASE m = 0
    <3>1. turns(0, [i \in 0..0 |-> start])
      OBVIOUS
    <3> QED
      BY <2>1, <2>2, <3>1
  <2>3. CASE m # 0
    <3>1. m - 1 \in Nat /\ ~ (m <= m - 1)
      BY <2>3
    <3>2. PICK f : turns(m - 1, f)
      BY <2>1, <3>1
    <3> DEFINE g == [i \in 0..m |-> IF i = m THEN Consider(f[m - 1], plan.order[m]) ELSE f[i]]
    <3>3. ASSUME NEW i \in 0..m PROVE g[i] = IF i = 0 THEN start ELSE Consider(g[i - 1], plan.order[i])
      <4>1. CASE i = m
        <5>1. g[i] = Consider(f[m - 1], plan.order[m]) /\ g[m - 1] = f[m - 1]
          BY <4>1, <3>1
        <5> QED
          BY <5>1, <4>1, <2>3
      <4>2. CASE i # m
        <5>1. i \in 0 .. m - 1 /\ (i # 0 => i - 1 \in 0..m /\ i - 1 # m)
          BY <4>2
        <5>2. f[i] = IF i = 0 THEN start ELSE Consider(f[i - 1], plan.order[i])
          BY <3>2, <5>1
        <5>3. g[i] = f[i] /\ (i # 0 => g[i - 1] = f[i - 1])
          BY <4>2, <5>1
        <5> QED
          BY <5>2, <5>3
      <4> QED
        BY <4>1, <4>2
    <3>4. turns(m, g)
      <4>1. g = [i \in 0..m |-> g[i]]
        OBVIOUS
      <4> HIDE DEF g
      <4> QED
        BY <4>1, <3>3
    <3> QED
      BY <3>4
  <2> QED
    BY <2>2, <2>3
<1>2. \E f : turns(Len(plan.order), f)
  <2>1. Len(plan.order) \in Nat
    BY StepsOfPlan
  <2> QED
    BY <1>1, <2>1
<1> QED
  BY <1>2, Zenon DEF Looked

\* What a pass may have made of the steps when it comes to the next one.
Fair(look) ==
  /\ look.steps \in [Steps -> Statuses] /\ look.next \in Steps \cup {None}
  /\ \A s \in Steps : \/ look.steps[s] = flow.steps[s]
                      \/ flow.steps[s] \notin Settled /\ look.steps[s] = "failed"
  /\ look.next # None => IsReady(look.steps, look.next) /\ look.steps[look.next] \notin Settled

LEMMA ConsiderKeeps ==
  ASSUME NEW look, NEW moved, look = [steps |-> look.steps, next |-> look.next, moved |-> moved], Fair(look),
         NEW s \in Steps, None \notin Steps
  PROVE  /\ Fair(Consider(look, s))
         /\ \E m : Consider(look, s) = [steps |-> Consider(look, s).steps, next |-> Consider(look, s).next, moved |-> m]
<1>1. CASE look.next # None \/ look.steps[s] \in Settled
  BY <1>1 DEF Consider
<1>2. CASE ~(look.next # None \/ look.steps[s] \in Settled) /\ HasFailed(look.steps, s)
  <2> DEFINE steps == [look.steps EXCEPT ![s] = "failed"]
  <2>1. Consider(look, s) = [steps |-> steps, next |-> look.next, moved |-> TRUE]
    BY <1>2 DEF Consider
  <2>2. steps \in [Steps -> Statuses] /\ steps[s] = "failed" /\ \A r \in Steps : r # s => steps[r] = look.steps[r]
    BY DEF Fair, Statuses
  <2>3. look.steps[s] = flow.steps[s] \/ flow.steps[s] \notin Settled
    BY DEF Fair
  <2> HIDE DEF steps
  <2>4. Fair([steps |-> steps, next |-> look.next, moved |-> TRUE])
    BY <1>2, <2>2, <2>3 DEF Fair
  <2> QED
    BY <2>1, <2>4
<1>3. CASE ~(look.next # None \/ look.steps[s] \in Settled) /\ ~HasFailed(look.steps, s) /\ IsReady(look.steps, s)
  <2>1. Consider(look, s) = [steps |-> look.steps, next |-> s, moved |-> TRUE]
    BY <1>3 DEF Consider
  <2>2. Fair([steps |-> look.steps, next |-> s, moved |-> TRUE])
    BY <1>3 DEF Fair
  <2> QED
    BY <2>1, <2>2
<1>4. CASE ~(look.next # None \/ look.steps[s] \in Settled) /\ ~HasFailed(look.steps, s) /\ ~IsReady(look.steps, s)
  BY <1>4 DEF Consider
<1> QED
  BY <1>1, <1>2, <1>3, <1>4

LEMMA ScanFair == ASSUME WTypes PROVE Fair(Scan)
<1> DEFINE n == Len(plan.order)
           sound(look) == Fair(look) /\ \E m : look = [steps |-> look.steps, next |-> look.next, moved |-> m]
           wrong == {i \in 0..n : ~ sound(Looked[i])}
<1>1. n \in Nat /\ None \notin Steps /\ \A i \in 1..n : plan.order[i] \in Steps
  BY StepsOfPlan DEF WTypes
<1>2. ASSUME NEW i \in 0..n
      PROVE Looked[i] = IF i = 0 THEN [steps |-> flow.steps, next |-> None, moved |-> FALSE]
                        ELSE Consider(Looked[i - 1], plan.order[i])
  <2>1. plan \in Plan
    BY DEF WTypes
  <2> QED
    BY <2>1, LookedIs
<1> HIDE DEF n
<1>3. sound(Looked[0])
  <2>1. Looked[0] = [steps |-> flow.steps, next |-> None, moved |-> FALSE]
    <3>1. 0 \in 0..n
      BY <1>1
    <3> QED
      BY <1>2, <3>1
  <2>2. flow.steps \in [Steps -> Statuses]
    BY DEF WTypes, Flows
  <2>3. Fair([steps |-> flow.steps, next |-> None, moved |-> FALSE])
    BY <2>2 DEF Fair
  <2> QED
    BY <2>1, <2>3
<1>4. wrong = {}
  <2> HIDE DEF sound
  <2> SUFFICES ASSUME wrong # {} PROVE FALSE
    OBVIOUS
  <2>1. wrong \in SUBSET Nat
    BY <1>1
  <2>2. PICK i \in wrong : \A k \in wrong : i <= k
    BY <2>1, LeastNumber
  <2>0. i # 0 /\ i \in 0..n
    BY <1>3, <2>2
  <2>3. i \in 1..n /\ i - 1 \in 0..n /\ i # 0 /\ ~(i <= i - 1)
    BY <1>1, <2>0
  <2>4. i - 1 \notin wrong
    <3> HIDE DEF wrong
    <3> QED
      BY <2>2, <2>3
  <2>5. sound(Looked[i - 1])
    BY <2>3, <2>4
  <2>6. Looked[i] = Consider(Looked[i - 1], plan.order[i])
    BY <1>2, <2>3
  <2>7. plan.order[i] \in Steps
    BY <1>1, <2>3
  <2>8. PICK look : look = Looked[i - 1]
    OBVIOUS
  <2>9. PICK moved : look = [steps |-> look.steps, next |-> look.next, moved |-> moved]
    BY <2>5, <2>8 DEF sound
  <2>10. sound(Consider(look, plan.order[i]))
    <3>1. Fair(look)
      BY <2>5, <2>8 DEF sound
    <3>2. /\ Fair(Consider(look, plan.order[i]))
          /\ \E m : Consider(look, plan.order[i]) =
                     [steps |-> Consider(look, plan.order[i]).steps, next |-> Consider(look, plan.order[i]).next, moved |-> m]
      BY <1>1, <2>7, <2>9, <3>1, ConsiderKeeps
    <3> QED
      BY <3>2 DEF sound
  <2> QED
    BY <2>2, <2>6, <2>8, <2>10
<1>5. n \in 0..n
  BY <1>1
<1>6. sound(Looked[n])
  BY <1>4, <1>5
<1> QED
  BY <1>6 DEF Scan, n

\* What becomes of the steps when one is chosen, and when none is.
LEMMA Chosen ==
  ASSUME WInv, Scan.next # None, NEW mark \in {"running", "failed"},
         NEW r, r = [Scan.steps EXCEPT ![Scan.next] = mark]
  PROVE  /\ Scan.next \in Steps /\ r \in [Steps -> Statuses] /\ r[Scan.next] = mark
         /\ IsReady(r, Scan.next) /\ Earned(r)
         /\ \A q \in Steps : r[q] = "pending" => q # Scan.next /\ calls[q] = 0
<1>1. WTypes /\ Earned(flow.steps) /\ Uncalled(flow.steps)
  BY DEF WInv
<1>2. Fair(Scan)
  BY <1>1, ScanFair
<1>3. PICK look, s : look = Scan.steps /\ s = Scan.next
  OBVIOUS
<1>4. /\ s \in Steps /\ look \in [Steps -> Statuses] /\ IsReady(look, s) /\ look[s] \notin Settled
      /\ \A q \in Steps : look[q] = flow.steps[q] \/ (flow.steps[q] \notin Settled /\ look[q] = "failed")
  BY <1>2, <1>3 DEF Fair
<1>5. r \in [Steps -> Statuses] /\ r[s] = mark /\ \A q \in Steps : q # s => r[q] = look[q]
  <2>1. mark \in Statuses
    BY DEF Statuses
  <2> QED
    BY <1>3, <1>4, <2>1
<1>6. \A q \in Steps : (r[q] = "completed" <=> look[q] = "completed") /\ (look[q] = "completed" <=> flow.steps[q] = "completed")
  BY <1>4, <1>5 DEF Settled
<1>7. \A q \in Steps : r[q] = "pending" => q # s /\ flow.steps[q] = "pending"
  BY <1>4, <1>5
<1>8. IsReady(r, s)
  BY <1>4, <1>6 DEF IsReady
<1>9. Earned(r)
  BY <1>1, <1>6 DEF Earned
<1> QED
  BY <1>1, <1>3, <1>4, <1>5, <1>7, <1>8, <1>9 DEF Uncalled

\* The file stays true when what it does not say goes on.
LEMMA FileStays ==
  ASSUME WInv, UNCHANGED <<plan, disk>>, effects \subseteq effects', losses' \in {losses, losses + 1},
         \A s \in Steps : calls'[s] = calls[s] \/ disk.steps[s] = "running"
  PROVE  (disk # None => Truthful(disk))'
<1> SUFFICES ASSUME disk # None PROVE Truthful(disk)'
  OBVIOUS
<1>1. Truthful(disk) /\ losses \in Nat
  BY DEF WInv, WTypes
<1>2. losses' = 0 => losses = 0
  BY <1>1
<1>3. Earned(disk.steps)'
  BY <1>1 DEF Truthful, Earned, Steps
<1>4. Uncalled(disk.steps)'
  BY <1>1 DEF Truthful, Uncalled, Steps
<1>5. Ended(disk)'
  BY <1>1, <1>2 DEF Truthful, Ended, Steps, AllSettled, Settled
<1> QED
  BY <1>3, <1>4, <1>5 DEF Truthful

\* The run and its file say the same of the steps.
LEMMA SavedStays ==
  ASSUME UNCHANGED plan, NEW r, flow'.steps = r, NEW f, disk' = f, f.steps = r, Earned(r)', Uncalled(r)', Ended(f)'
  PROVE  Earned(flow.steps)' /\ Uncalled(flow.steps)' /\ (disk # None => Truthful(disk))'
BY DEF Truthful, Earned, Uncalled, Ended

LEMMA StartKeeps == ASSUME WInv, StartFlow PROVE WInv'
<1> DEFINE r == flow.steps
<1>1. /\ plan' = plan /\ losses' = losses /\ calls' = calls /\ effects' = effects /\ flow.pc = "idle"
      /\ flow' = [flow EXCEPT !.pc = "choose", !.status = "running"]
      /\ disk' = [status |-> flow'.status, steps |-> flow'.steps, final |-> flow'.final]
  BY DEF StartFlow, Written
<1>2. flow \in Flows /\ r \in [Steps -> Statuses] /\ ~flow.final /\ WTypes
  BY <1>1 DEF WInv, WTypes, Going, Flows
<1>3. /\ flow' \in Flows /\ flow'.pc = "choose" /\ flow'.status = "running" /\ flow'.steps = r /\ ~flow'.final
  BY <1>1, <1>2 DEF Flows, Statuses
<1>4. disk' = [status |-> "running", steps |-> r, final |-> FALSE]
  <2>1. flow'.final = FALSE
    BY <1>1, <1>2 DEF Flows
  <2> QED
    BY <1>1, <1>3, <2>1
<1>5. WTypes'
  BY <1>1, <1>2, <1>3, <1>4 DEF WTypes, Flows, Steps
<1>6. Earned(r) /\ Uncalled(r)
  BY DEF WInv
<1>7. PICK s : s = r
  OBVIOUS
<1>8. Earned(s)' /\ Uncalled(s)'
  BY <1>1, <1>6, <1>7 DEF Earned, Uncalled, Steps
<1>9. Ended([status |-> "running", steps |-> s, final |-> FALSE])'
  BY DEF Ended
<1>10. Earned(flow.steps)' /\ Uncalled(flow.steps)' /\ (disk # None => Truthful(disk))'
  BY <1>1, <1>3, <1>4, <1>7, <1>8, <1>9, SavedStays
<1>11. InHand' /\ Going'
  BY <1>3 DEF InHand, Going
<1> QED
  BY <1>5, <1>10, <1>11 DEF WInv

LEMMA BeginKeeps == ASSUME WInv, BeginStep PROVE WInv'
<1>1. PICK s, r : s = Scan.next /\ r = [Scan.steps EXCEPT ![Scan.next] = "running"]
  OBVIOUS
<1>2. /\ plan' = plan /\ losses' = losses /\ calls' = [calls EXCEPT ![s] = @ + 1] /\ effects' = effects /\ flow.pc = "choose"
      /\ flow' = [flow EXCEPT !.pc = "handler", !.step = s, !.attempt = 0, !.steps = r]
      /\ disk' = [status |-> flow'.status, steps |-> flow'.steps, final |-> flow'.final]
  BY <1>1 DEF BeginStep, Written
<1>3. /\ s \in Steps /\ r \in [Steps -> Statuses] /\ r[s] = "running" /\ IsReady(r, s) /\ Earned(r)
      /\ \A q \in Steps : r[q] = "pending" => q # s /\ calls[q] = 0
  BY <1>1, Chosen DEF BeginStep
<1>4. flow \in Flows /\ ~flow.final /\ flow.status = "running" /\ WTypes
  BY <1>2 DEF WInv, WTypes, Going
<1>5. /\ flow' \in Flows /\ flow'.pc = "handler" /\ flow'.status = "running" /\ flow'.steps = r /\ ~flow'.final
      /\ flow'.step = s
  BY <1>2, <1>3, <1>4 DEF Flows
<1>6. disk' = [status |-> "running", steps |-> r, final |-> FALSE]
  <2>1. flow'.final = FALSE
    BY <1>4, <1>5 DEF Flows
  <2> QED
    BY <1>2, <1>5, <2>1
<1>7. calls' \in [Steps -> Nat] /\ \A q \in Steps : q # s => calls'[q] = calls[q]
  <2>1. calls \in [Steps -> Nat]
    BY <1>4 DEF WTypes
  <2>2. \A n \in Nat : n + 1 \in Nat
    OBVIOUS
  <2> QED
    BY <1>2, <2>1, <2>2
<1>8. WTypes'
  BY <1>2, <1>3, <1>4, <1>5, <1>6, <1>7 DEF WTypes, Flows, Steps
<1>9. Earned(r)' /\ Uncalled(r)'
  BY <1>2, <1>3, <1>7 DEF Earned, Uncalled, Steps
<1>10. Ended([status |-> "running", steps |-> r, final |-> FALSE])'
  BY DEF Ended
<1>11. Earned(flow.steps)' /\ Uncalled(flow.steps)' /\ (disk # None => Truthful(disk))'
  BY <1>2, <1>5, <1>6, <1>9, <1>10, SavedStays
<1>12. InHand'
  <2>1. s \in Steps' /\ IsReady(r, s)'
    BY <1>2, <1>3 DEF Steps, IsReady
  <2> QED
    BY <1>3, <1>5, <1>6, <2>1 DEF InHand, IsReady
<1>13. Going'
  BY <1>5 DEF Going
<1> QED
  BY <1>8, <1>11, <1>12, <1>13 DEF WInv

LEMMA NoHandlerKeeps == ASSUME WInv, NoHandler PROVE WInv'
<1>1. PICK s, r, t : s = Scan.next /\ r = [Scan.steps EXCEPT ![Scan.next] = "failed"]
                     /\ t = [Scan.steps EXCEPT ![Scan.next] = "running"]
  OBVIOUS
<1>2. /\ plan' = plan /\ losses' = losses /\ calls' = calls /\ effects' = effects /\ flow.pc = "choose"
      /\ flow' = [flow EXCEPT !.steps = r]
      /\ disk' = [status |-> "running", steps |-> t, final |-> FALSE]
  BY <1>1 DEF NoHandler
<1>3. /\ r \in [Steps -> Statuses] /\ Earned(r) /\ \A q \in Steps : r[q] = "pending" => calls[q] = 0
      /\ t \in [Steps -> Statuses] /\ Earned(t) /\ \A q \in Steps : t[q] = "pending" => calls[q] = 0
  BY <1>1, Chosen DEF NoHandler
<1>4. flow \in Flows /\ ~flow.final /\ flow.status = "running" /\ WTypes
  BY <1>2 DEF WInv, WTypes, Going
<1>5. flow' \in Flows /\ flow'.pc = "choose" /\ flow'.status = "running" /\ flow'.steps = r /\ ~flow'.final
  BY <1>2, <1>3, <1>4 DEF Flows
<1>6. WTypes'
  BY <1>2, <1>3, <1>4, <1>5 DEF WTypes, Flows, Steps
<1>7. Earned(r)' /\ Uncalled(r)' /\ Earned(t)' /\ Uncalled(t)'
  BY <1>2, <1>3 DEF Earned, Uncalled, Steps
<1>8. Truthful([status |-> "running", steps |-> t, final |-> FALSE])'
  BY <1>7 DEF Truthful, Ended, Earned, Uncalled
<1>9. Earned(flow.steps)' /\ Uncalled(flow.steps)' /\ Truthful(disk)'
  BY <1>2, <1>5, <1>7, <1>8 DEF Earned, Uncalled, Truthful, Ended
<1>10. InHand' /\ Going'
  BY <1>5 DEF InHand, Going
<1> QED
  BY <1>6, <1>9, <1>10 DEF WInv

LEMMA PropagateKeeps == ASSUME WInv, Propagate PROVE WInv'
<1>1. WTypes /\ Earned(flow.steps) /\ Uncalled(flow.steps) /\ flow.steps \in [Steps -> Statuses] /\ flow \in Flows
  BY DEF WInv, WTypes, Flows
<1>2. PICK r : flow' = [flow EXCEPT !.steps = r]
               /\ r = IF Scan.moved THEN Scan.steps
                      ELSE [s \in Steps |-> IF flow.steps[s] \in Settled THEN flow.steps[s] ELSE "failed"]
  BY DEF Propagate
<1>3. r \in [Steps -> Statuses]
      /\ \A q \in Steps : r[q] = flow.steps[q] \/ (flow.steps[q] \notin Settled /\ r[q] = "failed")
  <2>1. CASE Scan.moved
    BY <1>1, <1>2, <2>1, ScanFair DEF Fair
  <2>2. CASE ~Scan.moved
    <3>1. r = [s \in Steps |-> IF flow.steps[s] \in Settled THEN flow.steps[s] ELSE "failed"]
      BY <1>2, <2>2
    <3> QED
      BY <1>1, <3>1 DEF Statuses, Settled
  <2> QED
    BY <2>1, <2>2
<1>4. /\ plan' = plan /\ losses' = losses /\ calls' = calls /\ effects' = effects /\ disk' = disk
      /\ flow.pc = "choose" /\ flow.status = "running" /\ ~flow.final
  BY DEF Propagate, WInv, Going
<1>5. flow' \in Flows /\ flow'.pc = "choose" /\ flow'.status = "running" /\ flow'.steps = r /\ ~flow'.final
  BY <1>1, <1>2, <1>3, <1>4 DEF Flows
<1>6. WTypes'
  BY <1>1, <1>4, <1>5 DEF WTypes, Flows, Steps
<1>7. \A q \in Steps : (r[q] = "completed" <=> flow.steps[q] = "completed") /\ (r[q] = "pending" => flow.steps[q] = "pending")
  BY <1>3 DEF Settled
<1>8. Earned(r)' /\ Uncalled(r)'
  BY <1>1, <1>4, <1>7 DEF Earned, Uncalled, Steps
<1>9. Earned(flow.steps)' /\ Uncalled(flow.steps)'
  BY <1>5, <1>8 DEF Earned, Uncalled
<1>10. (disk # None => Truthful(disk))'
  <2>1. losses' \in {losses, losses + 1} /\ effects \subseteq effects'
    BY <1>4
  <2> QED
    BY <1>4, <2>1, FileStays
<1>11. InHand' /\ Going'
  BY <1>5 DEF InHand, Going
<1> QED
  BY <1>6, <1>9, <1>10, <1>11 DEF WInv

LEMMA EndKeeps == ASSUME WInv, EndFlow PROVE WInv'
<1>1. /\ WTypes /\ Earned(flow.steps) /\ Uncalled(flow.steps) /\ flow.steps \in [Steps -> Statuses] /\ flow \in Flows
      /\ AllSettled(flow.steps)
  BY DEF WInv, WTypes, Flows, EndFlow
<1>2. PICK r, status : r = flow.steps
                       /\ status = IF \E s \in Steps : flow.steps[s] = "failed" THEN "failed" ELSE "completed"
  OBVIOUS
<1>3. /\ plan' = plan /\ losses' = losses /\ calls' = calls /\ effects' = effects
      /\ flow' = [flow EXCEPT !.pc = "returned", !.final = TRUE, !.status = status]
      /\ disk' = [status |-> flow'.status, steps |-> flow'.steps, final |-> flow'.final]
  BY <1>2 DEF EndFlow, Written
<1>4. /\ flow' \in Flows /\ flow'.pc = "returned" /\ flow'.status = status /\ flow'.steps = r /\ flow'.final = TRUE
      /\ status \in Settled
  <2>1. status \in Settled /\ status \in Statuses
    BY <1>2 DEF Settled, Statuses
  <2> QED
    BY <1>1, <1>2, <1>3, <2>1 DEF Flows
<1>5. disk' = [status |-> status, steps |-> r, final |-> TRUE]
  BY <1>3, <1>4
<1>6. WTypes'
  <2>1. flow' \in Flows'
    BY <1>3, <1>4 DEF Flows, Steps
  <2>2. r \in [Steps -> Statuses] /\ disk'.steps = r
    BY <1>1, <1>2, <1>5
  <2> QED
    BY <1>1, <1>3, <2>1, <2>2 DEF WTypes, Steps
<1>7. Earned(r)' /\ Uncalled(r)'
  BY <1>1, <1>2, <1>3 DEF Earned, Uncalled, Steps
<1>8. Ended([status |-> status, steps |-> r, final |-> TRUE])'
  <2>1. status = "completed" => \A s \in Steps : r[s] = "completed"
    BY <1>1, <1>2 DEF AllSettled, Settled
  <2>2. status = "failed" => AllSettled(r) /\ \E s \in Steps : r[s] = "failed"
    BY <1>1, <1>2
  <2> QED
    BY <1>3, <1>4, <2>1, <2>2 DEF Ended, Steps, AllSettled
<1>9. Earned(flow.steps)' /\ Uncalled(flow.steps)' /\ (disk # None => Truthful(disk))'
  BY <1>3, <1>4, <1>5, <1>7, <1>8, SavedStays
<1>10. InHand' /\ Going'
  BY <1>4 DEF InHand, Going
<1> QED
  BY <1>6, <1>9, <1>10 DEF WInv

LEMMA DoneKeeps == ASSUME WInv, StepDone PROVE WInv'
<1>1. /\ WTypes /\ Earned(flow.steps) /\ Uncalled(flow.steps) /\ flow.steps \in [Steps -> Statuses] /\ flow \in Flows
      /\ flow.pc = "handler" /\ flow.status = "running" /\ flow.final = FALSE
      /\ flow.step \in Steps /\ IsReady(flow.steps, flow.step)
  BY DEF WInv, WTypes, Flows, StepDone, InHand, Going
<1>2. PICK r, s : s = flow.step /\ r = [flow.steps EXCEPT ![flow.step] = "completed"]
  OBVIOUS
<1>3. /\ plan' = plan /\ losses' = losses /\ calls' = calls /\ effects' = effects \cup {s}
      /\ flow' = [flow EXCEPT !.pc = "choose", !.steps = r]
      /\ disk' = [status |-> flow'.status, steps |-> flow'.steps, final |-> flow'.final]
  BY <1>2 DEF StepDone, Written
<1>4. r \in [Steps -> Statuses] /\ r[s] = "completed" /\ \A q \in Steps : q # s => r[q] = flow.steps[q]
  BY <1>1, <1>2 DEF Statuses
<1>5. flow' \in Flows /\ flow'.pc = "choose" /\ flow'.status = "running" /\ flow'.steps = r /\ flow'.final = FALSE
  BY <1>1, <1>3, <1>4 DEF Flows
<1>6. disk' = [status |-> "running", steps |-> r, final |-> FALSE]
  BY <1>3, <1>5
<1>7. WTypes'
  BY <1>1, <1>3, <1>4, <1>5, <1>6 DEF WTypes, Flows, Steps
<1>8. Earned(r)' /\ Uncalled(r)'
  <2>1. \A q \in Steps : r[q] = "completed" => q = s \/ flow.steps[q] = "completed"
    BY <1>4
  <2>2. \A q \in Steps : flow.steps[q] = "completed" => r[q] = "completed"
    BY <1>4
  <2>3. \A d \in plan.needs[s] : d \in Steps /\ r[d] = "completed"
    BY <1>1, <1>2, <2>2 DEF IsReady
  <2>4. Earned(r)'
    BY <1>1, <1>3, <2>1, <2>2, <2>3 DEF Earned, Steps
  <2> QED
    BY <1>1, <1>3, <1>4, <2>4 DEF Uncalled, Steps
<1>9. Ended([status |-> "running", steps |-> r, final |-> FALSE])'
  BY DEF Ended
<1>10. Earned(flow.steps)' /\ Uncalled(flow.steps)' /\ (disk # None => Truthful(disk))'
  BY <1>3, <1>5, <1>6, <1>8, <1>9, SavedStays
<1>11. InHand' /\ Going'
  BY <1>5 DEF InHand, Going
<1> QED
  BY <1>7, <1>10, <1>11 DEF WInv

LEMMA RaisedKeeps == ASSUME WInv, StepRaised PROVE WInv'
<1>1. /\ WTypes /\ Earned(flow.steps) /\ Uncalled(flow.steps) /\ flow.steps \in [Steps -> Statuses] /\ flow \in Flows
      /\ flow.pc = "handler" /\ flow.status = "running" /\ flow.final = FALSE
      /\ flow.step \in Steps /\ IsReady(flow.steps, flow.step) /\ disk.steps[flow.step] = "running"
  BY DEF WInv, WTypes, Flows, StepRaised, InHand, Going
<1>2. /\ plan' = plan /\ losses' = losses /\ calls' = calls /\ disk' = disk /\ effects \subseteq effects'
      /\ \/ flow' = [flow EXCEPT !.pc = "backoff"]
         \/ flow' = [flow EXCEPT !.pc = "choose", !.steps = [flow.steps EXCEPT ![flow.step] = "failed"]]
  BY DEF StepRaised
<1>3. (disk # None => Truthful(disk))'
  <2>1. losses' \in {losses, losses + 1}
    BY <1>2
  <2> QED
    BY <1>2, <2>1, FileStays
<1>4. CASE flow' = [flow EXCEPT !.pc = "backoff"]
  <2>1. /\ flow' \in Flows /\ flow'.pc = "backoff" /\ flow'.status = "running" /\ flow'.steps = flow.steps
        /\ flow'.final = FALSE /\ flow'.step = flow.step
    BY <1>1, <1>4 DEF Flows
  <2>2. WTypes'
    BY <1>1, <1>2, <2>1 DEF WTypes, Flows, Steps
  <2>3. Earned(flow.steps)' /\ Uncalled(flow.steps)'
    BY <1>1, <1>2, <2>1 DEF Earned, Uncalled, Steps
  <2>4. Going'
    BY <2>1 DEF Going
  <2>5. flow.steps[flow.step] = "running"
    BY <1>1 DEF WInv, InHand
  <2>6. IsReady(flow.steps, flow.step)'
    BY <1>1, <1>2, <2>1 DEF IsReady, Steps
  <2>7. InHand'
    BY <1>1, <1>2, <2>1, <2>5, <2>6 DEF InHand, IsReady, Steps
  <2> QED
    BY <1>3, <2>2, <2>3, <2>4, <2>7 DEF WInv
<1>5. CASE flow' = [flow EXCEPT !.pc = "choose", !.steps = [flow.steps EXCEPT ![flow.step] = "failed"]]
  <2>1. PICK r, s : s = flow.step /\ r = [flow.steps EXCEPT ![flow.step] = "failed"]
    OBVIOUS
  <2>2. flow' = [flow EXCEPT !.pc = "choose", !.steps = r]
    BY <1>5, <2>1
  <2>3. r \in [Steps -> Statuses] /\ r[s] = "failed" /\ \A q \in Steps : q # s => r[q] = flow.steps[q]
    BY <1>1, <2>1 DEF Statuses
  <2>4. flow' \in Flows /\ flow'.pc = "choose" /\ flow'.status = "running" /\ flow'.steps = r /\ flow'.final = FALSE
    BY <1>1, <2>2, <2>3 DEF Flows
  <2>5. WTypes'
    BY <1>1, <1>2, <2>4 DEF WTypes, Flows, Steps
  <2>6. disk.steps[s] = "running" /\ s \in Steps
    BY <1>1, <2>1
  <2>7. flow.steps[s] # "completed"
    BY <1>1, <2>1 DEF WInv, InHand
  <2>8. \A q \in Steps : /\ r[q] = "completed" <=> flow.steps[q] = "completed"
                         /\ r[q] = "pending" => flow.steps[q] = "pending"
    BY <2>3, <2>6, <2>7
  <2>9. Earned(r)' /\ Uncalled(r)'
    BY <1>1, <1>2, <2>8 DEF Earned, Uncalled, Steps
  <2>10. Earned(flow.steps)' /\ Uncalled(flow.steps)'
    BY <2>4, <2>9 DEF Earned, Uncalled
  <2>11. InHand' /\ Going'
    BY <2>4 DEF InHand, Going
  <2> QED
    BY <1>3, <2>5, <2>10, <2>11 DEF WInv
<1> QED
  BY <1>2, <1>4, <1>5

LEMMA RetryKeeps == ASSUME WInv, Retry PROVE WInv'
<1>1. /\ WTypes /\ Earned(flow.steps) /\ Uncalled(flow.steps) /\ flow.steps \in [Steps -> Statuses] /\ flow \in Flows
      /\ flow.pc = "backoff" /\ flow.status = "running" /\ flow.final = FALSE
      /\ flow.step \in Steps /\ IsReady(flow.steps, flow.step) /\ disk.steps[flow.step] = "running"
      /\ flow.steps[flow.step] = "running"
  BY DEF WInv, WTypes, Flows, Retry, InHand, Going
<1>2. PICK s : s = flow.step
  OBVIOUS
<1>3. /\ plan' = plan /\ losses' = losses /\ calls' = [calls EXCEPT ![s] = @ + 1] /\ disk' = disk /\ effects' = effects
      /\ flow' = [flow EXCEPT !.pc = "handler", !.attempt = flow.attempt + 1]
  BY <1>2 DEF Retry
<1>4. calls' \in [Steps -> Nat] /\ \A q \in Steps : q # s => calls'[q] = calls[q]
  <2>1. calls \in [Steps -> Nat]
    BY <1>1 DEF WTypes
  <2>2. \A n \in Nat : n + 1 \in Nat
    OBVIOUS
  <2> QED
    BY <1>3, <2>1, <2>2
<1>5. /\ flow' \in Flows /\ flow'.pc = "handler" /\ flow'.status = "running" /\ flow'.steps = flow.steps
      /\ flow'.final = FALSE /\ flow'.step = flow.step
  <2>1. flow.attempt + 1 \in Nat
    BY <1>1 DEF Flows
  <2> QED
    BY <1>1, <1>3, <2>1 DEF Flows
<1>6. WTypes'
  BY <1>1, <1>3, <1>4, <1>5 DEF WTypes, Flows, Steps
<1>7. Earned(flow.steps)' /\ Uncalled(flow.steps)'
  <2>1. \A q \in Steps : flow.steps[q] = "pending" => calls'[q] = 0
    BY <1>1, <1>2, <1>4 DEF Uncalled
  <2> QED
    BY <1>1, <1>3, <1>5, <2>1 DEF Earned, Uncalled, Steps
<1>8. (disk # None => Truthful(disk))'
  <2>1. losses' \in {losses, losses + 1} /\ \A q \in Steps : calls'[q] = calls[q] \/ disk.steps[q] = "running"
    BY <1>1, <1>2, <1>3, <1>4
  <2> QED
    BY <1>3, <2>1, FileStays
<1>9. InHand' /\ Going'
  BY <1>1, <1>3, <1>5 DEF InHand, Going, IsReady, Steps
<1> QED
  BY <1>6, <1>7, <1>8, <1>9 DEF WInv

LEMMA CancelKeeps == ASSUME WInv, CancelFlow PROVE WInv'
<1>1. /\ WTypes /\ Earned(flow.steps) /\ Uncalled(flow.steps) /\ flow.steps \in [Steps -> Statuses] /\ flow \in Flows
      /\ flow.status = "running" /\ losses \in Nat
  BY DEF WInv, WTypes, Flows, CancelFlow, Going
<1>2. PICK r : r = flow.steps
  OBVIOUS
<1>3. /\ plan' = plan /\ losses' = losses + 1 /\ calls' = calls /\ effects' = effects
      /\ flow' = [flow EXCEPT !.pc = "returned", !.final = TRUE]
      /\ disk' = [status |-> flow'.status, steps |-> flow'.steps, final |-> flow'.final]
  BY DEF CancelFlow, Written
<1>4. flow' \in Flows /\ flow'.pc = "returned" /\ flow'.status = "running" /\ flow'.steps = r /\ flow'.final = TRUE
  BY <1>1, <1>2, <1>3 DEF Flows
<1>5. disk' = [status |-> "running", steps |-> r, final |-> TRUE]
  BY <1>3, <1>4
<1>6. WTypes'
  BY <1>1, <1>2, <1>3, <1>4, <1>5 DEF WTypes, Flows, Steps
<1>7. Earned(r)' /\ Uncalled(r)'
  BY <1>1, <1>2, <1>3 DEF Earned, Uncalled, Steps
<1>8. Ended([status |-> "running", steps |-> r, final |-> TRUE])'
  <2>1. losses' # 0
    BY <1>1, <1>3
  <2> QED
    BY <2>1 DEF Ended
<1>9. Earned(flow.steps)' /\ Uncalled(flow.steps)' /\ (disk # None => Truthful(disk))'
  BY <1>3, <1>4, <1>5, <1>7, <1>8, SavedStays
<1>10. InHand' /\ Going'
  BY <1>4 DEF InHand, Going
<1> QED
  BY <1>6, <1>9, <1>10 DEF WInv

LEMMA CrashKeeps == ASSUME WInv, CrashFlow PROVE WInv'
<1>1. /\ WTypes /\ Earned(flow.steps) /\ Uncalled(flow.steps) /\ flow \in Flows /\ losses \in Nat
  BY DEF WInv, WTypes
<1>2. /\ plan' = plan /\ losses' = losses + 1 /\ calls' = calls /\ effects' = effects /\ disk' = disk
      /\ flow' = [flow EXCEPT !.pc = "gone"]
  BY DEF CrashFlow
<1>3. flow' \in Flows /\ flow'.pc = "gone" /\ flow'.steps = flow.steps
  BY <1>1, <1>2 DEF Flows
<1>4. WTypes'
  BY <1>1, <1>2, <1>3 DEF WTypes, Flows, Steps
<1>5. Earned(flow.steps)' /\ Uncalled(flow.steps)'
  BY <1>1, <1>2, <1>3 DEF Earned, Uncalled, Steps
<1>6. (disk # None => Truthful(disk))'
  <2>1. losses' \in {losses, losses + 1} /\ effects \subseteq effects'
    BY <1>2
  <2> QED
    BY <1>2, <2>1, FileStays
<1>7. InHand' /\ Going'
  BY <1>3 DEF InHand, Going
<1> QED
  BY <1>4, <1>5, <1>6, <1>7 DEF WInv

LEMMA WInvInit == FInit => WInv
<1> SUFFICES ASSUME FInit PROVE WInv
  OBVIOUS
<1>1. /\ plan \in Plan /\ disk = None /\ losses = 0 /\ calls = [s \in Steps |-> 0]
      /\ flow = [pc |-> "idle", status |-> "pending", steps |-> [s \in Steps |-> "pending"],
                 step |-> None, attempt |-> 0, final |-> FALSE]
  BY DEF FInit
<1>2. WTypes
  BY <1>1 DEF WTypes, Flows, Statuses
<1>3. Earned(flow.steps) /\ Uncalled(flow.steps) /\ InHand /\ Going
  BY <1>1 DEF Earned, Uncalled, InHand, Going
<1> QED
  BY <1>1, <1>2, <1>3 DEF WInv

LEMMA WInvKept == WInv /\ [FNext]_fvars => WInv'
<1> SUFFICES ASSUME WInv, [FNext]_fvars PROVE WInv'
  OBVIOUS
<1>1. CASE UNCHANGED fvars
  BY <1>1 DEF fvars, WInv, WTypes, Flows, Steps, Earned, Uncalled, InHand, Going, IsReady, Truthful, Ended, AllSettled
<1>2. CASE FNext
  BY <1>2, StartKeeps, BeginKeeps, NoHandlerKeeps, PropagateKeeps, EndKeeps, DoneKeeps, RaisedKeeps, RetryKeeps,
     CancelKeeps, CrashKeeps DEF FNext
<1> QED
  BY <1>1, <1>2

LEMMA WInvariant == FSpec => []WInv
BY WInvInit, WInvKept, PTL DEF FSpec

\* The file of a run says of its steps and of its end what is so, wherever it is cut off
\* (WorkflowEngine.run, _execute, _run_step).
THEOREM FilesTell == FSpec => []FlowFileTruthful
<1>1. WInv => FlowFileTruthful
  BY DEF WInv, Truthful, Earned, Uncalled, Ended, FlowFileTruthful
<1> QED
  BY <1>1, WInvariant, PTL
=============================================================================
