--------------------------- MODULE MeshDelegation ---------------------------
(***************************************************************************)
(* A node of the mesh asks another one to use a capability.                *)
(*                                                                         *)
(* The asking node signs an envelope and posts it (DelegationManager       *)
(* .delegate); the asked node checks sender, age, signature, nonce and     *)
(* policy in one go, then waits for an approval and for its tool gateway   *)
(* (receive_inbound).  An envelope may be late, arrive more than once or   *)
(* never; the asked node may restart; the asking node gives up after a     *)
(* time and cannot tell a lost request from a lost answer.                 *)
(***************************************************************************)
EXTENDS Naturals, Sequences, FiniteSets, SequencesExt, FiniteSetsExt, ServiceValues

CONSTANTS Call,       \* calls of delegate, each with an envelope and a nonce of its own
          Want,       \* the kinds of capability that are asked for
          Handler,    \* coroutines of receive_inbound
          PeerRecord, \* what the asked node may have on the asking one: [key, grants], key
                      \* tells whether the pinned public key is the right one
          NonceRoom, AgeLimit, Hour,
          Hitches,    \* what is looked at: [edits, reboots, lead, approver], the bounds of the
                      \* operator's edits and of the restarts, how far the clock of the asking
                      \* node is ahead, the outcomes of approval_fn ({} when there is none)
          MaxCopies,  \* bound of how often one envelope passes the checks
          MaxTicks    \* bound of the clock

ASSUME MeshAssumption ==
  /\ NonceRoom \in Nat \ {0} /\ AgeLimit \in Nat /\ Hour \in Nat \ {0}
  /\ MaxTicks \in Nat /\ MaxCopies \in Nat
  /\ None \notin {"ok", "refused", "later"}
  /\ PeerRecord \subseteq [key : BOOLEAN, grants : Seq([covers : SUBSET Want, approval : BOOLEAN,
                                                     limit : Nat, until : Nat])]
  /\ Hitches \subseteq [edits : Nat, reboots : Nat, lead : Nat,
                   approver : SUBSET {"approved", "pending", "denied", "raises"}]

VARIABLES time,
          hitch,   \* what may still happen, and what stays as it is
          call,    \* the calls: [pc, want, at, got]
          peer,    \* peers.json at the asked node: its record of the asking node, or None
          seen,    \* _NonceCache._seen, oldest first
          permits, \* the uses of limited grants since the start: [kind, at, limit]
          spent,   \* _invocation_counts: which of the permits it still holds
          hand,    \* the coroutines: [pc, call]
          copies,  \* how often an envelope passed the checks
          routed,  \* history: how often the capability of a call was routed
          done,    \* history: calls whose tool ran to its end
          forgot   \* history: how often a nonce was forgotten while its envelope was acceptable

dvars == <<time, hitch, call, peer, seen, permits, spent, hand, copies, routed, done, forgot>>

Unasked == [pc |-> "idle", want |-> None, at |-> 0, got |-> None]
Waiting == [pc |-> "idle", call |-> None]

DInit ==
  /\ time = 0 /\ hitch \in Hitches
  /\ call = [c \in Call |-> Unasked]
  /\ peer \in PeerRecord
  /\ seen = <<>> /\ permits = <<>> /\ spent = {}
  /\ hand = [h \in Handler |-> Waiting]
  /\ copies = [c \in Call |-> 0]
  /\ routed = [c \in Call |-> 0] /\ done = {}
  /\ forgot = [c \in Call |-> 0]

-----------------------------------------------------------------------------
(* The asking node.                                                        *)

\* make_envelope, then send_envelope.
Delegate(c, want) ==
  /\ call[c].pc = "idle"
  /\ call' = [call EXCEPT ![c] = [pc |-> "sent", want |-> want, at |-> time + hitch.lead, got |-> None]]
  /\ UNCHANGED <<time, hitch, peer, seen, spent, hand, copies, routed, done, forgot, permits>>

\* A timeout, a lost connection: TransportError, and nothing is known.
GiveUp(c) ==
  /\ call[c].pc = "sent"
  /\ call' = [call EXCEPT ![c].pc = "ended", ![c].got = "failed"]
  /\ UNCHANGED <<time, hitch, peer, seen, spent, hand, copies, routed, done, forgot, permits>>

\* An answer: it reaches the call if that still waits for it, or it does not.  An HTTP error
\* has no envelope; the stamp of an envelope is checked against the clock of the asking node.
Answer(c, status) ==
  \/ UNCHANGED call
  \/ /\ call[c].pc = "sent"
     /\ call' = [call EXCEPT ![c].pc = "ended",
                             ![c].got = IF hitch.lead > AgeLimit THEN "failed" ELSE status]

-----------------------------------------------------------------------------
(* The asked node.                                                         *)

InWindow(c) ==
  /\ time <= call[c].at + AgeLimit
  /\ call[c].at <= time + AgeLimit

\* Mutant: a full cache drops the nonce that was just put in it.
RememberNewest(c) ==
  /\ seen' = IF Len(seen) = NonceRoom THEN seen ELSE Append(seen, c)
  /\ UNCHANGED forgot

\* check_and_record puts a nonce that is new into the cache; a full cache drops its oldest.
Remember(c) ==
  LET full == Len(seen) = NonceRoom IN
  /\ seen' = Append(IF full THEN Tail(seen) ELSE seen, c)
  /\ forgot' = [d \in Call |->
                 IF full /\ d = Head(seen) /\ time <= call[d].at + AgeLimit
                 THEN forgot[d] + 1 ELSE forgot[d]]

\* _find_grant: the first of the peer's grants that names the capability or its kind.
Matching(want) == {n \in DOMAIN peer.grants : want \in peer.grants[n].covers}
FoundGrant(want) == peer.grants[Min(Matching(want))]

\* The uses of the peer's grant for that capability within the last hour.
Recent(g) == {i \in spent : permits[i].kind = g.covers /\ permits[i].at + Hour > time}

\* PolicyEvaluator.evaluate: a grant, not expired, with something left of its hourly budget.
Permitted(want) ==
  /\ Matching(want) # {}
  /\ LET g == FoundGrant(want) IN
       /\ g.until = 0 \/ time <= g.until
       /\ g.limit = 0 \/ Cardinality(Recent(g)) < g.limit

\* _record_invocation counts the use and forgets those of the same key that are too old.
Permit(want) ==
  LET g == FoundGrant(want)
      old == {i \in spent : permits[i].kind = g.covers} \ Recent(g)
  IN IF g.limit = 0 THEN UNCHANGED <<spent, permits>>
     ELSE /\ permits' = Append(permits, [kind |-> g.covers, at |-> time, limit |-> g.limit])
          /\ spent' = (spent \ old) \cup {Len(permits) + 1}

Spend == UNCHANGED <<spent, permits>>

\* The checks before the policy: a known sender, the age, the signature, the nonce.
Accepted(c) == peer # None /\ InWindow(c) /\ peer.key /\ ~Contains(seen, c)

\* DelegationRejected or DelegationReplayError: the route answers 403, which the asking node
\* reports as a failed transport.
Reject(c) ==
  /\ call[c].pc # "idle" /\ ~Accepted(c)
  /\ Answer(c, "failed")
  /\ UNCHANGED <<time, hitch, peer, seen, spent, hand, copies, routed, done, forgot, permits>>

\* _route_capability for what is wired: the tool gateway is called.
Route(h, c) ==
  /\ hand' = [hand EXCEPT ![h] = [pc |-> "routing", call |-> c]]
  /\ routed' = [routed EXCEPT ![c] = @ + 1]
  /\ UNCHANGED call

\* receive_inbound as far as it gets without waiting.
Receive(h, c) ==
  /\ hand[h].pc = "idle" /\ call[c].pc # "idle" /\ Accepted(c)
  /\ copies[c] < MaxCopies
  /\ copies' = [copies EXCEPT ![c] = @ + 1]
  /\ Remember(c)
  /\ LET want == call[c].want
         approval == Permitted(want) /\ FoundGrant(want).approval
     IN \/ /\ ~Permitted(want)
           /\ Answer(c, "refused") /\ Spend /\ UNCHANGED <<hand, routed>>
        \/ /\ approval /\ hitch.approver # {}
           /\ Permit(want)
           /\ hand' = [hand EXCEPT ![h] = [pc |-> "asking", call |-> c]]
           /\ UNCHANGED <<call, routed>>
        \/ /\ approval /\ hitch.approver = {}
           /\ Permit(want)
           /\ Answer(c, "later") /\ UNCHANGED <<hand, routed>>
        \/ /\ Permitted(want) /\ ~approval /\ want = "tool"
           /\ Permit(want) /\ Route(h, c)
        \/ /\ Permitted(want) /\ ~approval /\ want # "tool"
           /\ Permit(want)
           /\ Answer(c, "refused") /\ UNCHANGED <<hand, routed>>
  /\ UNCHANGED <<time, hitch, peer, done>>

\* approval_fn returns or raises; only "approved" lets the request go on, with the grant that
\* was found before.
Approve(h) ==
  /\ hand[h].pc = "asking"
  /\ LET c == hand[h].call IN
     \E outcome \in hitch.approver :
       \/ /\ outcome = "approved" /\ call[c].want = "tool"
          /\ Route(h, c)
       \/ /\ outcome # "approved" \/ call[c].want # "tool"
          /\ Answer(c, IF outcome \in {"pending", "raises"} THEN "later" ELSE "refused")
          /\ hand' = [hand EXCEPT ![h] = Waiting]
          /\ UNCHANGED routed
  /\ UNCHANGED <<time, hitch, peer, seen, spent, copies, done, forgot, permits>>

\* Mutant: a result that is marked as an error is answered like any other.
AnswerFor(outcome) == IF outcome = "unapproved" THEN "failed" ELSE "ok"

\* What the request is answered.  A tool that wants an approval returns no approval_id, so the
\* response with that status cannot be built and the route answers 500.
StatusFor(outcome) ==
  CASE outcome = "ok" -> "ok" [] outcome = "error" -> "refused" [] outcome = "unapproved" -> "failed"

\* The tool gateway returns.
Finish(h) ==
  /\ hand[h].pc = "routing"
  /\ \E outcome \in {"ok", "error", "unapproved"} :
       /\ Answer(hand[h].call, StatusFor(outcome))
       /\ done' = IF outcome = "ok" THEN done \cup {hand[h].call} ELSE done
  /\ hand' = [hand EXCEPT ![h] = Waiting]
  /\ UNCHANGED <<time, hitch, peer, seen, spent, copies, routed, forgot, permits>>

\* The operator adds, replaces or removes the record of the asking node.
SetPeer(record) ==
  /\ hitch.edits > 0 /\ record # peer
  /\ hitch' = [hitch EXCEPT !.edits = @ - 1]
  /\ peer' = record
  /\ UNCHANGED <<time, call, seen, spent, hand, copies, routed, done, forgot, permits>>

\* The asked node restarts: nonces and budgets were in its memory.
Reboot ==
  /\ hitch.reboots > 0
  /\ hitch' = [hitch EXCEPT !.reboots = @ - 1]
  /\ seen' = <<>> /\ permits' = <<>> /\ spent' = {}
  /\ hand' = [h \in Handler |-> Waiting]
  /\ forgot' = [c \in Call |-> IF Contains(seen, c) /\ time <= call[c].at + AgeLimit
                               THEN forgot[c] + 1 ELSE forgot[c]]
  /\ UNCHANGED <<time, call, peer, copies, routed, done>>

MeshTick ==
  /\ time < MaxTicks
  /\ time' = time + 1
  /\ UNCHANGED <<hitch, call, peer, seen, spent, hand, copies, routed, done, forgot, permits>>

DNext ==
  \/ \E c \in Call : \/ GiveUp(c)
                     \/ Reject(c)
                     \/ \E want \in Want : Delegate(c, want)
  \/ \E h \in Handler : \/ Approve(h)
                        \/ Finish(h)
                        \/ \E c \in Call : Receive(h, c)
  \/ \E record \in PeerRecord \cup {None} : SetPeer(record)
  \/ Reboot
  \/ MeshTick

DSpec == DInit /\ [][DNext]_dvars

-----------------------------------------------------------------------------

\* However often an envelope arrives, its capability is routed once: another time only after
\* the nonce was forgotten (a restart, or a cache that was too small) while the envelope was
\* not yet too old.  This is the replay defence of receive_inbound.
RoutedOnce == \A c \in Call : routed[c] <= 1 + forgot[c]

\* What the asking node is told is so: "ok" means that the tool ran to its end, and a request
\* that was refused ran none, unless its nonce was forgotten and the envelope handled again.
AnswerTellsEffect ==
  \A c \in Call :
    /\ call[c].got = "ok" => c \in done
    /\ (call[c].got \in {"refused", "later"} /\ forgot[c] = 0) => c \notin done

\* A grant is used no more often in an hour than the record the operator had written said when
\* it was used, whichever records came before: the budget is counted per capability of the
\* grant, from the last restart on.
HourlyBudget ==
  \A i \in DOMAIN permits :
    Cardinality({j \in 1..i : /\ permits[j].kind = permits[i].kind
                              /\ permits[j].at + Hour > permits[i].at}) <= permits[i].limit

\* PROPERTY DelegatedOnce: neither a second copy of an envelope, nor a restart, nor an edit of the
\* peer's record makes this node do more for a peer than it was allowed.
DelegatedOnce == RoutedOnce /\ HourlyBudget
=============================================================================
