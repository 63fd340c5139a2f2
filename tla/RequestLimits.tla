--------------------------- MODULE RequestLimits ---------------------------
(***************************************************************************)
(* The HTTP middleware of the controller and its sliding-window limiter.   *)
(*                                                                         *)
(* A request passes the operator check, the limiter and the bearer token,  *)
(* in that order (the middleware that is installed last runs first), then  *)
(* its route.  An evaluation of the limiter awaits nothing once it has its *)
(* lock, so it is one step.                                                *)
(***************************************************************************)
EXTENDS Naturals, Sequences, SequencesExt, FiniteSetsExt, ServiceValues

CONSTANTS Callers,     \* who calls: [auth, operator, host], auth and operator may be None
          Paths,       \* what is called: [limited, guarded, named], the middlewares that
                       \* do not exempt it
          Token,       \* the bearer token that is configured, or None
          RequireName, \* require_operator_id
          Limit, Window, MaxBuckets,
          MaxClock     \* bound of the clock

ASSUME LimitsAssumption ==
  /\ Limit \in Nat \ {0} /\ Window \in Nat \ {0} /\ MaxBuckets \in Nat \ {0} /\ MaxClock \in Nat
  /\ RequireName \in BOOLEAN /\ None \notin Nat

VARIABLES buckets,  \* _events, an OrderedDict: sequence of [key, times]
          now,      \* the monotonic clock
          admitted, \* history: key -> the times at which it was let through
          evictedAt,\* history: key -> when its live bucket was last evicted, or None
          promise,  \* history: key -> what the last refusal said and what was in the bucket
          answer    \* the status of the last request as it left the middlewares;
                    \* "route" when its route went on to answer

lvars == <<buckets, now, admitted, evictedAt, promise, answer>>

\* build_rate_limit_key: the first of the three that is there.
Key(c) ==
  IF c.auth # None THEN <<"auth", c.auth>>
  ELSE IF c.operator # None THEN <<"operator", c.operator>>
  ELSE <<"ip", c.host>>
Keys == {Key(c) : c \in Callers}

LInit ==
  /\ buckets = <<>> /\ now = 0 /\ answer = None
  /\ admitted = [k \in Keys |-> <<>>]
  /\ evictedAt = [k \in Keys |-> None]
  /\ promise = [k \in Keys |-> None]

-----------------------------------------------------------------------------
(* The limiter.                                                            *)

\* _prune_bucket: the oldest times go, up to the first that is in the window.
FirstLive(times) == Min({i \in DOMAIN times : times[i] + Window > now} \cup {Len(times) + 1})
Live(times) == SubSeq(times, FirstLive(times), Len(times))
Prune(b) == [b EXCEPT !.times = Live(b.times)]

\* _ensure_capacity: the first bucket that is empty once pruned goes, else the oldest.
Capacity ==
  LET empty == {i \in DOMAIN buckets : Live(buckets[i].times) = <<>>}
      upTo == IF empty = {} THEN Len(buckets) ELSE Min(empty)
      pruned == [i \in DOMAIN buckets |-> IF i <= upTo THEN Prune(buckets[i]) ELSE buckets[i]]
  IN IF Len(buckets) < MaxBuckets THEN buckets
     ELSE RemoveAt(pruned, IF empty = {} THEN 1 ELSE upTo)

Position(k) == {i \in DOMAIN buckets : buckets[i].key = k}

\* The buckets with that of k last, pruned: found and moved, or new.
Found(k) ==
  IF Position(k) # {}
  THEN LET i == CHOOSE i \in Position(k) : TRUE
       IN Append(RemoveAt(buckets, i), Prune(buckets[i]))
  ELSE Append(Capacity, [key |-> k, times |-> <<>>])

\* Mutant: one request more is let through.
AdmitOneMore(k) ==
  LET found == Found(k) IN
  /\ Len(Last(found).times) <= Limit
  /\ buckets' = ReplaceAt(found, Len(found), [Last(found) EXCEPT !.times = Append(@, now)])
  /\ admitted' = [admitted EXCEPT ![k] = Append(Live(@), now)]
  /\ promise' = [promise EXCEPT ![k] = None]

\* evaluate lets a request of k through and its time is noted.
Admit(k) ==
  LET found == Found(k) IN
  /\ Len(Last(found).times) < Limit
  /\ buckets' = ReplaceAt(found, Len(found), [Last(found) EXCEPT !.times = Append(@, now)])
  /\ admitted' = [admitted EXCEPT ![k] = Append(Live(@), now)]
  /\ promise' = [promise EXCEPT ![k] = None]

\* evaluate refuses it and says after how many seconds to come back.
Refuse(k) ==
  LET found == Found(k)
      after == Window - (now - Last(found).times[1])
  IN
  /\ Len(Last(found).times) >= Limit
  /\ buckets' = found
  /\ promise' = [promise EXCEPT ![k] = now + (IF after < 1 THEN 1 ELSE after)]
  /\ UNCHANGED admitted

\* Live buckets that make room for another one.
Evicted ==
  evictedAt' = [k \in Keys |->
    IF \E i \in Position(k) : Live(buckets[i].times) # <<>> /\ \A j \in DOMAIN buckets' : buckets'[j].key # k
    THEN now ELSE evictedAt[k]]

-----------------------------------------------------------------------------
(* The middlewares, from the outside to the inside.                        *)

Unnamed(c, p) == RequireName /\ p.named /\ c.operator = None
\* require_api_bearer_token
Authorized(c, p) == Token = None \/ ~p.guarded \/ c.auth = Token
Serve(c, p) == answer' = IF Authorized(c, p) THEN "route" ELSE "401"

\* bind_operator_identity refuses a request without a name, before the limiter.
RefuseUnnamed(c, p) ==
  /\ Unnamed(c, p)
  /\ answer' = "400"
  /\ UNCHANGED <<buckets, now, admitted, evictedAt, promise>>

\* enforce_rate_limits on a path that is exempt, or not.
PassExempt(c, p) ==
  /\ ~Unnamed(c, p) /\ ~p.limited
  /\ Serve(c, p)
  /\ UNCHANGED <<buckets, now, admitted, evictedAt, promise>>

PassLimited(c, p) ==
  /\ ~Unnamed(c, p) /\ p.limited
  /\ Admit(Key(c)) /\ Evicted
  /\ Serve(c, p)
  /\ UNCHANGED now

RefuseLimited(c, p) ==
  /\ ~Unnamed(c, p) /\ p.limited
  /\ Refuse(Key(c)) /\ Evicted
  /\ answer' = "429"
  /\ UNCHANGED now

ClockTick ==
  /\ now < MaxClock /\ now' = now + 1
  /\ UNCHANGED <<buckets, admitted, evictedAt, promise, answer>>

LNext ==
  \/ \E c \in Callers, p \in Paths :
       RefuseUnnamed(c, p) \/ PassExempt(c, p) \/ PassLimited(c, p) \/ RefuseLimited(c, p)
  \/ ClockTick

LSpec == LInit /\ [][LNext]_lvars

-----------------------------------------------------------------------------
(* Properties.                                                             *)

\* A caller is let through at most Limit times in any window, unless its bucket,
\* still with times in it, made room for another caller in that window; there are
\* never more buckets than MaxBuckets (rate_limits.evaluate, _ensure_capacity).
WindowBound ==
  /\ Len(buckets) <= MaxBuckets
  /\ \A k \in Keys :
       evictedAt[k] = None \/ evictedAt[k] + Window <= now => Len(Live(admitted[k])) <= Limit

\* A caller that was refused and comes back when it was told to is let through: its
\* bucket, if it was not used meanwhile, has room then (retry_after_seconds).
RetryAfterHonest ==
  \A k \in Keys : promise[k] # None /\ now >= promise[k] =>
    \A i \in Position(k) : Len(Live(buckets[i].times)) < Limit

\* PROPERTY LimitsHonest: no caller gets more than the window allows, and none that waits as
\* long as it was told to is refused again, with evictions of buckets and a clock between.
LimitsHonest == WindowBound /\ RetryAfterHonest
=============================================================================
