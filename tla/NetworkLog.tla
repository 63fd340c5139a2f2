----------------------------- MODULE NetworkLog -----------------------------
(***************************************************************************)
(* NetworkInspector: the requests of a session's page, from the events of  *)
(* the browser to the log.  A listener only starts a task; tasks run in    *)
(* the order they were started in, and no handler waits while it holds the *)
(* lock, so each runs in one piece -- but for the handler of a response,   *)
(* which waits for the body.  Headers, bodies, their scrubbing and the     *)
(* hooks an entry is shown to are left out, as is clear, which nobody      *)
(* calls.                                                                  *)
(***************************************************************************)
EXTENDS Naturals, Sequences, SequencesExt, ServiceValues

CONSTANTS NetRequest,
          SkippedRequests,  \* those of an image, a font, a medium or a socket
          MaxEntries,       \* max_entries
          MaxLag            \* bound: how many handlers the page may be ahead of

ASSUME NetworkAssumption ==
  /\ SkippedRequests \subseteq NetRequest /\ {MaxEntries, MaxLag} \subseteq Nat \ {0}
  /\ None \notin {"request", "response", "finished", "failed"}

VARIABLES wire,      \* what the browser has told of a request
          attached,  \* are the listeners on the page?
          handlers,  \* the tasks that have been started and not been run
          pending,   \* _pending
          recent,    \* _log
          bodies,    \* the requests whose response's body is being read
          entry      \* the entries, shared by _pending, _log and the handler of the response

nvars == <<wire, attached, handlers, pending, recent, bodies, entry>>

NInit ==
  /\ wire = [r \in NetRequest |-> None]
  /\ attached = TRUE
  /\ handlers = <<>>
  /\ pending = <<>> /\ recent = <<>> /\ bodies = {}
  /\ entry = [r \in NetRequest |-> None]

Requested == [status |-> FALSE, failed |-> FALSE]

\* deque(maxlen): the oldest entries make room.
Bounded(items) ==
  IF Len(items) > MaxEntries THEN SubSeq(items, Len(items) - MaxEntries + 1, Len(items)) ELSE items

-----------------------------------------------------------------------------
(* The browser, and the listeners.                                         *)

\* A request has a response before it finishes; it may fail before or after that.
Follows(event, r) ==
  \/ event = "request" /\ wire[r] = None
  \/ event = "response" /\ wire[r] = "request"
  \/ event = "finished" /\ wire[r] = "response"
  \/ event = "failed" /\ wire[r] \in {"request", "response"}

PageEvent(event, r) ==
  /\ attached /\ Follows(event, r) /\ Len(handlers) < MaxLag
  /\ wire' = [wire EXCEPT ![r] = event]
  /\ handlers' = Append(handlers, [does |-> event, of |-> r])
  /\ UNCHANGED <<attached, pending, recent, bodies, entry>>

\* _flush_pending.
Flush ==
  /\ recent' = Bounded(recent \o pending)
  /\ entry' = [r \in NetRequest |-> IF r \in Range(pending) THEN [entry[r] EXCEPT !.failed = TRUE] ELSE entry[r]]
  /\ pending' = <<>>
  /\ UNCHANGED bodies

\* Mutant: what is pending is drained at once.
DetachAtOnce == attached /\ attached' = FALSE /\ Flush /\ UNCHANGED <<wire, handlers>>

\* detach: the session closes.
Detach ==
  /\ attached /\ attached' = FALSE
  /\ handlers' = Append(handlers, [does |-> "flush", of |-> None])
  /\ UNCHANGED <<wire, pending, recent, bodies, entry>>

-----------------------------------------------------------------------------
(* The handlers.                                                           *)

handle_request(r) ==
  /\ pending' = IF r \in SkippedRequests THEN pending ELSE Append(pending, r)
  /\ entry' = IF r \in SkippedRequests THEN entry ELSE [entry EXCEPT ![r] = Requested]
  /\ UNCHANGED <<recent, bodies>>

\* What is no longer pending is forgotten.
handle_response(r) ==
  /\ bodies' = IF r \in Range(pending) THEN bodies \cup {r} ELSE bodies
  /\ UNCHANGED <<pending, recent, entry>>

EndEntry(r, failed) ==
  /\ \/ \E place \in DOMAIN pending :
          /\ pending[place] = r /\ pending' = RemoveAt(pending, place)
          /\ recent' = Bounded(Append(recent, r))
          /\ entry' = [entry EXCEPT ![r].failed = failed]
     \/ r \notin Range(pending) /\ UNCHANGED <<pending, recent, entry>>
  /\ UNCHANGED bodies

RunHandler ==
  /\ handlers # <<>> /\ handlers' = Tail(handlers)
  /\ LET task == Head(handlers) IN
     CASE task.does = "request" -> handle_request(task.of)
       [] task.does = "response" -> handle_response(task.of)
       [] task.does = "finished" -> EndEntry(task.of, FALSE)
       [] task.does = "failed" -> EndEntry(task.of, TRUE)
       [] task.does = "flush" -> Flush
  /\ UNCHANGED <<wire, attached>>

\* The body has been read, or cannot be: the entry is completed wherever it is by then.
BodyRead(r) ==
  /\ r \in bodies /\ bodies' = bodies \ {r}
  /\ entry' = [entry EXCEPT ![r].status = TRUE]
  /\ UNCHANGED <<wire, attached, handlers, pending, recent>>

NNext ==
  \/ \E r \in NetRequest, event \in {"request", "response", "finished", "failed"} : PageEvent(event, r)
  \/ Detach
  \/ RunHandler
  \/ \E r \in NetRequest : BodyRead(r)

NSpec == NInit /\ [][NNext]_nvars

-----------------------------------------------------------------------------
(* Properties.                                                             *)

\* Is the log short of r only because newer ones pushed it out?
Kept(r) == r \in Range(recent) \/ Len(recent) = MaxEntries

\* PROPERTY NetworkSettled: the log tells how each request ended, although handlers lag behind
\* the page, bodies are read while entries move, and a session closes in between: nothing is
\* logged twice or while it is pending; what is logged as failed had failed or was still under
\* way when the session closed; what finished has its status once the body was read; and after
\* detach nothing stays pending or gets lost.
NetworkSettled ==
  /\ IsInjective(recent) /\ Range(recent) \cap Range(pending) = {}
  /\ \A r \in Range(recent) :
       /\ entry[r].failed <=> wire[r] # "finished"
       /\ wire[r] = "finished" /\ r \notin bodies => entry[r].status
  /\ ~attached /\ handlers = <<>> =>
       /\ pending = <<>>
       /\ \A r \in NetRequest \ SkippedRequests : wire[r] # None => Kept(r)
=============================================================================
