-------------------------- MODULE BrowserSessions --------------------------
(***************************************************************************)
(* The life of browser sessions: the map of live sessions, the container   *)
(* and the SSH tunnel that each has in docker_ephemeral isolation, and its *)
(* durable record.                                                         *)
(*                                                                         *)
(* Every session has the coroutine that creates it; others close it or ask *)
(* for a human.  All of them interleave wherever they await: only the      *)
(* lock of a session, which close holds, and that of the tunnel broker     *)
(* keep them apart.  A creation may be cancelled at any await: it is, when *)
(* the cron service that started it shuts down.  The controller may crash  *)
(* anywhere, or shut down once no request is under way, and start again.   *)
(***************************************************************************)
EXTENDS Naturals, FiniteSets, ServiceValues

CONSTANTS MaxIds,       \* bound: the session identifiers 1..MaxIds, each used once, in order
          Closer,       \* coroutines that close a session
          Helper,       \* coroutines that request a human takeover
          Port,         \* the remote ports of the tunnel broker
          MaxSessions,  \* max_sessions
          MaxStops,     \* bound of the crashes and shutdowns of the controller
          Troubles      \* bound: the sets of things out of the ordinary that may
                        \* happen together in one behaviour, and among how many ids

ASSUME SessionsAssumption ==
  /\ Troubles \subseteq [may : SUBSET {"crash", "stop", "human", "docker", "cancel", "shadow", "shared"}, ids : 1..MaxIds]
  /\ MaxSessions \in Nat \ {0} /\ MaxStops \in Nat
  /\ MaxIds \in Nat /\ None \notin 1..MaxIds \cup Closer \cup Helper \cup Port

VARIABLES trouble,    \* what may happen: a crash, a shutdown, a request for a human, an
                      \* error of Docker, a cancelled creation, shadow browsing; and
                      \* whether the sessions share one browser node
          up,         \* the controller runs; it is down after a crash or a shutdown
          stops,
          stopping,   \* it is in shutdown
          toClose,    \* the sessions that shutdown has still to close
          phase,      \* where the coroutine that creates the session is
          shadow,     \* sessions made by enable_shadow_browse
          live,       \* manager.sessions
          page,       \* sessions whose browser context is open
          container,  \* sessions whose container exists
          tunnel,     \* session.tunnel: a port, or None
          dialed,     \* sessions whose autossh process runs
          allocated,  \* _allocated_ports
          adrift,     \* ports a cancelled creation left allocated, or in use, for nobody
          broker,     \* the broker's lock
          lock,       \* session.lock, per session
          record,     \* the durable record of the session
          closer, helper, \* where these coroutines are, and with which session
          stuck,      \* history: containers that Docker did not remove, or made and then raised
          cutoff,     \* history: sessions whose creation was cancelled outside the map
          unclosed,   \* history: sessions that shutdown has tried to close, or a crash left open
          twice,      \* history: tunnels released more than once
          excused     \* history: sessions whose record was left behind, see RecordsTruthful

Session == 1..MaxIds
Fresh(s) == s <= trouble.ids /\ \A t \in Session : phase[t] = "unused" <=> t >= s

svars == <<trouble, up, stops, stopping, toClose, phase, shadow, live, page, container, tunnel, dialed,
           allocated, adrift, broker, lock, record, closer, helper, stuck, cutoff, unclosed, twice, excused>>
\* The controller, and what it knows of its run.
controller == <<trouble, up, stops, stopping, toClose, unclosed>>
steady == <<controller, shadow, adrift, cutoff>>
tunnels == <<tunnel, dialed, allocated, broker, twice>>

Creating == {"check", "waiting", "goto", "dial", "summary", "upsert", "receipt",
             "summary2", "upsert2", "audit", "undo", "untunnel", "unpage", "sgoto", "ssummary", "supsert"}
At(s, pc) == up /\ phase[s] = pc
To(s, pc) == phase' = [phase EXCEPT ![s] = pc]
Idle == [pc |-> "idle", s |-> None]
\* shared_browser_node: one browser for all sessions, no container and no tunnel.
Shared == "shared" \in trouble.may

SInit ==
  /\ trouble \in Troubles
  /\ up = TRUE /\ stops = 0 /\ stopping = FALSE /\ toClose = {} /\ unclosed = {}
  /\ phase = [s \in Session |-> "unused"]
  /\ shadow = {} /\ live = {} /\ page = {} /\ container = {} /\ dialed = {} /\ allocated = {} /\ adrift = {}
  /\ tunnel = [s \in Session |-> None]
  /\ broker = None
  /\ lock = [s \in Session |-> None]
  /\ record = [s \in Session |-> "none"]
  /\ closer = [c \in Closer |-> Idle] /\ helper = [h \in Helper |-> Idle]
  /\ stuck = {} /\ cutoff = {} /\ twice = {} /\ excused = {}

-----------------------------------------------------------------------------
(* create: up to the first await nothing comes between the check of the    *)
(* limit and the directories.                                              *)

Create(s) ==
  /\ At(s, "unused") /\ Fresh(s) /\ ~stopping /\ Cardinality(live) < MaxSessions
  /\ To(s, "check")
  /\ UNCHANGED <<steady, live, page, container, tunnels, lock, record, closer, helper, stuck, excused>>

\* provision: the container is started, its endpoint awaited.  When Docker raises
\* it may have made the container before, and nobody has a handle to it.
StartContainer(s) ==
  /\ At(s, "check")
  /\ \/ container' = (IF Shared THEN container ELSE container \cup {s}) /\ To(s, "waiting") /\ UNCHANGED stuck
     \/ To(s, "failed") /\ UNCHANGED <<container, stuck>>
     \/ /\ "docker" \in trouble.may /\ ~Shared
        /\ container' = container \cup {s} /\ stuck' = stuck \cup {s} /\ To(s, "failed")
  /\ UNCHANGED <<steady, live, page, tunnels, lock, record, closer, helper, excused>>

\* _release_sync: the container is removed, or Docker's error is only logged.
RemoveContainer(s) ==
  \/ container' = container \ {s} /\ UNCHANGED stuck
  \/ "docker" \in trouble.may /\ s \in container /\ stuck' = stuck \cup {s} /\ UNCHANGED container

\* Mutant: a container whose endpoint does not appear is left.
OpenLeaves(s) ==
  /\ At(s, "waiting")
  /\ \/ /\ page' = page \cup {s} /\ live' = live \cup {s} /\ To(s, "goto")
     \/ /\ page' \in {page, page \cup {s}} /\ To(s, "undo") /\ UNCHANGED live
     \/ To(s, "failed") /\ UNCHANGED <<live, page>>
  /\ UNCHANGED <<steady, container, tunnels, lock, record, closer, helper, stuck, excused>>

\* The endpoint appears, or the container is released; then the context and its
\* page are opened, and the session enters the map.
Open(s) ==
  /\ At(s, "waiting")
  /\ \/ /\ page' = page \cup {s} /\ live' = live \cup {s} /\ To(s, "goto")
        /\ UNCHANGED <<container, stuck>>
     \/ /\ page' \in {page, page \cup {s}} /\ To(s, "undo")
        /\ UNCHANGED <<live, container, stuck>>
     \/ To(s, "failed") /\ RemoveContainer(s) /\ UNCHANGED <<live, page>>
  /\ UNCHANGED <<steady, tunnels, lock, record, closer, helper, excused>>

\* The first page loads and the broker's lock is taken if there will be a tunnel, or
\* the load fails.
Navigate(s) ==
  /\ At(s, "goto")
  /\ \/ ~Shared /\ broker = None /\ broker' = s /\ To(s, "dial")
     \/ Shared /\ To(s, "summary") /\ UNCHANGED broker
     \/ To(s, "undo") /\ UNCHANGED broker
  /\ UNCHANGED <<steady, live, page, container, tunnel, dialed, allocated, twice, lock, record,
                 closer, helper, stuck, excused>>

\* Ports that are not allocated are tried until autossh stays up on one: it exits
\* when the remote port is taken.  If none does, the session goes on without.
Dial(s) ==
  /\ At(s, "dial")
  /\ \/ \E p \in Port \ (allocated \cup adrift) :
          /\ \A t \in dialed : tunnel[t] # p
          /\ tunnel' = [tunnel EXCEPT ![s] = p]
          /\ dialed' = dialed \cup {s} /\ allocated' = allocated \cup {p}
     \/ UNCHANGED <<tunnel, dialed, allocated>>
  /\ broker' = None
  /\ To(s, "summary")
  /\ UNCHANGED <<steady, live, page, container, twice, lock, record, closer, helper, stuck, excused>>

\* persist: the summary asks the page for its title, which a closed page refuses,
\* then the record is written; it is done again after the receipt of the session.
Summarize(s) ==
  /\ \/ At(s, "summary") /\ s \in page /\ To(s, "upsert")
     \/ At(s, "summary2") /\ s \in page /\ To(s, "upsert2")
     \/ \E pc \in {"summary", "summary2"} : At(s, pc) /\ s \notin page /\ To(s, "undo")
  /\ UNCHANGED <<steady, live, page, container, tunnels, lock, record, closer, helper, stuck, excused>>

\* A record that is written as active when the session was closed meanwhile.
Upsert(s) ==
  /\ \/ At(s, "upsert") /\ To(s, "receipt")
     \/ At(s, "upsert2") /\ To(s, "audit")
  /\ record' = [record EXCEPT ![s] = "active"]
  /\ excused' = IF s \in live THEN excused ELSE excused \cup {s}
  /\ UNCHANGED <<steady, live, page, container, tunnels, lock, closer, helper, stuck>>

\* The receipt, and the audit event, of the new session.
Announce(s) ==
  /\ \/ At(s, "receipt") /\ To(s, "summary2")
     \/ At(s, "audit") /\ To(s, "done")
     \/ \E pc \in {"receipt", "audit"} : At(s, pc) /\ To(s, "undo")
  /\ UNCHANGED <<steady, live, page, container, tunnels, lock, record, closer, helper, stuck, excused>>

-----------------------------------------------------------------------------
(* cleanup_failed.  It leaves the record as it is.                         *)

\* The session leaves the map first.
Undo(s) ==
  /\ At(s, "undo")
  /\ live' = live \ {s}
  /\ excused' = IF record[s] = "active" THEN excused \cup {s} ELSE excused
  /\ To(s, IF tunnel[s] # None THEN "untunnel" ELSE "unpage")
  /\ UNCHANGED <<steady, page, container, tunnels, lock, record, closer, helper, stuck>>

\* release: the process ends, the port is free again, whoever has it now.
Release(s) ==
  /\ broker = None
  /\ dialed' = dialed \ {s}
  /\ allocated' = allocated \ {tunnel[s]}
  /\ twice' = IF s \in dialed THEN twice ELSE twice \cup {s}
  /\ UNCHANGED <<tunnel, broker>>

UndoTunnel(s) ==
  /\ At(s, "untunnel") /\ Release(s)
  /\ To(s, "unpage")
  /\ UNCHANGED <<steady, live, page, container, lock, record, closer, helper, stuck, excused>>

\* The context, the browser and the container.
UndoRuntime(s) ==
  /\ At(s, "unpage")
  /\ page' = page \ {s} /\ RemoveContainer(s)
  /\ To(s, "failed")
  /\ UNCHANGED <<steady, live, tunnels, lock, record, closer, helper, excused>>

-----------------------------------------------------------------------------
(* CancelledError is no Exception: cleanup_failed does not run, or does not *)
(* go on, and the release in provision does not run.  A thread that is      *)
(* awaited does its work all the same, or has not begun.                    *)

CancelCreate(s) ==
  /\ "cancel" \in trouble.may /\ up /\ phase[s] \in Creating \ {"undo"}
  /\ To(s, "failed")
  /\ \/ UNCHANGED container
     \/ phase[s] = "check" /\ ~Shared /\ container' = container \cup {s}
     \/ phase[s] = "unpage" /\ container' = container \ {s}
  /\ \/ UNCHANGED page
     \/ phase[s] = "waiting" /\ page' = page \cup {s}
     \/ phase[s] = "unpage" /\ page' = page \ {s}
  /\ cutoff' = IF s \in live THEN cutoff ELSE cutoff \cup {s}
  \* autossh is up but not registered, or terminated and still registered.
  /\ \/ UNCHANGED <<dialed, adrift>>
     \/ phase[s] = "dial" /\ UNCHANGED dialed
          /\ \E p \in Port \ allocated : (\A t \in dialed : tunnel[t] # p) /\ adrift' = adrift \cup {p}
     \/ phase[s] = "untunnel" /\ broker = None /\ s \in dialed
          /\ dialed' = dialed \ {s} /\ adrift' = adrift \cup {tunnel[s]}
  /\ broker' = IF phase[s] = "dial" THEN None ELSE broker
  /\ \/ UNCHANGED <<record, excused>>
     \/ /\ phase[s] \in {"upsert", "upsert2", "supsert"}
        /\ record' = [record EXCEPT ![s] = "active"]
        /\ excused' = IF s \in live THEN excused ELSE excused \cup {s}
  /\ UNCHANGED <<controller, shadow, live, tunnel, allocated, twice, lock, closer, helper, stuck>>

-----------------------------------------------------------------------------
(* enable_shadow_browse: a local headed browser with the state of a live   *)
(* session; no check of the limit, nothing undone when it fails.           *)

Shadow(s) ==
  /\ "shadow" \in trouble.may /\ At(s, "unused") /\ Fresh(s) /\ ~stopping
  /\ \E t \in live : lock[t] = None /\ t \in page
  /\ shadow' = shadow \cup {s}
  /\ \/ live' = live \cup {s} /\ page' = page \cup {s} /\ To(s, "sgoto")
     \/ To(s, "failed") /\ UNCHANGED <<live, page>>
  /\ UNCHANGED <<controller, adrift, cutoff, container, tunnels, lock, record, closer, helper, stuck, excused>>

ShadowStep(s) ==
  /\ \/ At(s, "sgoto") /\ s \in page /\ To(s, "ssummary") /\ UNCHANGED <<record, excused>>
     \/ At(s, "ssummary") /\ s \in page /\ To(s, "supsert") /\ UNCHANGED <<record, excused>>
     \/ \E pc \in {"sgoto", "ssummary"} : At(s, pc) /\ To(s, "failed") /\ UNCHANGED <<record, excused>>
     \/ /\ At(s, "supsert") /\ To(s, "done")
        /\ record' = [record EXCEPT ![s] = "active"]
        /\ excused' = IF s \in live THEN excused ELSE excused \cup {s}
  /\ UNCHANGED <<steady, live, page, container, tunnels, lock, closer, helper, stuck>>

-----------------------------------------------------------------------------
(* close.                                                                  *)

Closing(c, pc) == up /\ closer[c].pc = pc
Then(c, pc) == closer' = [closer EXCEPT ![c].pc = pc]
\* The lock of the session is given back and the call ends.
Leave(c) == closer' = [closer EXCEPT ![c] = Idle] /\ lock' = [lock EXCEPT ![closer[c].s] = None]

FindSession(c) ==
  /\ Closing(c, "idle") /\ ~stopping
  /\ \E s \in live : closer' = [closer EXCEPT ![c] = [pc |-> "wait", s |-> s]]
  /\ UNCHANGED <<steady, phase, live, page, container, tunnels, lock, record, helper, stuck, excused>>

LockSession(c) ==
  LET s == closer[c].s IN
  /\ Closing(c, "wait") /\ lock[s] = None
  /\ lock' = [lock EXCEPT ![s] = c]
  /\ Then(c, IF tunnel[s] # None THEN "release" ELSE "summary")
  /\ UNCHANGED <<steady, phase, live, page, container, tunnels, record, helper, stuck, excused>>

CloseTunnel(c) ==
  /\ Closing(c, "release") /\ Release(closer[c].s)
  /\ Then(c, "summary")
  /\ UNCHANGED <<steady, phase, live, page, container, lock, record, helper, stuck, excused>>

\* The summary asks the page for its title, which a closed page refuses and one that
\* crashed may: the call ends there.
CloseSummary(c) ==
  /\ Closing(c, "summary")
  /\ \/ closer[c].s \in page /\ Then(c, "context") /\ UNCHANGED lock
     \/ Leave(c)
  /\ UNCHANGED <<steady, phase, live, page, container, tunnels, record, helper, stuck, excused>>

\* The context is closed and the session leaves the map, or it fails to close and
\* the session stays; the container is released either way, in the finally.
CloseContext(c) ==
  LET s == closer[c].s IN
  /\ Closing(c, "context")
  /\ page' = page \ {s}
  /\ RemoveContainer(s)
  /\ \/ live' = live \ {s} /\ Then(c, "announce") /\ UNCHANGED lock
     \/ Leave(c) /\ UNCHANGED live
  /\ UNCHANGED <<steady, phase, tunnels, record, helper, excused>>

\* The audit event and the receipt: if one raises, the record is not written.
AnnounceClosed(c) ==
  /\ Closing(c, "announce")
  /\ \/ Then(c, "record") /\ UNCHANGED <<lock, excused>>
     \/ Leave(c) /\ excused' = excused \cup {closer[c].s}
  /\ UNCHANGED <<steady, phase, live, page, container, tunnels, record, helper, stuck>>

RecordClosed(c) ==
  /\ Closing(c, "record")
  /\ record' = [record EXCEPT ![closer[c].s] = "closed"]
  /\ Leave(c)
  /\ UNCHANGED <<steady, phase, live, page, container, tunnels, helper, stuck, excused>>

-----------------------------------------------------------------------------
(* BrowserTakeoverService.request: without the lock of the session.        *)

AskHuman(h) ==
  /\ "human" \in trouble.may /\ up /\ ~stopping /\ helper[h].pc = "idle"
  /\ \E s \in live \cap page : helper' = [helper EXCEPT ![h] = [pc |-> "summary", s |-> s]]
  /\ UNCHANGED <<steady, phase, live, page, container, tunnels, lock, record, closer, stuck, excused>>

\* It is announced, then the session is summarized and persisted as active.
SummarizeTakeover(h) ==
  /\ up /\ helper[h].pc = "summary"
  /\ helper' = [helper EXCEPT ![h] = IF helper[h].s \in page THEN [@ EXCEPT !.pc = "upsert"] ELSE Idle]
  /\ UNCHANGED <<steady, phase, live, page, container, tunnels, lock, record, closer, stuck, excused>>

PersistTakeover(h) ==
  LET s == helper[h].s IN
  /\ up /\ helper[h].pc = "upsert"
  /\ record' = [record EXCEPT ![s] = "active"]
  /\ excused' = IF s \in live THEN excused ELSE excused \cup {s}
  /\ helper' = [helper EXCEPT ![h] = Idle]
  /\ UNCHANGED <<steady, phase, live, page, container, tunnels, lock, closer, stuck>>

-----------------------------------------------------------------------------
(* Crash, shutdown and start.                                              *)

Quiet ==
  /\ \A s \in Session : phase[s] \notin Creating
  /\ (\A c \in Closer : closer[c].pc = "idle") /\ \A h \in Helper : helper[h].pc = "idle"

\* BrowserManager.shutdown, when the server has ended its requests, closes the sessions
\* of the map one by one.
Shutdown ==
  /\ "stop" \in trouble.may /\ up /\ ~stopping /\ stops < MaxStops /\ Quiet
  /\ stopping' = TRUE /\ toClose' = live
  /\ UNCHANGED <<trouble, up, stops, unclosed, phase, shadow, live, page, container, tunnels, adrift,
                 lock, record, closer, helper, stuck, cutoff, excused>>

CloseNext(c) ==
  /\ up /\ stopping /\ Quiet
  /\ \E s \in toClose :
       /\ closer' = [closer EXCEPT ![c] = [pc |-> "wait", s |-> s]]
       /\ toClose' = toClose \ {s} /\ unclosed' = unclosed \cup {s}
  /\ UNCHANGED <<trouble, up, stops, stopping, phase, shadow, live, page, container, tunnels, adrift,
                 lock, record, helper, stuck, cutoff, excused>>

\* What is in memory is lost; containers and records stay.
Down ==
  /\ up' = FALSE /\ stops' = stops + 1 /\ stopping' = FALSE /\ toClose' = {}
  /\ phase' = [s \in Session |-> IF phase[s] = "unused" THEN "unused" ELSE "failed"]
  /\ live' = {} /\ page' = {} /\ dialed' = {} /\ allocated' = {} /\ adrift' = {}
  /\ tunnel' = [s \in Session |-> None]
  /\ broker' = None /\ lock' = [s \in Session |-> None]
  /\ closer' = [c \in Closer |-> Idle] /\ helper' = [h \in Helper |-> Idle]
  /\ twice' = {} /\ shadow' = {}
  /\ UNCHANGED <<trouble, container, record, stuck>>

\* The rest of shutdown: Playwright and the tunnels that are left.  A session whose close
\* failed stays open.
Stopped ==
  /\ up /\ stopping /\ Quiet /\ toClose = {}
  /\ unclosed' = unclosed \cap live /\ Down
  /\ UNCHANGED <<cutoff, excused>>

Crash ==
  /\ "crash" \in trouble.may /\ up /\ stops < MaxStops
  /\ unclosed' = Session /\ Down
  /\ cutoff' = {} /\ excused' = {}

\* What every start forgets, and the containers that are left, which it removes, or not.
Start ==
  /\ ~up /\ up' = TRUE
  /\ \E kept \in IF "docker" \in trouble.may THEN SUBSET container ELSE {{}} : container' = kept /\ stuck' = kept
  /\ cutoff' = {} /\ unclosed' = {} /\ excused' = {}
  /\ UNCHANGED <<trouble, stops, stopping, toClose, phase, shadow, live, page, tunnels, adrift, lock, closer, helper>>

\* Mutant: the records of the last run are left as they were.
StartupLeavesRecords == Start /\ UNCHANGED record

\* BrowserManager.startup: active records become interrupted.
Startup ==
  /\ Start
  /\ record' = [s \in Session |-> IF record[s] = "active" THEN "interrupted" ELSE record[s]]

CreateStep(s) ==
  \/ StartContainer(s) \/ Open(s) \/ Navigate(s) \/ Dial(s)
  \/ Summarize(s) \/ Upsert(s) \/ Announce(s) \/ Undo(s) \/ UndoTunnel(s) \/ UndoRuntime(s)
  \/ ShadowStep(s) \/ CancelCreate(s)

CloseStep(c) ==
  \/ LockSession(c) \/ CloseTunnel(c) \/ CloseSummary(c) \/ CloseContext(c)
  \/ AnnounceClosed(c) \/ RecordClosed(c)

SNext ==
  \/ \E s \in Session : Create(s) \/ Shadow(s) \/ CreateStep(s)
  \/ \E c \in Closer : FindSession(c) \/ CloseNext(c) \/ CloseStep(c)
  \/ \E h \in Helper : AskHuman(h) \/ SummarizeTakeover(h) \/ PersistTakeover(h)
  \/ Shutdown \/ Stopped \/ Crash \/ Startup

SSpec == SInit /\ [][SNext]_svars

-----------------------------------------------------------------------------
(* Properties.                                                             *)

\* Is any coroutine at work on the session?
Busy(s) ==
  \/ phase[s] \in Creating
  \/ \E c \in Closer : closer[c].s = s
  \/ \E h \in Helper : helper[h].s = s

\* Has the controller that is now down left the session open?
LeftOpen(s) == ~up /\ s \in unclosed

\* PROPERTY OneActiveSession: on the shared browser node there is never more than
\* max_sessions live sessions, one by default ("intentionally limits the node to one
\* active session", docs/architecture.md:118).
OneActiveSession == Shared => Cardinality(live) <= MaxSessions

\* A container outlives its session only if Docker did not remove it, or made it and
\* then raised, or if the creation of the session was cancelled: whatever else fails in
\* create, in close or in shutdown, it is released or its session is still in the map
\* (cleanup_failed, the finally of close).  A shutdown leaves the containers of the
\* sessions that it failed to close, a crash all; the next start removes them.
ContainersOwned ==
  \A s \in container : s \in live \cup stuck \cup cutoff \/ Busy(s) \/ LeftOpen(s)

\* A port in use is allocated, and no port is lost, unless a tunnel was released a
\* second time by a close that came late, or a creation was cancelled while it dialed or
\* hung up (session_tunnel.provision, release).
PortsAccounted ==
  twice = {} => allocated \ adrift = {tunnel[s] : s \in dialed}

\* PROPERTY ResourcesOwned: whichever of the awaits of create, close, shutdown and shadow
\* browsing fails, no container and no port is left without a session.
ResourcesOwned == ContainersOwned /\ PortsAccounted

\* A record says active when no session is live only after a creation that failed
\* late, a close that failed late, or a record that was written after the close.
RecordsTruthful ==
  \A s \in Session : record[s] = "active" /\ ~Busy(s) => s \in live \cup excused \/ LeftOpen(s)

=============================================================================
