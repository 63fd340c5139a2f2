-------------------------- MODULE Browsing_proofs --------------------------
(***************************************************************************)
(* What happens to a browser session: the session manager, the runs of the *)
(* model in it, and the log of its page's requests keep their promises.    *)
(***************************************************************************)
EXTENDS BrowserSessions, AgentSteps, NetworkLog, FiniteSetTheorems, SequenceTheorems, TLAPS

-----------------------------------------------------------------------------
(* The session manager, for any number of sessions, closes, takeovers,     *)
(* ports, cancelled creations, crashes and shutdowns.                      *)
(*                                                                         *)
(* Containers: until it is in the map, and once it has left it, a session  *)
(* with a container is at a step that still releases it (Owned).  Ports:   *)
(* no two dialed sessions have the same one, a session dials once, and on  *)
(* no port that is adrift (Ports).  Records: a session leaves the map for  *)
(* a close that is about to write its record, or is excused (Told).        *)
(* Shutdown: nobody creates a session any more, and every one in the map   *)
(* is closed or will be (Leaving).                                         *)

Phases == {"unused", "failed", "done"} \cup Creating
ClosePcs == {"idle", "wait", "release", "summary", "context", "announce", "record"}
HelpPcs == {"idle", "summary", "upsert"}
Statuses == {"none", "active", "closed", "interrupted"}

Types ==
  /\ trouble \in Troubles /\ up \in BOOLEAN
  /\ phase \in [Session -> Phases]
  /\ toClose \subseteq Session /\ shadow \subseteq Session /\ live \subseteq Session
  /\ container \subseteq Session /\ dialed \subseteq Session
  /\ tunnel \in [Session -> Port \cup {None}]
  /\ record \in [Session -> Statuses]
  /\ lock \in [Session -> Closer \cup {None}]
  /\ closer \in [Closer -> [pc : ClosePcs, s : Session \cup {None}]]
  /\ helper \in [Helper -> [pc : HelpPcs, s : Session \cup {None}]]
  /\ \A c \in Closer : closer[c].pc # "idle" => closer[c].s \in Session
  /\ \A h \in Helper : helper[h].pc # "idle" => helper[h].s \in Session

Owned ==
  /\ \A s \in Session : phase[s] \in {"unused", "check"} => s \notin container
  /\ \A s \in container :
       s \in live \cup stuck \cup cutoff \/ phase[s] \in {"waiting", "undo", "untunnel", "unpage"} \/ LeftOpen(s)

Ports ==
  /\ \A s \in dialed : tunnel[s] \in Port \ adrift /\ phase[s] \notin {"unused", "check", "waiting", "goto", "dial"}
  /\ \A s, t \in dialed : tunnel[s] = tunnel[t] => s = t
  /\ PortsAccounted

Told ==
  \A s \in Session : record[s] = "active" =>
    s \in live \cup excused \/ LeftOpen(s) \/ \E c \in Closer : closer[c].pc \in {"announce", "record"} /\ closer[c].s = s

Leaving ==
  stopping => up /\ live \subseteq toClose \cup unclosed /\ \A s \in Session : phase[s] \notin Creating

Inv == Types /\ Owned /\ Ports /\ Told /\ Leaving

LEMMA LeaveMoves ==
  ASSUME Types, NEW c \in Closer, closer[c].pc # "idle", Leave(c)
  PROVE  /\ closer'[c].pc = "idle" /\ closer'[c].s = None
         /\ \A d \in Closer \ {c} : closer'[d] = closer[d]
         /\ closer' \in [Closer -> [pc : ClosePcs, s : Session \cup {None}]]
         /\ lock' \in [Session -> Closer \cup {None}]
BY DEF Types, Leave, Idle, ClosePcs

LEMMA ThenMoves ==
  ASSUME Types, NEW c \in Closer, NEW pc \in ClosePcs, Then(c, pc)
  PROVE  /\ closer'[c].pc = pc /\ closer'[c].s = closer[c].s
         /\ \A d \in Closer \ {c} : closer'[d] = closer[d]
         /\ closer' \in [Closer -> [pc : ClosePcs, s : Session \cup {None}]]
BY DEF Types, Then

(* A release takes away the port of one session: no other had the same.    *)
LEMMA ReleaseKeeps ==
  ASSUME Types, Ports, NEW s \in Session, Release(s), adrift' = adrift,
         \A t \in Session : phase'[t] \in {phase[t], "unpage"}
  PROVE  Ports'
<1>1. /\ dialed' = dialed \ {s} /\ allocated' = allocated \ {tunnel[s]} /\ tunnel' = tunnel
      /\ twice' = IF s \in dialed THEN twice ELSE twice \cup {s}
  BY DEF Release
<1>2. ASSUME twice' = {} PROVE allocated' \ adrift' = {tunnel'[t] : t \in dialed'}
  <2>1. s \in dialed /\ twice = {}
    BY <1>1, <1>2
  <2>2. allocated \ adrift = {tunnel[t] : t \in dialed}
    BY <2>1 DEF Ports, PortsAccounted
  <2>3. tunnel[s] \notin adrift /\ \A t \in dialed : tunnel[t] = tunnel[s] => t = s
    BY <2>1 DEF Ports
  <2> QED
    BY <1>1, <2>1, <2>2, <2>3
<1> QED
  BY <1>1, <1>2 DEF Ports, PortsAccounted, Types

LEMMA TypesKept ==
  Types /\ [SNext]_svars => Types'
<1> SUFFICES ASSUME Types, [SNext]_svars PROVE Types'
  OBVIOUS
<1>1. ASSUME NEW s \in Session, Create(s) PROVE Types'
  BY <1>1 DEF Create, At, To, controller, steady, tunnels, Types, Phases, Creating
<1>2. ASSUME NEW s \in Session, Shadow(s) PROVE Types'
  BY <1>2 DEF Shadow, At, To, controller, tunnels, Types, Phases, Creating
<1>3. ASSUME NEW s \in Session, StartContainer(s) PROVE Types'
  BY <1>3 DEF StartContainer, At, To, controller, steady, tunnels, Types, Phases, Creating
<1>4. ASSUME NEW s \in Session, Open(s) PROVE Types'
  BY <1>4 DEF Open, At, To, RemoveContainer, controller, steady, tunnels, Types, Phases, Creating
<1>5. ASSUME NEW s \in Session, Navigate(s) PROVE Types'
  BY <1>5 DEF Navigate, At, To, controller, steady, Types, Phases, Creating
<1>6. ASSUME NEW s \in Session, Dial(s) PROVE Types'
  BY <1>6 DEF Dial, At, To, controller, steady, Types, Phases, Creating
<1>7. ASSUME NEW s \in Session, Summarize(s) PROVE Types'
  BY <1>7 DEF Summarize, At, To, controller, steady, tunnels, Types, Phases, Creating
<1>8. ASSUME NEW s \in Session, Upsert(s) PROVE Types'
  BY <1>8 DEF Upsert, At, To, controller, steady, tunnels, Types, Phases, Creating, Statuses
<1>9. ASSUME NEW s \in Session, Announce(s) PROVE Types'
  BY <1>9 DEF Announce, At, To, controller, steady, tunnels, Types, Phases, Creating
<1>10. ASSUME NEW s \in Session, Undo(s) PROVE Types'
  BY <1>10 DEF Undo, At, To, controller, steady, tunnels, Types, Phases, Creating
<1>11. ASSUME NEW s \in Session, UndoTunnel(s) PROVE Types'
  BY <1>11 DEF UndoTunnel, At, Release, To, controller, steady, Types, Phases, Creating
<1>12. ASSUME NEW s \in Session, UndoRuntime(s) PROVE Types'
  BY <1>12 DEF UndoRuntime, At, RemoveContainer, To, controller, steady, tunnels, Types, Phases, Creating
<1>13. ASSUME NEW s \in Session, ShadowStep(s) PROVE Types'
  BY <1>13 DEF ShadowStep, At, To, controller, steady, tunnels, Types, Phases, Creating, Statuses
<1>14. ASSUME NEW c \in Closer, FindSession(c) PROVE Types'
  BY <1>14 DEF FindSession, Closing, controller, steady, tunnels, Types, ClosePcs
<1>15. ASSUME NEW c \in Closer, LockSession(c) PROVE Types'
  BY <1>15 DEF LockSession, Closing, Then, controller, steady, tunnels, Types, ClosePcs
<1>16. ASSUME NEW c \in Closer, CloseTunnel(c) PROVE Types'
  BY <1>16 DEF CloseTunnel, Closing, Release, Then, controller, steady, Types, ClosePcs
<1>17. ASSUME NEW c \in Closer, CloseSummary(c) PROVE Types'
  <2>1. /\ closer[c].pc = "summary"
        /\ UNCHANGED <<trouble, up, toClose, phase, shadow, live, container, dialed, tunnel, record, helper>>
    BY <1>17 DEF CloseSummary, Closing, controller, steady, tunnels
  <2>2. CASE Then(c, "context") /\ UNCHANGED lock
    BY <2>1, <2>2, ThenMoves DEF Types, ClosePcs
  <2>3. CASE Leave(c)
    BY <2>1, <2>3, LeaveMoves DEF Types
  <2> QED
    BY <1>17, <2>2, <2>3 DEF CloseSummary
<1>18. ASSUME NEW c \in Closer, CloseContext(c) PROVE Types'
  <2>1. \/ live' = live \ {closer[c].s} /\ Then(c, "announce") /\ UNCHANGED lock
        \/ Leave(c) /\ UNCHANGED live
    BY <1>18 DEF CloseContext
  <2>2. /\ closer[c].pc = "context" /\ container' \subseteq container
        /\ UNCHANGED <<trouble, up, toClose, phase, shadow, dialed, tunnel, record, helper>>
    BY <1>18 DEF CloseContext, Closing, controller, steady, tunnels, RemoveContainer
  <2>3. CASE live' = live \ {closer[c].s} /\ Then(c, "announce") /\ UNCHANGED lock
    BY <2>2, <2>3, ThenMoves DEF Types, ClosePcs
  <2>4. CASE Leave(c) /\ UNCHANGED live
    BY <2>2, <2>4, LeaveMoves DEF Types
  <2> QED
    BY <2>1, <2>3, <2>4
<1>19. ASSUME NEW c \in Closer, AnnounceClosed(c) PROVE Types'
  <2>1. /\ closer[c].pc = "announce"
        /\ UNCHANGED <<trouble, up, toClose, phase, shadow, live, container, dialed, tunnel, record, helper>>
    BY <1>19 DEF AnnounceClosed, Closing, controller, steady, tunnels
  <2>2. CASE Then(c, "record") /\ UNCHANGED lock
    BY <2>1, <2>2, ThenMoves DEF Types, ClosePcs
  <2>3. CASE Leave(c)
    BY <2>1, <2>3, LeaveMoves DEF Types
  <2> QED
    BY <1>19, <2>2, <2>3 DEF AnnounceClosed
<1>20. ASSUME NEW c \in Closer, RecordClosed(c) PROVE Types'
  BY <1>20 DEF RecordClosed, Closing, Leave, controller, steady, tunnels, Idle, Types, ClosePcs, Statuses
<1>21. ASSUME NEW h \in Helper, AskHuman(h) PROVE Types'
  BY <1>21 DEF AskHuman, controller, steady, tunnels, Types, HelpPcs
<1>22. ASSUME NEW h \in Helper, SummarizeTakeover(h) PROVE Types'
  BY <1>22 DEF SummarizeTakeover, Idle, controller, steady, tunnels, Types, HelpPcs
<1>23. ASSUME NEW h \in Helper, PersistTakeover(h) PROVE Types'
  BY <1>23 DEF PersistTakeover, Idle, controller, steady, tunnels, Types, HelpPcs, Statuses
<1>24. CASE Crash
  BY <1>24 DEF Crash, Down, Idle, Types, Phases, Creating, ClosePcs, HelpPcs
<1>25. CASE Startup
  BY <1>25 DEF Startup, Start, tunnels, Types, Statuses
<1>27. ASSUME NEW s \in Session, CancelCreate(s) PROVE Types'
  BY <1>27 DEF CancelCreate, To, controller, Types, Creating, Phases, Statuses
<1>28. CASE Shutdown
  BY <1>28 DEF Shutdown, tunnels, Types
<1>29. ASSUME NEW c \in Closer, CloseNext(c) PROVE Types'
  <2>1. PICK s \in toClose : closer' = [closer EXCEPT ![c] = [pc |-> "wait", s |-> s]] /\ toClose' = toClose \ {s}
    BY <1>29 DEF CloseNext
  <2>2. s \in Session
    BY <2>1 DEF Types
  <2> QED
    BY <1>29, <2>1, <2>2 DEF CloseNext, tunnels, Types, ClosePcs
<1>30. CASE Stopped
  BY <1>30 DEF Stopped, Down, Quiet, Idle, Types, Phases, Creating, ClosePcs, HelpPcs
<1>26. CASE UNCHANGED svars
  BY <1>26 DEF svars, Types
<1> QED
  BY <1>1, <1>2, <1>3, <1>4, <1>5, <1>6, <1>7, <1>8, <1>9, <1>10, <1>11, <1>12, <1>13, <1>14,
     <1>15, <1>16, <1>17, <1>18, <1>19, <1>20, <1>21, <1>22, <1>23, <1>24, <1>25, <1>26, <1>27, <1>28,
     <1>29, <1>30
  DEF SNext, CreateStep, CloseStep

LEMMA OwnedKept ==
  Types /\ Owned /\ Leaving /\ [SNext]_svars => Owned'
<1> SUFFICES ASSUME Types, Owned, Leaving, [SNext]_svars PROVE Owned'
  OBVIOUS
<1>1. ASSUME NEW s \in Session, Create(s) PROVE Owned'
  BY <1>1 DEF Create, At, To, controller, steady, tunnels, Types, Owned, LeftOpen
<1>2. ASSUME NEW s \in Session, Shadow(s) PROVE Owned'
  BY <1>2 DEF Shadow, At, To, controller, tunnels, Types, Owned, LeftOpen
<1>3. ASSUME NEW s \in Session, StartContainer(s) PROVE Owned'
  BY <1>3 DEF StartContainer, At, To, controller, steady, tunnels, Types, Owned, LeftOpen
<1>4. ASSUME NEW s \in Session, Open(s) PROVE Owned'
  BY <1>4 DEF Open, At, To, RemoveContainer, controller, steady, tunnels, Types, Owned, LeftOpen
<1>5. ASSUME NEW s \in Session, Navigate(s) PROVE Owned'
  BY <1>5 DEF Navigate, At, To, controller, steady, Types, Owned, LeftOpen
<1>6. ASSUME NEW s \in Session, Dial(s) PROVE Owned'
  BY <1>6 DEF Dial, At, To, controller, steady, Types, Owned, LeftOpen
<1>7. ASSUME NEW s \in Session, Summarize(s) PROVE Owned'
  BY <1>7 DEF Summarize, At, To, controller, steady, tunnels, Types, Owned, LeftOpen
<1>8. ASSUME NEW s \in Session, Upsert(s) PROVE Owned'
  BY <1>8 DEF Upsert, At, To, controller, steady, tunnels, Types, Owned, LeftOpen
<1>9. ASSUME NEW s \in Session, Announce(s) PROVE Owned'
  BY <1>9 DEF Announce, At, To, controller, steady, tunnels, Types, Owned, LeftOpen
<1>10. ASSUME NEW s \in Session, Undo(s) PROVE Owned'
  BY <1>10 DEF Undo, At, To, controller, steady, tunnels, Types, Owned, LeftOpen
<1>11. ASSUME NEW s \in Session, UndoTunnel(s) PROVE Owned'
  BY <1>11 DEF UndoTunnel, At, Release, To, controller, steady, Types, Owned, LeftOpen
<1>12. ASSUME NEW s \in Session, UndoRuntime(s) PROVE Owned'
  BY <1>12 DEF UndoRuntime, At, RemoveContainer, To, controller, steady, tunnels, Types, Owned, LeftOpen
<1>13. ASSUME NEW s \in Session, ShadowStep(s) PROVE Owned'
  BY <1>13 DEF ShadowStep, At, To, controller, steady, tunnels, Types, Owned, LeftOpen
<1>14. ASSUME NEW c \in Closer, FindSession(c) PROVE Owned'
  BY <1>14 DEF FindSession, Closing, controller, steady, tunnels, Types, Owned, LeftOpen
<1>15. ASSUME NEW c \in Closer, LockSession(c) PROVE Owned'
  BY <1>15 DEF LockSession, Closing, Then, controller, steady, tunnels, Types, Owned, LeftOpen
<1>16. ASSUME NEW c \in Closer, CloseTunnel(c) PROVE Owned'
  BY <1>16 DEF CloseTunnel, Closing, Release, Then, controller, steady, Types, Owned, LeftOpen
<1>17. ASSUME NEW c \in Closer, CloseSummary(c) PROVE Owned'
  BY <1>17 DEF CloseSummary, Closing, Then, Leave, controller, steady, tunnels, Idle, Types, Owned, LeftOpen
<1>18. ASSUME NEW c \in Closer, CloseContext(c) PROVE Owned'
  BY <1>18 DEF CloseContext, Closing, RemoveContainer, Then, Leave, controller, steady, tunnels, Idle, Types,
     Owned, LeftOpen
<1>19. ASSUME NEW c \in Closer, AnnounceClosed(c) PROVE Owned'
  BY <1>19 DEF AnnounceClosed, Closing, Then, Leave, controller, steady, tunnels, Idle, Types, Owned, LeftOpen
<1>20. ASSUME NEW c \in Closer, RecordClosed(c) PROVE Owned'
  BY <1>20 DEF RecordClosed, Closing, Leave, controller, steady, tunnels, Idle, Types, Owned, LeftOpen
<1>21. ASSUME NEW h \in Helper, AskHuman(h) PROVE Owned'
  BY <1>21 DEF AskHuman, controller, steady, tunnels, Types, Owned, LeftOpen
<1>22. ASSUME NEW h \in Helper, SummarizeTakeover(h) PROVE Owned'
  BY <1>22 DEF SummarizeTakeover, Idle, controller, steady, tunnels, Types, Owned, LeftOpen
<1>23. ASSUME NEW h \in Helper, PersistTakeover(h) PROVE Owned'
  BY <1>23 DEF PersistTakeover, Idle, controller, steady, tunnels, Types, Owned, LeftOpen
<1>24. CASE Crash
  BY <1>24 DEF Crash, Down, Idle, Types, Owned, LeftOpen
<1>25. CASE Startup
  BY <1>25 DEF Startup, Start, tunnels, Types, Owned, LeftOpen
<1>27. ASSUME NEW s \in Session, CancelCreate(s) PROVE Owned'
  BY <1>27 DEF CancelCreate, To, controller, Types, Owned, LeftOpen, Creating
<1>28. CASE Shutdown
  BY <1>28 DEF Shutdown, tunnels, Types, Owned, LeftOpen
<1>29. ASSUME NEW c \in Closer, CloseNext(c) PROVE Owned'
  BY <1>29 DEF CloseNext, Quiet, tunnels, Types, Owned, LeftOpen
<1>30. CASE Stopped
  BY <1>30 DEF Stopped, Down, Quiet, Idle, Types, Owned, LeftOpen, Leaving, Creating
<1>26. CASE UNCHANGED svars
  BY <1>26 DEF svars, Types, Owned, LeftOpen
<1> QED
  BY <1>1, <1>2, <1>3, <1>4, <1>5, <1>6, <1>7, <1>8, <1>9, <1>10, <1>11, <1>12, <1>13, <1>14,
     <1>15, <1>16, <1>17, <1>18, <1>19, <1>20, <1>21, <1>22, <1>23, <1>24, <1>25, <1>26, <1>27, <1>28,
     <1>29, <1>30
  DEF SNext, CreateStep, CloseStep

LEMMA PortsKept ==
  Types /\ Ports /\ [SNext]_svars => Ports'
<1> SUFFICES ASSUME Types, Ports, [SNext]_svars PROVE Ports'
  OBVIOUS
<1>1. ASSUME NEW s \in Session, Create(s) PROVE Ports'
  BY <1>1 DEF Create, At, To, controller, steady, tunnels, Types, Ports, PortsAccounted
<1>2. ASSUME NEW s \in Session, Shadow(s) PROVE Ports'
  BY <1>2 DEF Shadow, At, To, controller, tunnels, Types, Ports, PortsAccounted
<1>3. ASSUME NEW s \in Session, StartContainer(s) PROVE Ports'
  BY <1>3 DEF StartContainer, At, To, controller, steady, tunnels, Types, Ports, PortsAccounted
<1>4. ASSUME NEW s \in Session, Open(s) PROVE Ports'
  BY <1>4 DEF Open, At, To, RemoveContainer, controller, steady, tunnels, Types, Ports, PortsAccounted
<1>5. ASSUME NEW s \in Session, Navigate(s) PROVE Ports'
  BY <1>5 DEF Navigate, At, To, controller, steady, Types, Ports, PortsAccounted
<1>6. ASSUME NEW s \in Session, Dial(s) PROVE Ports'
  BY <1>6 DEF Dial, At, To, controller, steady, Types, Ports, PortsAccounted
<1>7. ASSUME NEW s \in Session, Summarize(s) PROVE Ports'
  BY <1>7 DEF Summarize, At, To, controller, steady, tunnels, Types, Ports, PortsAccounted
<1>8. ASSUME NEW s \in Session, Upsert(s) PROVE Ports'
  BY <1>8 DEF Upsert, At, To, controller, steady, tunnels, Types, Ports, PortsAccounted
<1>9. ASSUME NEW s \in Session, Announce(s) PROVE Ports'
  BY <1>9 DEF Announce, At, To, controller, steady, tunnels, Types, Ports, PortsAccounted
<1>10. ASSUME NEW s \in Session, Undo(s) PROVE Ports'
  BY <1>10 DEF Undo, At, To, controller, steady, tunnels, Types, Ports, PortsAccounted
<1>11. ASSUME NEW s \in Session, UndoTunnel(s) PROVE Ports'
  <2>1. Release(s) /\ phase' = [phase EXCEPT ![s] = "unpage"] /\ adrift' = adrift
    BY <1>11 DEF UndoTunnel, To, steady
  <2>2. \A t \in Session : phase'[t] \in {phase[t], "unpage"}
    BY <2>1 DEF Types
  <2> QED
    BY <2>1, <2>2, ReleaseKeeps
<1>12. ASSUME NEW s \in Session, UndoRuntime(s) PROVE Ports'
  BY <1>12 DEF UndoRuntime, At, RemoveContainer, To, controller, steady, tunnels, Types, Ports, PortsAccounted
<1>13. ASSUME NEW s \in Session, ShadowStep(s) PROVE Ports'
  BY <1>13 DEF ShadowStep, At, To, controller, steady, tunnels, Types, Ports, PortsAccounted
<1>14. ASSUME NEW c \in Closer, FindSession(c) PROVE Ports'
  BY <1>14 DEF FindSession, Closing, controller, steady, tunnels, Types, Ports, PortsAccounted
<1>15. ASSUME NEW c \in Closer, LockSession(c) PROVE Ports'
  BY <1>15 DEF LockSession, Closing, Then, controller, steady, tunnels, Types, Ports, PortsAccounted
<1>16. ASSUME NEW c \in Closer, CloseTunnel(c) PROVE Ports'
  BY <1>16, ReleaseKeeps DEF CloseTunnel, Closing, steady, Types
<1>17. ASSUME NEW c \in Closer, CloseSummary(c) PROVE Ports'
  BY <1>17 DEF CloseSummary, Closing, Then, Leave, controller, steady, tunnels, Idle, Types, Ports,
     PortsAccounted
<1>18. ASSUME NEW c \in Closer, CloseContext(c) PROVE Ports'
  BY <1>18 DEF CloseContext, Closing, RemoveContainer, Then, Leave, controller, steady, tunnels, Idle, Types,
     Ports, PortsAccounted
<1>19. ASSUME NEW c \in Closer, AnnounceClosed(c) PROVE Ports'
  BY <1>19 DEF AnnounceClosed, Closing, Then, Leave, controller, steady, tunnels, Idle, Types, Ports,
     PortsAccounted
<1>20. ASSUME NEW c \in Closer, RecordClosed(c) PROVE Ports'
  BY <1>20 DEF RecordClosed, Closing, Leave, controller, steady, tunnels, Idle, Types, Ports, PortsAccounted
<1>21. ASSUME NEW h \in Helper, AskHuman(h) PROVE Ports'
  BY <1>21 DEF AskHuman, controller, steady, tunnels, Types, Ports, PortsAccounted
<1>22. ASSUME NEW h \in Helper, SummarizeTakeover(h) PROVE Ports'
  BY <1>22 DEF SummarizeTakeover, Idle, controller, steady, tunnels, Types, Ports, PortsAccounted
<1>23. ASSUME NEW h \in Helper, PersistTakeover(h) PROVE Ports'
  BY <1>23 DEF PersistTakeover, Idle, controller, steady, tunnels, Types, Ports, PortsAccounted
<1>24. CASE Crash
  BY <1>24 DEF Crash, Down, Idle, Types, Ports, PortsAccounted
<1>25. CASE Startup
  BY <1>25 DEF Startup, Start, tunnels, Types, Ports, PortsAccounted
<1>27. ASSUME NEW s \in Session, CancelCreate(s) PROVE Ports'
  BY <1>27 DEF CancelCreate, To, controller, Types, Ports, PortsAccounted, Creating
<1>28. CASE Shutdown
  BY <1>28 DEF Shutdown, tunnels, Types, Ports, PortsAccounted
<1>29. ASSUME NEW c \in Closer, CloseNext(c) PROVE Ports'
  BY <1>29 DEF CloseNext, Quiet, tunnels, Types, Ports, PortsAccounted
<1>30. CASE Stopped
  BY <1>30 DEF Stopped, Down, Quiet, Idle, Types, Ports, PortsAccounted
<1>26. CASE UNCHANGED svars
  BY <1>26 DEF svars, Types, Ports, PortsAccounted
<1> QED
  BY <1>1, <1>2, <1>3, <1>4, <1>5, <1>6, <1>7, <1>8, <1>9, <1>10, <1>11, <1>12, <1>13, <1>14,
     <1>15, <1>16, <1>17, <1>18, <1>19, <1>20, <1>21, <1>22, <1>23, <1>24, <1>25, <1>26, <1>27, <1>28,
     <1>29, <1>30
  DEF SNext, CreateStep, CloseStep

LEMMA ToldKept ==
  Types /\ Told /\ Leaving /\ [SNext]_svars => Told'
<1> SUFFICES ASSUME Types, Told, Leaving, [SNext]_svars PROVE Told'
  OBVIOUS
<1>1. ASSUME NEW s \in Session, Create(s) PROVE Told'
  BY <1>1 DEF Create, At, To, controller, steady, tunnels, Types, Told, LeftOpen
<1>2. ASSUME NEW s \in Session, Shadow(s) PROVE Told'
  BY <1>2 DEF Shadow, At, To, controller, tunnels, Types, Told, LeftOpen
<1>3. ASSUME NEW s \in Session, StartContainer(s) PROVE Told'
  BY <1>3 DEF StartContainer, At, To, controller, steady, tunnels, Types, Told, LeftOpen
<1>4. ASSUME NEW s \in Session, Open(s) PROVE Told'
  BY <1>4 DEF Open, At, To, RemoveContainer, controller, steady, tunnels, Types, Told, LeftOpen
<1>5. ASSUME NEW s \in Session, Navigate(s) PROVE Told'
  BY <1>5 DEF Navigate, At, To, controller, steady, Types, Told, LeftOpen
<1>6. ASSUME NEW s \in Session, Dial(s) PROVE Told'
  BY <1>6 DEF Dial, At, To, controller, steady, Types, Told, LeftOpen
<1>7. ASSUME NEW s \in Session, Summarize(s) PROVE Told'
  BY <1>7 DEF Summarize, At, To, controller, steady, tunnels, Types, Told, LeftOpen
<1>8. ASSUME NEW s \in Session, Upsert(s) PROVE Told'
  BY <1>8 DEF Upsert, At, To, controller, steady, tunnels, Types, Told, LeftOpen
<1>9. ASSUME NEW s \in Session, Announce(s) PROVE Told'
  BY <1>9 DEF Announce, At, To, controller, steady, tunnels, Types, Told, LeftOpen
<1>10. ASSUME NEW s \in Session, Undo(s) PROVE Told'
  BY <1>10 DEF Undo, At, To, controller, steady, tunnels, Types, Told, LeftOpen
<1>11. ASSUME NEW s \in Session, UndoTunnel(s) PROVE Told'
  BY <1>11 DEF UndoTunnel, At, Release, To, controller, steady, Types, Told, LeftOpen
<1>12. ASSUME NEW s \in Session, UndoRuntime(s) PROVE Told'
  BY <1>12 DEF UndoRuntime, At, RemoveContainer, To, controller, steady, tunnels, Types, Told, LeftOpen
<1>13. ASSUME NEW s \in Session, ShadowStep(s) PROVE Told'
  BY <1>13 DEF ShadowStep, At, To, controller, steady, tunnels, Types, Told, LeftOpen
<1>14. ASSUME NEW c \in Closer, FindSession(c) PROVE Told'
  BY <1>14 DEF FindSession, Closing, controller, steady, tunnels, Types, Told, LeftOpen
<1>15. ASSUME NEW c \in Closer, LockSession(c) PROVE Told'
  BY <1>15 DEF LockSession, Closing, Then, controller, steady, tunnels, Types, Told, LeftOpen
<1>16. ASSUME NEW c \in Closer, CloseTunnel(c) PROVE Told'
  BY <1>16 DEF CloseTunnel, Closing, Release, Then, controller, steady, Types, Told, LeftOpen
<1>17. ASSUME NEW c \in Closer, CloseSummary(c) PROVE Told'
  <2>1. \A d \in Closer : d # c => closer'[d] = closer[d]
    BY <1>17, LeaveMoves, ThenMoves DEF CloseSummary, Closing, ClosePcs
  <2>2. closer[c].pc = "summary" /\ UNCHANGED <<up, record, live, excused, unclosed>>
    BY <1>17 DEF CloseSummary, Closing, controller, steady
  <2> QED
    BY <2>1, <2>2 DEF Told, LeftOpen
<1>18. ASSUME NEW c \in Closer, CloseContext(c) PROVE Told'
  BY <1>18, SMTT(20)
  DEF CloseContext, Closing, RemoveContainer, Then, Leave, controller, steady, tunnels, Idle, Types, Told, LeftOpen
<1>19. ASSUME NEW c \in Closer, AnnounceClosed(c) PROVE Told'
  BY <1>19 DEF AnnounceClosed, Closing, Then, Leave, controller, steady, tunnels, Idle, Types, Told, LeftOpen
<1>20. ASSUME NEW c \in Closer, RecordClosed(c) PROVE Told'
  BY <1>20 DEF RecordClosed, Closing, Leave, controller, steady, tunnels, Idle, Types, Told, LeftOpen
<1>21. ASSUME NEW h \in Helper, AskHuman(h) PROVE Told'
  BY <1>21 DEF AskHuman, controller, steady, tunnels, Types, Told, LeftOpen
<1>22. ASSUME NEW h \in Helper, SummarizeTakeover(h) PROVE Told'
  BY <1>22 DEF SummarizeTakeover, Idle, controller, steady, tunnels, Types, Told, LeftOpen
<1>23. ASSUME NEW h \in Helper, PersistTakeover(h) PROVE Told'
  BY <1>23 DEF PersistTakeover, Idle, controller, steady, tunnels, Types, Told, LeftOpen
<1>24. CASE Crash
  BY <1>24 DEF Crash, Down, Idle, Types, Told, LeftOpen
<1>25. CASE Startup
  BY <1>25 DEF Startup, Start, tunnels, Types, Told, LeftOpen
<1>27. ASSUME NEW s \in Session, CancelCreate(s) PROVE Told'
  BY <1>27 DEF CancelCreate, To, controller, Types, Told, LeftOpen, Creating
<1>28. CASE Shutdown
  BY <1>28 DEF Shutdown, tunnels, Types, Told, LeftOpen
<1>29. ASSUME NEW c \in Closer, CloseNext(c) PROVE Told'
  BY <1>29 DEF CloseNext, Quiet, tunnels, Types, Told, LeftOpen
<1>30. CASE Stopped
  BY <1>30 DEF Stopped, Down, Quiet, Idle, Types, Told, LeftOpen, Leaving, Creating
<1>26. CASE UNCHANGED svars
  BY <1>26 DEF svars, Types, Told, LeftOpen
<1> QED
  BY <1>1, <1>2, <1>3, <1>4, <1>5, <1>6, <1>7, <1>8, <1>9, <1>10, <1>11, <1>12, <1>13, <1>14,
     <1>15, <1>16, <1>17, <1>18, <1>19, <1>20, <1>21, <1>22, <1>23, <1>24, <1>25, <1>26, <1>27, <1>28,
     <1>29, <1>30
  DEF SNext, CreateStep, CloseStep

LEMMA LeavingKept ==
  Types /\ Leaving /\ [SNext]_svars => Leaving'
<1> SUFFICES ASSUME Types, Leaving, [SNext]_svars PROVE Leaving'
  OBVIOUS
<1>1. ASSUME NEW s \in Session, Create(s) \/ Shadow(s) PROVE Leaving'
  BY <1>1 DEF Create, Shadow, controller, steady, Leaving
<1>2. ASSUME NEW s \in Session, CreateStep(s) PROVE Leaving'
  <2>1. phase[s] \in Creating /\ UNCHANGED stopping
    BY <1>2 DEF CreateStep, StartContainer, Open, Navigate, Dial, Summarize, Upsert, Announce, Undo, UndoTunnel,
                UndoRuntime, ShadowStep, CancelCreate, At, Creating, controller, steady
  <2> QED
    BY <2>1 DEF Leaving
<1>3. ASSUME NEW c \in Closer, FindSession(c) \/ CloseStep(c) PROVE Leaving'
  <2>1. live' \subseteq live /\ UNCHANGED <<up, phase, stopping, toClose, unclosed>>
    BY <1>3 DEF FindSession, CloseStep, LockSession, CloseTunnel, CloseSummary, CloseContext,
                AnnounceClosed, RecordClosed, controller, steady
  <2> QED
    BY <2>1 DEF Leaving
<1>4. ASSUME NEW h \in Helper, AskHuman(h) \/ SummarizeTakeover(h) \/ PersistTakeover(h) PROVE Leaving'
  BY <1>4 DEF AskHuman, SummarizeTakeover, PersistTakeover, controller, steady, Leaving
<1>5. ASSUME NEW c \in Closer, CloseNext(c) PROVE Leaving'
  BY <1>5 DEF CloseNext, Leaving
<1>6. CASE Shutdown
  BY <1>6 DEF Shutdown, Quiet, Leaving
<1>7. CASE Stopped \/ Crash \/ Startup \/ UNCHANGED svars
  BY <1>7 DEF Stopped, Crash, Down, Startup, Start, svars, Leaving
<1> QED
  BY <1>1, <1>2, <1>3, <1>4, <1>5, <1>6, <1>7 DEF SNext

-----------------------------------------------------------------------------

LEMMA InitInv == SInit => Inv
<1> SUFFICES ASSUME SInit PROVE Inv
  OBVIOUS
<1>1. Types
  BY DEF SInit, Types, Phases, ClosePcs, HelpPcs, Statuses, Idle
<1>2. Owned /\ Ports /\ Told /\ Leaving
  BY DEF SInit, Owned, Ports, PortsAccounted, Told, Leaving
<1> QED
  BY <1>1, <1>2 DEF Inv

LEMMA StepKeeps == Inv /\ [SNext]_svars => Inv'
BY TypesKept, OwnedKept, PortsKept, ToldKept, LeavingKept DEF Inv

LEMMA Invariant == SSpec => []Inv
BY InitInv, StepKeeps, PTL DEF SSpec

\* Whichever await of create, close, shutdown or shadow browsing fails, every container has
\* a session in the map or somebody who releases it, unless Docker raised or the creation
\* was cancelled; a shutdown leaves those of the sessions it failed to close.  No port is
\* lost unless a tunnel was released twice or a creation cancelled while it dialed or hung
\* up (cleanup_failed, session_tunnel.release, BrowserManager.shutdown).
THEOREM Released == SSpec => []ResourcesOwned
<1>1. Inv => ResourcesOwned
  <2> SUFFICES ASSUME Inv PROVE ResourcesOwned
    OBVIOUS
  <2>1. \A s \in Session : phase[s] \in {"waiting", "undo", "untunnel", "unpage"} => Busy(s)
    BY DEF Busy, Creating
  <2>2. ContainersOwned
    BY <2>1 DEF Inv, Types, Owned, ContainersOwned
  <2> QED
    BY <2>2 DEF Inv, Ports, ResourcesOwned
<1> QED
  BY <1>1, Invariant, PTL

\* A record that says active belongs to a live session, to one that is just being created or
\* closed, or to one of the failures that the service is known to leave a record behind for
\* (the finally of close, cleanup_failed, takeover.request).
THEOREM Truthful == SSpec => []RecordsTruthful
<1>1. Inv => RecordsTruthful
  <2> SUFFICES ASSUME Inv, NEW s \in Session, record[s] = "active", ~ Busy(s)
               PROVE  s \in live \cup excused \/ LeftOpen(s)
    BY DEF RecordsTruthful
  <2> QED
    BY DEF Inv, Told, Busy
<1> QED
  BY <1>1, Invariant, PTL

-----------------------------------------------------------------------------
(* A run of the model, for any decisions, limits, retries and transports.  *)
(*                                                                         *)
(* A run goes on only while every step acted once and they are no loop     *)
(* (Flow), so that the steps and the deeds stay side by side (Story): only *)
(* the last step may have done what it does not tell, and then it failed or*)
(* was cut off.  What a job has saved is all but that (BookKept).          *)

UnderWay == {"step", "ask", "bridge", "execute"}
Results == [status : {None, "acted"} \cup Final, code : Nat \cup {None},
            act : Decisions \cup {None}, low : BOOLEAN]
Turns == [pc : UnderWay \cup {"log", "book", "guard", "answer", "summary", "over"}, attempt : Nat,
          act : Decisions \cup {None}, result : Results]

GTypes ==
  /\ turn \in Turns /\ told \in Seq(Results) /\ booked \in Nat
  /\ deeds \in Seq([act : Decisions, low : BOOLEAN, step : Nat])

\* Step i did to the page what it tells.
Acted(i) ==
  /\ told[i].status = "acted" /\ told[i].code = None /\ i <= Len(deeds)
  /\ deeds[i].act = told[i].act /\ deeds[i].low = told[i].low

\* Step i ends the run, and did at most one thing that it does not tell.
LastStep(i) ==
  /\ i = Len(told) /\ told[i].status \in Final /\ Len(deeds) <= i
  /\ Len(deeds) = i => /\ told[i].status = "error" /\ told[i].code = None
                       /\ ending \in {None, "error", "raised", "cancelled"}

\* Every step but the last one acted once.
Story ==
  /\ \A d \in 1..Len(deeds) : deeds[d].step = d
  /\ Len(deeds) <= Len(told) + 1
  /\ Len(deeds) = Len(told) + 1 => turn.pc = "log" \/ ending \in {"raised", "cancelled"}
  /\ \A i \in 1..Len(told) : Acted(i) \/ LastStep(i)

\* A run goes on only while all steps acted and they are no loop.
GoesOn == ending = None /\ (\A i \in 1..Len(told) : Acted(i)) /\ ~ Loops(told)
Reported(result) ==
  /\ result.status \in {"acted"} \cup Final
  /\ result.status = "acted" => /\ result.code = None /\ Len(deeds) = Len(told) + 1
                                /\ deeds[Len(deeds)].act = result.act /\ deeds[Len(deeds)].low = result.low
  /\ result.status # "acted" /\ Len(deeds) # Len(told) => result.status = "error" /\ result.code = None

Flow ==
  /\ turn.pc \in UnderWay => GoesOn /\ Len(deeds) = Len(told)
  /\ turn.pc = "log" => GoesOn /\ Reported(turn.result)
  /\ turn.pc \in {"book", "guard", "answer"} => ending = None /\ told # <<>>
  /\ turn.pc \in {"book", "guard", "answer", "summary"} => Len(deeds) <= Len(told)

BookKept ==
  ask.kind = "run" /\ ask.caller = "job" =>
    /\ Len(deeds) <= booked + 1
    /\ turn.pc \in UnderWay \cup {"log", "guard"} => booked = Len(told)

GInv == GTypes /\ Story /\ Flow /\ BookKept /\ LoopGuarded

LEMMA TurnFields ==
  ASSUME GTypes
  PROVE  /\ turn.pc \in UnderWay \cup {"log", "book", "guard", "answer", "summary", "over"}
         /\ turn.act \in Decisions \cup {None} /\ turn.result \in Results /\ turn.attempt \in Nat
         /\ Len(told) \in Nat /\ Len(deeds) \in Nat
BY DEF GTypes, Turns

LEMMA ResultTypes ==
  /\ NoResult \in Results
  /\ \A code \in Nat \cup {None} : [NoResult EXCEPT !.status = "error", !.code = code] \in Results
  /\ [NoResult EXCEPT !.status = "takeover"] \in Results
BY DEF NoResult, Results, Final

\* The coroutine goes on, or reports a failure.
LEMMA TurnGoes ==
  ASSUME GTypes, NEW pc \in UnderWay \cup {"log", "book", "guard", "answer", "summary", "over"}, GoTo(pc)
  PROVE  turn' \in Turns /\ turn'.pc = pc /\ turn'.result = turn.result
<1>1. turn' = [turn EXCEPT !.pc = pc] /\ turn \in Turns
  BY DEF GTypes, GoTo
<1> QED
  BY <1>1 DEF Turns

LEMMA TurnReports ==
  ASSUME GTypes, NEW result \in Results, Report(result)
  PROVE  turn' \in Turns /\ turn'.pc = "log" /\ turn'.result = result
<1>1. turn' = [turn EXCEPT !.pc = "log", !.act = None, !.result = result] /\ turn \in Turns
  BY DEF GTypes, Report
<1> QED
  BY <1>1 DEF Turns

LEMMA TurnFails ==
  ASSUME GTypes, NEW code \in Nat \cup {None}, StepFailed(code)
  PROVE  /\ turn' \in Turns /\ turn'.pc = "log" /\ turn'.result.status = "error" /\ turn'.result.code = code
         /\ turn'.result \in Results
<1> DEFINE result == [NoResult EXCEPT !.status = "error", !.code = code]
<1>1. result \in Results /\ result.status = "error" /\ result.code = code
  BY ResultTypes DEF NoResult
<1>2. Report(result)
  BY DEF StepFailed
<1> HIDE DEF result
<1> QED
  BY <1>1, <1>2, TurnReports

\* What may come of asking a provider.
Answered == turn' \in Turns /\ (turn'.pc \in UnderWay \/ (turn'.pc = "log" /\ turn'.result.status \in Final))

LEMMA AnswersOfProvider ==
  ASSUME GTypes
  PROVE  /\ NoAnswer \/ PostJson \/ RunCli \/ Decide \/ Unusable \/ GoTo("bridge") => Answered
         /\ \A code \in Nat : BadStatus(code) => Answered
<1>1. turn \in Turns
  BY DEF GTypes
<1>2. TryAgain => Answered
  <2> SUFFICES ASSUME TryAgain PROVE Answered
    OBVIOUS
  <2>1. turn' = [turn EXCEPT !.pc = "ask", !.attempt = turn.attempt + 1] /\ turn.attempt + 1 \in Nat
    BY TurnFields DEF TryAgain
  <2>2. turn' \in Turns /\ turn'.pc = "ask"
    BY <1>1, <2>1 DEF Turns, UnderWay
  <2> QED
    BY <2>2 DEF Answered, UnderWay
<1>3. Decide => Answered
  <2> SUFFICES ASSUME Decide PROVE Answered
    OBVIOUS
  <2>1. PICK act \in Decisions : turn' = [turn EXCEPT !.pc = "execute", !.act = act]
    BY DEF Decide
  <2> QED
    BY <2>1, <1>1 DEF Turns, Answered, UnderWay
<1>4. \A code \in Nat \cup {None} : StepFailed(code) => Answered
  BY TurnFails DEF Answered, Final
<1>5. \A code \in Nat : BadStatus(code) => Answered
  BY <1>2, <1>4 DEF BadStatus
<1>6. NoAnswer => Answered
  BY <1>2, <1>4 DEF NoAnswer
<1>7. PostJson => Answered
  BY <1>5, <1>6 DEF PostJson
<1>8. RunCli \/ Unusable => Answered
  <2>1. StepFailed(503) => Answered
    BY TurnFails DEF Answered, Final
  <2>2. StepFailed(502) => Answered
    BY TurnFails DEF Answered, Final
  <2>3. StepFailed(None) => Answered
    BY TurnFails DEF Answered, Final
  <2> QED
    BY <2>1, <2>2, <2>3 DEF RunCli, Unusable
<1>9. GoTo("bridge") => Answered
  BY TurnGoes DEF Answered, UnderWay
<1> QED
  BY <1>3, <1>5, <1>6, <1>7, <1>8, <1>9

\* Nothing is done or told while the run is under way.
LEMMA UnderWayKeeps ==
  ASSUME GInv, turn.pc \in UnderWay, Answered, UNCHANGED <<ask, told, booked, ending, deeds>>
  PROVE  GInv'
<1>1. GTypes'
  BY DEF GInv, GTypes, Answered
<1>2. GoesOn' /\ Len(deeds') = Len(told') /\ (\A i \in 1..Len(told') : Acted(i)')
  BY DEF GInv, Flow, GoesOn, Loops, Acted
<1>3. Story'
  <2>1. \A d \in 1..Len(deeds') : deeds'[d].step = d
    BY DEF GInv, Story
  <2>2. Len(told') \in Nat
    BY TurnFields DEF GInv
  <2> QED
    BY <1>2, <2>1, <2>2 DEF Story
<1>4. Flow'
  <2>1. turn'.pc \in UnderWay \cup {"log"}
    BY DEF Answered
  <2>2. turn'.pc = "log" => Reported(turn.result)'
    BY <1>2 DEF Answered, Reported, Final, UnderWay
  <2>3. turn'.pc \notin {"book", "guard", "answer", "summary"}
    BY <2>1 DEF UnderWay
  <2> QED
    BY <1>2, <2>1, <2>2, <2>3 DEF Flow
<1>5. BookKept'
  BY DEF GInv, BookKept, Answered
<1>6. LoopGuarded'
  BY DEF GInv, LoopGuarded
<1> QED
  BY <1>1, <1>3, <1>4, <1>5, <1>6 DEF GInv

\* The coroutine ends at once.
LEMMA EndKeeps ==
  ASSUME GInv, GoTo("over"), ending' \in {"raised", "cancelled"}, UNCHANGED <<ask, told, booked, deeds>>
  PROVE  GInv'
<1>1. turn' \in Turns /\ turn'.pc = "over"
  BY TurnGoes DEF GInv
<1>2. GTypes'
  BY <1>1 DEF GInv, GTypes
<1>3. Story'
  <2>1. \A i \in 1..Len(told') : Acted(i)' \/ LastStep(i)'
    BY DEF GInv, Story, Acted, LastStep
  <2> QED
    BY <2>1 DEF GInv, Story
<1>4. Flow'
  BY <1>1 DEF Flow, UnderWay
<1>5. BookKept'
  BY <1>1 DEF GInv, BookKept, UnderWay
<1>6. LoopGuarded'
  BY DEF GInv, LoopGuarded
<1> QED
  BY <1>2, <1>3, <1>4, <1>5, <1>6 DEF GInv

\* Something is done to the page.
LEMMA DeedTypes ==
  ASSUME GTypes, turn.act \in Act, NEW low \in BOOLEAN, deeds' = Append(deeds, Deed(low)), UNCHANGED told
  PROVE  /\ deeds' \in Seq([act : Decisions, low : BOOLEAN, step : Nat])
         /\ Len(deeds') = Len(deeds) + 1 /\ \A d \in 1..Len(deeds) : deeds'[d] = deeds[d]
         /\ deeds'[Len(deeds) + 1].act = turn.act /\ deeds'[Len(deeds) + 1].low = low
         /\ deeds'[Len(deeds) + 1].step = Len(told) + 1
<1> DEFINE deed == Deed(low)
<1>1. deed \in [act : Decisions, low : BOOLEAN, step : Nat]
  BY TurnFields DEF Deed, StepNow, Decisions
<1>2. deed.act = turn.act /\ deed.low = low /\ deed.step = Len(told) + 1
  BY DEF Deed, StepNow
<1>3. deeds' = Append(deeds, deed) /\ deeds \in Seq([act : Decisions, low : BOOLEAN, step : Nat])
  BY DEF GTypes
<1> HIDE DEF deed
<1>4. /\ deeds' \in Seq([act : Decisions, low : BOOLEAN, step : Nat])
      /\ Len(deeds') = Len(deeds) + 1 /\ \A d \in 1..Len(deeds) : deeds'[d] = deeds[d]
      /\ deeds'[Len(deeds) + 1] = deed
  BY <1>1, <1>3, AppendProperties
<1> QED
  BY <1>2, <1>4

\* What is done next is no fourth fruitless action: the guard has looked at the three before it.
LEMMA DeedGuarded ==
  ASSUME GInv, turn.pc = "execute", turn.act \in Act, NEW low \in BOOLEAN,
         deeds' = Append(deeds, Deed(low)), UNCHANGED told
  PROVE  LoopGuarded'
<1> DEFINE n == Len(deeds)
<1>1. /\ deeds' \in Seq([act : Decisions, low : BOOLEAN, step : Nat])
      /\ Len(deeds') = n + 1 /\ \A d \in 1..n : deeds'[d] = deeds[d]
  BY DeedTypes DEF GInv
<1>2. n \in Nat /\ DOMAIN deeds = 1..n /\ DOMAIN deeds' = 1..(n + 1)
  BY <1>1 DEF GInv, GTypes
<1>3. n = Len(told) /\ ~ Loops(told) /\ \A i \in 1..Len(told) : Acted(i)
  BY DEF GInv, Flow, GoesOn, UnderWay
<1> HIDE DEF n
<1> SUFFICES ASSUME NEW i \in 1..(n + 1), i + 3 \in 1..(n + 1),
                    \A k \in i .. i + 3 : deeds'[k].low /\ Signature(deeds'[k].act) = Signature(deeds'[i].act)
             PROVE  FALSE
  BY <1>2 DEF LoopGuarded
<1>4. CASE i + 3 \in 1..n
  <2>1. \A k \in i .. i + 3 : k \in 1..n /\ deeds'[k] = deeds[k]
    BY <1>1, <1>2, <1>4
  <2>2. i \in i .. i + 3 /\ i \in 1..n
    BY <1>2, <1>4
  <2>3. \A k \in i .. i + 3 : deeds[k].low /\ Signature(deeds[k].act) = Signature(deeds[i].act)
    BY <2>1, <2>2
  <2> QED
    BY <2>2, <2>3, <1>2, <1>4 DEF GInv, LoopGuarded
<1>5. CASE i + 3 = n + 1
  <2>1. n >= 3 /\ i = n - 2 /\ i \in i .. i + 3
    BY <1>2, <1>5
  <2>2. \A k \in n - 2 .. n : k \in 1..n /\ k \in i .. i + 3 /\ deeds'[k] = deeds[k]
    BY <1>1, <1>2, <2>1
  <2>3. \A k \in n - 2 .. n : told[k].status = "acted" /\ deeds[k].act = told[k].act /\ deeds[k].low = told[k].low
    BY <1>3, <2>2 DEF Acted
  <2>4. \A k \in n - 2 .. n : told[k].low /\ Signature(told[k].act) = Signature(deeds'[i].act)
    <3> SUFFICES ASSUME NEW k \in n - 2 .. n
                 PROVE  told[k].low /\ Signature(told[k].act) = Signature(deeds'[i].act)
      OBVIOUS
    <3>1. deeds'[k].low /\ Signature(deeds'[k].act) = Signature(deeds'[i].act)
      BY <2>2
    <3>2. told[k].act = deeds'[k].act /\ told[k].low = deeds'[k].low
      BY <2>2, <2>3
    <3> QED
      BY <3>1, <3>2, Zenon
  <2>5. n \in n - 2 .. n
    BY <1>2, <2>1
  <2>6. \A k \in n - 2 .. n : Signature(told[k].act) = Signature(told[n].act)
    BY <2>4, <2>5
  <2>7. Len(told) - 3 + 1 .. Len(told) = n - 2 .. n /\ Len(told) >= 3
    BY <1>2, <1>3, <2>1
  <2>8. SameAgain(told, 3)
    BY <2>3, <2>4, <2>6, <2>7, <1>3 DEF SameAgain
  <2> QED
    BY <2>8, <1>3 DEF Loops
<1> QED
  BY <1>2, <1>4, <1>5

\* An action of a step is done and reported, or done and cut off.
LEMMA DeedKeeps ==
  ASSUME GInv, turn.pc = "execute", turn.act \in Act, NEW low \in BOOLEAN,
         deeds' = Append(deeds, Deed(low)), UNCHANGED <<ask, told, booked>>, turn' \in Turns,
         \/ ending' = "cancelled" /\ turn'.pc = "over"
         \/ /\ ending' = ending /\ turn'.pc = "log"
            /\ \/ /\ turn'.result.status = "acted" /\ turn'.result.code = None
                  /\ turn'.result.act = turn.act /\ turn'.result.low = low
               \/ turn'.result.status = "error" /\ turn'.result.code = None
  PROVE  GInv'
<1> DEFINE n == Len(deeds)
<1>1. /\ deeds' \in Seq([act : Decisions, low : BOOLEAN, step : Nat])
      /\ Len(deeds') = n + 1 /\ \A d \in 1..n : deeds'[d] = deeds[d]
      /\ deeds'[n + 1].act = turn.act /\ deeds'[n + 1].low = low /\ deeds'[n + 1].step = Len(told) + 1
  BY DeedTypes DEF GInv
<1>2. n \in Nat /\ n = Len(told) /\ GoesOn
  BY TurnFields DEF GInv, Flow, UnderWay
<1> HIDE DEF n
<1>3. \A i \in 1..Len(told') : Acted(i)'
  <2> SUFFICES ASSUME NEW i \in 1..Len(told) PROVE Acted(i)'
    OBVIOUS
  <2>1. Acted(i) /\ i \in 1..n /\ deeds'[i] = deeds[i] /\ i <= Len(deeds')
    BY <1>1, <1>2 DEF GoesOn
  <2> QED
    BY <2>1 DEF Acted
<1>4. GTypes'
  BY <1>1 DEF GInv, GTypes
<1>5. Story'
  <2>1. \A d \in 1..Len(deeds') : deeds'[d].step = d
    <3> SUFFICES ASSUME NEW d \in 1..(n + 1) PROVE deeds'[d].step = d
      BY <1>1
    <3>1. CASE d = n + 1
      BY <3>1, <1>1, <1>2
    <3>2. CASE d \in 1..n
      <4>1. deeds[d].step = d
        BY <3>2 DEF GInv, Story, n
      <4> QED
        BY <3>2, <4>1, <1>1
    <3>3. d = n + 1 \/ d \in 1..n
      BY <1>2
    <3> QED
      BY <3>1, <3>2, <3>3
  <2>2. Len(deeds') <= Len(told') + 1
    BY <1>1, <1>2
  <2>3. turn'.pc = "log" \/ ending' \in {"raised", "cancelled"}
    OBVIOUS
  <2> QED
    BY <1>3, <2>1, <2>2, <2>3 DEF Story
<1>6. Flow'
  <2>1. CASE turn'.pc = "over"
    BY <2>1 DEF Flow, UnderWay
  <2>2. CASE ending' = ending /\ turn'.pc = "log"
    <3>1. GoesOn'
      BY <1>2, <1>3, <2>2 DEF GoesOn, Loops
    <3>2. Reported(turn.result)'
      <4>1. Len(deeds') = Len(told') + 1
        BY <1>1, <1>2
      <4>2. CASE turn'.result.status = "error" /\ turn'.result.code = None
        BY <4>2 DEF Reported, Final
      <4>3. CASE /\ turn'.result.status = "acted" /\ turn'.result.code = None
                 /\ turn'.result.act = turn.act /\ turn'.result.low = low
        BY <4>1, <4>3, <1>1 DEF Reported
      <4> QED
        BY <2>2, <4>2, <4>3
    <3> QED
      BY <2>2, <3>1, <3>2 DEF Flow, UnderWay
  <2> QED
    BY <2>1, <2>2
<1>7. BookKept'
  <2>1. ask.kind = "run" /\ ask.caller = "job" => booked = Len(told)
    BY DEF GInv, BookKept, UnderWay
  <2>2. Len(deeds') <= Len(told) + 1
    BY <1>1, <1>2
  <2> QED
    BY <2>1, <2>2 DEF BookKept
<1>8. LoopGuarded'
  BY DeedGuarded
<1> QED
  BY <1>4, <1>5, <1>6, <1>7, <1>8 DEF GInv

\* A step is told: it was an action, or it is the last.
LEMMA StepTold ==
  ASSUME GInv, \A i \in 1..Len(told) : Acted(i), NEW result \in Results, told' = Append(told, result),
         deeds' = deeds, turn'.pc # "log", Len(deeds) <= Len(told) + 1,
         \/ /\ result.status = "acted" /\ result.code = None /\ Len(deeds) = Len(told) + 1
            /\ deeds[Len(deeds)].act = result.act /\ deeds[Len(deeds)].low = result.low
         \/ /\ result.status \in Final
            /\ Len(deeds) = Len(told) + 1 =>
                 result.status = "error" /\ result.code = None /\ ending' \in {None, "error", "raised", "cancelled"}
  PROVE  Story' /\ told' \in Seq(Results) /\ told' # <<>> /\ Len(told') = Len(told) + 1
<1> DEFINE n == Len(told) + 1
<1>1. /\ told' \in Seq(Results) /\ told' # <<>> /\ Len(told') = n /\ told'[n] = result
      /\ \A i \in 1..Len(told) : told'[i] = told[i]
  BY AppendProperties DEF GInv, GTypes
<1>2. Len(told) \in Nat /\ Len(deeds) \in Nat /\ n \in Nat /\ n = Len(told) + 1
  BY TurnFields DEF GInv
<1> HIDE DEF n
<1>3. ASSUME NEW i \in 1..n PROVE Acted(i)' \/ LastStep(i)'
  <2>1. CASE i \in 1..Len(told)
    <3>1. Acted(i) /\ told'[i] = told[i]
      BY <2>1, <1>1
    <3> QED
      BY <3>1 DEF Acted
  <2>2. CASE i = n /\ result.status = "acted"
    BY <2>2, <1>1, <1>2 DEF Acted, Final
  <2>3. CASE i = n /\ result.status \in Final
    <3>1. Len(deeds) = n =>
            result.status = "error" /\ result.code = None /\ ending' \in {None, "error", "raised", "cancelled"}
      BY <2>3, <1>2 DEF Final
    <3> QED
      BY <2>3, <3>1, <1>1, <1>2 DEF LastStep
  <2>4. i \in 1..Len(told) \/ i = n
    BY <1>2
  <2> QED
    BY <2>1, <2>2, <2>3, <2>4
<1>4. \A d \in 1..Len(deeds') : deeds'[d].step = d
  BY DEF GInv, Story
<1>5. Len(deeds') <= Len(told')
  BY <1>1, <1>2
<1>6. Story'
  BY <1>1, <1>2, <1>3, <1>4, <1>5 DEF Story
<1> QED
  BY <1>1, <1>2, <1>6

LEMMA LogStepKeeps == ASSUME GInv, LogStep PROVE GInv'
<1>1. turn.pc = "log" /\ UNCHANGED <<ask, booked, deeds>>
  BY DEF LogStep, Running
<1>2. GoesOn /\ Reported(turn.result) /\ turn.result \in Results
  BY <1>1, TurnFields DEF GInv, Flow
<1>3. CASE alive
  <2> DEFINE pc == IF ask.kind = "step" THEN "answer" ELSE IF ask.caller = "job" THEN "book" ELSE "guard"
  <2>1. told' = Append(told, turn.result) /\ GoTo(pc) /\ UNCHANGED ending
    BY <1>3 DEF LogStep
  <2>2. /\ pc \in {"answer", "book", "guard"}
        /\ ask.kind = "run" /\ ask.caller = "job" => pc = "book"
    OBVIOUS
  <2> HIDE DEF pc
  <2>3. turn' \in Turns /\ turn'.pc = pc
    BY <2>1, <2>2, TurnGoes DEF GInv
  <2>4. Len(told) \in Nat /\ Len(deeds) \in Nat /\ Len(deeds) <= Len(told) + 1
    BY TurnFields DEF GInv, Story
  <2>5. Story' /\ told' \in Seq(Results) /\ told' # <<>> /\ Len(told') = Len(told) + 1
    <3>1. \A i \in 1..Len(told) : Acted(i)
      BY <1>2 DEF GoesOn
    <3>2. ending' = None
      BY <1>2, <2>1 DEF GoesOn
    <3>3. CASE turn.result.status = "acted"
      BY <1>1, <1>2, <2>1, <2>2, <2>3, <2>4, <3>1, <3>3, StepTold DEF Reported
    <3>4. CASE turn.result.status # "acted"
      <4>1. turn.result.status \in Final
        BY <1>2, <3>4 DEF Reported
      <4>2. Len(deeds) = Len(told) + 1 => turn.result.status = "error" /\ turn.result.code = None
        BY <1>2, <2>4, <3>4 DEF Reported
      <4> QED
        BY <1>1, <1>2, <2>1, <2>2, <2>3, <2>4, <3>1, <3>2, <4>1, <4>2, StepTold
    <3> QED
      BY <3>3, <3>4
  <2>6. GTypes'
    BY <1>1, <2>3, <2>5 DEF GInv, GTypes
  <2>7. Flow'
    <3>1. ending' = None /\ Len(deeds') <= Len(told')
      BY <1>1, <1>2, <2>1, <2>4, <2>5 DEF GoesOn
    <3> QED
      BY <2>2, <2>3, <2>5, <3>1 DEF Flow, UnderWay
  <2>8. BookKept'
    BY <1>1, <2>2, <2>3 DEF GInv, BookKept, UnderWay
  <2>9. LoopGuarded'
    BY <1>1 DEF GInv, LoopGuarded
  <2> QED
    BY <2>5, <2>6, <2>7, <2>8, <2>9 DEF GInv
<1>4. CASE ~ alive
  BY <1>1, <1>4, EndKeeps DEF LogStep, Raised
<1> QED
  BY <1>3, <1>4

LEMMA GuardKeeps == ASSUME GInv, GuardTakesOver PROVE GInv'
<1>1. turn.pc = "guard" /\ Loops(told) /\ UNCHANGED <<ask, booked, deeds>>
  BY DEF GuardTakesOver, Running
<1>2. CASE alive
  <2> DEFINE result == [NoResult EXCEPT !.status = "takeover"]
  <2>1. told' = Append(told, result) /\ ending' = "takeover" /\ GoTo("summary")
    BY <1>2 DEF GuardTakesOver
  <2>2. result \in Results /\ result.status = "takeover"
    BY ResultTypes DEF NoResult
  <2> HIDE DEF result
  <2>3. turn' \in Turns /\ turn'.pc = "summary"
    BY <2>1, TurnGoes DEF GInv
  <2>4. Len(told) \in Nat /\ Len(deeds) \in Nat /\ Len(deeds) <= Len(told)
    BY <1>1, TurnFields DEF GInv, Flow
  <2>5. \A i \in 1..Len(told) : Acted(i)
    <3>1. Len(told) >= 3 /\ told[Len(told)].status = "acted"
      BY <1>1, <2>4 DEF Loops, SameAgain
    <3>2. told[Len(told)].status \notin Final
      BY <3>1 DEF Final
    <3> QED
      BY <3>2 DEF GInv, Story, LastStep
  <2>6. Story' /\ told' \in Seq(Results) /\ told' # <<>> /\ Len(told') = Len(told) + 1
    <3>1. result.status \in Final /\ Len(deeds) # Len(told) + 1 /\ Len(deeds) <= Len(told) + 1
      BY <2>2, <2>4 DEF Final
    <3> QED
      BY <1>1, <2>1, <2>2, <2>3, <2>5, <3>1, StepTold
  <2>7. GTypes'
    BY <1>1, <2>3, <2>6 DEF GInv, GTypes
  <2>8. Flow'
    BY <1>1, <2>3, <2>4, <2>6 DEF Flow, UnderWay
  <2>9. BookKept'
    BY <1>1, <2>3 DEF GInv, BookKept, UnderWay
  <2>10. LoopGuarded'
    BY <1>1 DEF GInv, LoopGuarded
  <2> QED
    BY <2>6, <2>7, <2>8, <2>9, <2>10 DEF GInv
<1>3. CASE ~ alive
  BY <1>1, <1>3, EndKeeps DEF GuardTakesOver, Raised
<1> QED
  BY <1>2, <1>3

\* The coroutine moves on after a step, and nothing else happens.
LEMMA MoveKeeps ==
  ASSUME GInv, turn.pc \in {"book", "guard", "answer", "summary"}, UNCHANGED <<ask, told, deeds>>,
         NEW pc \in {"guard", "summary", "over"}, GoTo(pc), booked' \in Nat,
         pc = "guard" => ending' = None /\ told # <<>>,
         \/ booked' = Len(told)
         \/ booked' = booked /\ pc # "guard",
         \/ ending' = ending
         \/ told # <<>> /\ ending' = told[Len(told)].status
         \/ told # <<>> /\ told[Len(told)].status \notin Final
  PROVE  GInv'
<1>1. turn' \in Turns /\ turn'.pc = pc
  BY TurnGoes DEF GInv
<1>2. GTypes'
  BY <1>1 DEF GInv, GTypes
<1>3. Len(told) \in Nat /\ Len(deeds) \in Nat /\ Len(deeds) <= Len(told)
  BY TurnFields DEF GInv, Flow
<1>4. Story'
  <2>1. ASSUME NEW i \in 1..Len(told) PROVE Acted(i)' \/ LastStep(i)'
    <3>1. CASE Acted(i)
      BY <3>1 DEF Acted
    <3>2. CASE LastStep(i)
      <4>1. ending' = ending \/ ending' = told[i].status
        BY <3>2 DEF LastStep
      <4> QED
        BY <3>2, <4>1 DEF LastStep
    <3> QED
      BY <3>1, <3>2 DEF GInv, Story
  <2>2. \A d \in 1..Len(deeds') : deeds'[d].step = d
    BY DEF GInv, Story
  <2> QED
    BY <1>3, <2>1, <2>2 DEF Story
<1>5. Flow'
  BY <1>1, <1>3 DEF Flow, UnderWay
<1>6. BookKept'
  BY <1>1, <1>3 DEF GInv, BookKept, UnderWay
<1>7. LoopGuarded'
  BY DEF GInv, LoopGuarded
<1> QED
  BY <1>2, <1>4, <1>5, <1>6, <1>7 DEF GInv

LEMMA NextStepKeeps == ASSUME GInv, NextStep PROVE GInv'
<1>1. turn.pc = "guard" /\ ~ Loops(told) /\ UNCHANGED <<ask, told, booked, deeds>>
  BY DEF NextStep, Running
<1>2. ending = None /\ told # <<>> /\ Len(deeds) <= Len(told) /\ booked \in Nat
  BY <1>1 DEF GInv, Flow, GTypes
<1>3. CASE Latest \in Final
  <2>1. ending' = told[Len(told)].status /\ GoTo("summary")
    BY <1>3 DEF NextStep, Latest
  <2> QED
    BY <1>1, <1>2, <2>1, MoveKeeps
<1>4. CASE Latest \notin Final /\ Len(told) = ask.steps
  <2>1. GoTo("summary") /\ told[Len(told)].status \notin Final
    BY <1>4 DEF NextStep, Latest
  <2> QED
    BY <1>1, <1>2, <2>1, MoveKeeps
<1>5. CASE Latest \notin Final /\ Len(told) # ask.steps
  <2>1. GoTo("step") /\ ending' = ending
    BY <1>5 DEF NextStep
  <2>2. turn' \in Turns /\ turn'.pc = "step"
    BY <2>1, TurnGoes DEF GInv, UnderWay
  <2>3. \A i \in 1..Len(told) : Acted(i)
    BY <1>5 DEF GInv, Story, LastStep, Latest
  <2>4. Len(deeds) = Len(told) /\ Len(told) \in Nat
    <3>1. Len(told) \in 1..Len(told) /\ Len(told) \in Nat /\ Len(deeds) \in Nat
      BY <1>2, TurnFields DEF GInv, GTypes
    <3>2. Len(told) <= Len(deeds)
      BY <2>3, <3>1 DEF Acted
    <3> QED
      BY <1>2, <3>1, <3>2
  <2>5. GTypes'
    BY <1>1, <2>2 DEF GInv, GTypes
  <2>6. GoesOn' /\ \A i \in 1..Len(told') : Acted(i)'
    BY <1>1, <1>2, <2>1, <2>3 DEF GoesOn, Acted, Loops
  <2>7. Story'
    <3>1. \A d \in 1..Len(deeds') : deeds'[d].step = d
      BY <1>1 DEF GInv, Story
    <3> QED
      BY <1>1, <2>4, <2>6, <3>1 DEF Story
  <2>8. Flow'
    BY <1>1, <2>2, <2>4, <2>6 DEF Flow, UnderWay
  <2>9. BookKept'
    BY <1>1, <2>2 DEF GInv, BookKept, UnderWay
  <2>10. LoopGuarded'
    BY <1>1 DEF GInv, LoopGuarded
  <2> QED
    BY <2>5, <2>7, <2>8, <2>9, <2>10 DEF GInv
<1> QED
  BY <1>3, <1>4, <1>5

LEMMA PerformKeeps == ASSUME GInv, Perform PROVE GInv'
<1>1. turn.pc = "execute" /\ turn.act \in Act /\ UNCHANGED <<ask, told, booked, ending>>
  BY DEF Perform, Running
<1>2. turn.act \in Decisions /\ GTypes
  BY <1>1 DEF Decisions, GInv
<1>3. ASSUME NEW low \in BOOLEAN, Report([OutcomeOf("acted") EXCEPT !.low = low]), deeds' = Append(deeds, Deed(low))
      PROVE  GInv'
  <2> DEFINE result == [OutcomeOf("acted") EXCEPT !.low = low]
  <2>1. /\ result \in Results /\ result.status = "acted" /\ result.code = None
        /\ result.act = turn.act /\ result.low = low
    BY <1>2 DEF OutcomeOf, Results
  <2>2. Report(result)
    BY <1>3
  <2> HIDE DEF result
  <2>3. turn' \in Turns /\ turn'.pc = "log" /\ turn'.result = result
    BY <1>2, <2>1, <2>2, TurnReports
  <2> QED
    BY <1>1, <1>3, <2>1, <2>3, DeedKeeps
<1>4. ASSUME StepFailed(None), deeds' = Append(deeds, Deed(FALSE)) PROVE GInv'
  <2>1. /\ turn' \in Turns /\ turn'.pc = "log" /\ turn'.result.status = "error" /\ turn'.result.code = None
    BY <1>2, <1>4, TurnFails
  <2> QED
    BY <1>1, <1>4, <2>1, DeedKeeps
<1>5. ASSUME Report(OutcomeOf("approval_required")) \/ StepFailed(None), UNCHANGED deeds PROVE GInv'
  <2>1. OutcomeOf("approval_required") \in Results /\ OutcomeOf("approval_required").status \in Final
    BY <1>2 DEF OutcomeOf, Results, Final
  <2>2. Answered
    BY <1>2, <1>5, <2>1, TurnReports, TurnFails DEF Answered, Final
  <2> QED
    BY <1>1, <1>5, <2>2, UnderWayKeeps DEF UnderWay
<1> QED
  BY <1>3, <1>4, <1>5 DEF Perform

LEMMA OffPageKeeps == ASSUME GInv, Done \/ TakeOver PROVE GInv'
<1>1. turn.pc = "execute" /\ UNCHANGED <<ask, told, booked, ending, deeds>> /\ turn.act \in {Finished, HandOver}
  BY DEF Done, TakeOver, Running
<1>2. GTypes /\ turn.act \in Decisions
  BY <1>1 DEF Decisions, GInv
<1>3. \A status \in {"done", "takeover"} : OutcomeOf(status) \in Results /\ OutcomeOf(status).status \in Final
  BY <1>2 DEF OutcomeOf, Results, Final
<1>4. Answered
  <2>1. Report(OutcomeOf("done")) \/ Report(OutcomeOf("takeover")) \/ StepFailed(None)
    BY DEF Done, TakeOver
  <2> QED
    BY <1>2, <1>3, <2>1, TurnReports, TurnFails DEF Answered, Final
<1> QED
  BY <1>1, <1>4, UnderWayKeeps DEF UnderWay

LEMMA ProviderKeeps ==
  ASSUME GInv, \/ NotConfigured \/ OpenAIByApi \/ OpenAIByCli \/ ClaudeByApi \/ ClaudeByCli
               \/ GeminiByApi \/ GeminiByCli \/ PostToBridge \/ BridgeTimesOut
  PROVE  GInv'
<1>1. GTypes
  BY DEF GInv
<1>2. turn.pc \in {"ask", "bridge"} /\ UNCHANGED <<ask, told, booked, ending, deeds>>
  BY DEF NotConfigured, OpenAIByApi, OpenAIByCli, ClaudeByApi, ClaudeByCli, GeminiByApi, GeminiByCli,
         PostToBridge, BridgeTimesOut, Asking, Running
<1>3. \/ StepFailed(None) \/ NoAnswer \/ PostJson \/ RunCli \/ Decide \/ Unusable \/ GoTo("bridge")
  BY DEF NotConfigured, OpenAIByApi, OpenAIByCli, ClaudeByApi, ClaudeByCli, GeminiByApi, GeminiByCli,
         PostToBridge, BridgeTimesOut
<1>4. StepFailed(None) => Answered
  BY <1>1, TurnFails DEF Answered, Final
<1>5. Answered
  BY <1>1, <1>3, <1>4, AnswersOfProvider
<1> QED
  BY <1>2, <1>5, UnderWayKeeps DEF UnderWay

\* Nothing that the run tells or did is touched.
LEMMA RestKeeps == ASSUME GInv, UNCHANGED <<ask, turn, told, booked, ending, deeds>> PROVE GInv'
<1>1. GTypes' /\ LoopGuarded' /\ BookKept'
  BY DEF GInv, GTypes, LoopGuarded, BookKept
<1>2. Story'
  BY DEF GInv, Story, Acted, LastStep
<1>3. Flow'
  BY DEF GInv, Flow, GoesOn, Reported, Acted, Loops
<1> QED
  BY <1>1, <1>2, <1>3 DEF GInv

LEMMA BridgeKeeps == ASSUME GInv, BridgeAnswers PROVE GInv'
<1>1. UNCHANGED <<ask, told, booked, ending, deeds>>
  BY DEF BridgeAnswers
<1>2. \/ UNCHANGED turn
      \/ turn.pc = "bridge" /\ (Decide \/ Unusable \/ \E code \in {400, 500, 502, 504} : BadStatus(code))
  BY DEF BridgeAnswers
<1>3. CASE UNCHANGED turn
  BY <1>1, <1>3, RestKeeps
<1>4. CASE turn.pc = "bridge" /\ (Decide \/ Unusable \/ \E code \in {400, 500, 502, 504} : BadStatus(code))
  <2>1. Answered
    BY <1>4, AnswersOfProvider DEF GInv
  <2> QED
    BY <1>1, <1>4, <2>1, UnderWayKeeps DEF UnderWay
<1> QED
  BY <1>2, <1>3, <1>4

LEMMA ObserveKeeps == ASSUME GInv, Observe PROVE GInv'
<1>1. turn.pc = "step" /\ UNCHANGED <<ask, told, booked, deeds>>
  BY DEF Observe, Running
<1>2. CASE turn' = [turn EXCEPT !.pc = "ask", !.attempt = 1] /\ UNCHANGED ending
  <2>1. Answered
    BY <1>2 DEF GInv, GTypes, Turns, Answered, UnderWay
  <2> QED
    BY <1>1, <1>2, <2>1, UnderWayKeeps DEF UnderWay
<1>3. CASE Raised
  BY <1>1, <1>3, EndKeeps DEF Raised
<1> QED
  BY <1>2, <1>3 DEF Observe

LEMMA CancelKeeps == ASSUME GInv, CancelRun PROVE GInv'
<1>1. ending' = "cancelled" /\ GoTo("over") /\ UNCHANGED <<ask, told, booked>>
  BY DEF CancelRun
<1>2. CASE UNCHANGED deeds
  BY <1>1, <1>2, EndKeeps
<1>3. CASE turn.pc = "execute" /\ turn.act \in Act /\ deeds' = Append(deeds, Deed(FALSE))
  <2>1. turn' \in Turns /\ turn'.pc = "over"
    BY <1>1, TurnGoes DEF GInv
  <2> QED
    BY <1>1, <1>3, <2>1, DeedKeeps
<1> QED
  BY <1>2, <1>3 DEF CancelRun

LEMMA GInvInit == GInit => GInv
<1> SUFFICES ASSUME GInit PROVE GInv
  OBVIOUS
<1>1. /\ turn = [pc |-> "step", attempt |-> 1, act |-> None, result |-> NoResult]
      /\ told = <<>> /\ booked = 0 /\ ending = None /\ deeds = <<>>
  BY DEF GInit
<1>2. GTypes
  <2>1. turn \in Turns
    BY <1>1, ResultTypes DEF Turns, UnderWay
  <2>2. told \in Seq(Results) /\ deeds \in Seq([act : Decisions, low : BOOLEAN, step : Nat])
    BY <1>1
  <2> QED
    BY <1>1, <2>1, <2>2 DEF GTypes
<1>3. turn.pc = "step" /\ Len(told) = 0 /\ Len(deeds) = 0
  BY <1>1
<1>4. ~ Loops(told)
  BY <1>3 DEF Loops, SameAgain
<1>5. Story /\ Flow /\ BookKept
  BY <1>1, <1>3, <1>4 DEF Story, Flow, GoesOn, BookKept, UnderWay
<1>6. LoopGuarded
  BY <1>1 DEF LoopGuarded
<1> QED
  BY <1>2, <1>5, <1>6 DEF GInv

LEMMA GInvKept == GInv /\ [GNext]_gvars => GInv'
<1> SUFFICES ASSUME GInv, [GNext]_gvars PROVE GInv'
  OBVIOUS
<1>1. CASE Observe
  BY <1>1, ObserveKeeps
<1>2. CASE \/ NotConfigured \/ OpenAIByApi \/ OpenAIByCli \/ ClaudeByApi \/ ClaudeByCli
           \/ GeminiByApi \/ GeminiByCli \/ PostToBridge \/ BridgeTimesOut
  BY <1>2, ProviderKeeps
<1>3. CASE BridgeAnswers
  BY <1>3, BridgeKeeps
<1>4. CASE Done \/ TakeOver
  BY <1>4, OffPageKeeps
<1>5. CASE Perform
  BY <1>5, PerformKeeps
<1>6. CASE LogStep
  BY <1>6, LogStepKeeps
<1>7. CASE BookStep
  <2>1. /\ turn.pc = "book" /\ UNCHANGED <<ask, told, ending, deeds>> /\ booked' = Len(told) /\ GoTo("guard")
    BY <1>7 DEF BookStep, Running
  <2>2. ending' = None /\ told # <<>> /\ booked' \in Nat
    BY <2>1, TurnFields DEF GInv, Flow
  <2> QED
    BY <2>1, <2>2, MoveKeeps
<1>8. CASE GuardTakesOver
  BY <1>8, GuardKeeps
<1>9. CASE NextStep
  BY <1>9, NextStepKeeps
<1>10. CASE Summary
  <2>1. turn.pc = "summary" /\ UNCHANGED <<ask, told, booked, deeds>> /\ booked \in Nat
    BY <1>10 DEF Summary, Running, GInv, GTypes
  <2>2. (GoTo("over") /\ ending' = ending) \/ Raised
    BY <1>10 DEF Summary
  <2>3. CASE GoTo("over") /\ ending' = ending
    BY <2>1, <2>3, MoveKeeps
  <2>4. CASE Raised
    BY <2>1, <2>4, EndKeeps DEF Raised
  <2> QED
    BY <2>2, <2>3, <2>4
<1>11. CASE AnswerStep
  <2>1. /\ turn.pc = "answer" /\ UNCHANGED <<ask, told, booked, deeds>> /\ booked \in Nat
        /\ ending' = told[Len(told)].status /\ GoTo("over")
    BY <1>11 DEF AnswerStep, Running, Latest, GInv, GTypes
  <2>2. told # <<>>
    BY <2>1 DEF GInv, Flow
  <2> QED
    BY <2>1, <2>2, MoveKeeps
<1>12. CASE CloseMeanwhile
  BY <1>12, RestKeeps DEF CloseMeanwhile
<1>13. CASE CancelRun
  BY <1>13, CancelKeeps
<1>14. CASE UNCHANGED gvars
  BY <1>14, RestKeeps DEF gvars
<1> QED
  BY <1>1, <1>2, <1>3, <1>4, <1>5, <1>6, <1>7, <1>8, <1>9, <1>10, <1>11, <1>12, <1>13, <1>14 DEF GNext

LEMMA GInvariant == GSpec => []GInv
BY GInvInit, GInvKept, PTL DEF GSpec

\* The page never gets the same fruitless action four times in a row, whatever the model behind
\* the provider decides (orchestrator._should_trigger_loop_takeover).
THEOREM LoopsEnd == GSpec => []LoopGuarded
<1>1. GInv => LoopGuarded
  BY DEF GInv
<1> QED
  BY <1>1, GInvariant, PTL

\* The steps of a run tell what was done to the page, but for what the last one did before it
\* failed or was cut off, and a job has saved all but the one it is at (orchestrator.step, run).
THEOREM StepsTell == GSpec => []EffectsTold
<1>1. ASSUME GInv PROVE EffectsTold
  <2>1. /\ Len(told) \in Nat /\ Len(deeds) \in Nat /\ DOMAIN told = 1..Len(told) /\ DOMAIN deeds = 1..Len(deeds)
    BY <1>1, TurnFields DEF GInv, GTypes
  <2>2. /\ \A d \in 1..Len(deeds) : deeds[d].step = d
        /\ Len(deeds) <= Len(told) + 1
        /\ Len(deeds) = Len(told) + 1 => turn.pc = "log" \/ ending \in {"raised", "cancelled"}
        /\ \A i \in 1..Len(told) : Acted(i) \/ LastStep(i)
    BY <1>1 DEF GInv, Story
  <2>7. Len(told) \in Nat /\ Len(deeds) \in Nat
    BY <2>1
  <2> DEFINE Mine(i) == {d \in DOMAIN deeds : deeds[d].step = i}
  <2>3. \A i : Mine(i) = {d \in 1..Len(deeds) : d = i}
    BY <2>1, <2>2
  <2> HIDE DEF Mine
  <2>4. ASSUME NEW i \in 1..Len(told)
        PROVE  /\ told[i].status = "acted" => Cardinality(Mine(i)) = 1 /\ \A d \in Mine(i) : deeds[d].act = told[i].act
               /\ told[i].code # None => Mine(i) = {}
               /\ told[i].status # "acted" /\ Mine(i) # {} =>
                    /\ told[i].status = "error" /\ Mine(i) = {Len(deeds)}
                    /\ ending \in {None, "error", "raised", "cancelled"}
    <3>1. CASE Acted(i)
      <4>1. Mine(i) = {i}
        BY <2>1, <2>3, <3>1 DEF Acted
      <4>2. Cardinality(Mine(i)) = 1
        BY <4>1, FS_Singleton
      <4> QED
        BY <3>1, <4>1, <4>2 DEF Acted
    <3>2. CASE LastStep(i)
      <4>1. told[i].status # "acted" /\ Len(deeds) <= i
        BY <3>2 DEF LastStep, Final
      <4>2. CASE Len(deeds) = i
        <5>1. Mine(i) = {Len(deeds)}
          BY <2>1, <2>3, <4>2
        <5> QED
          BY <3>2, <4>1, <4>2, <5>1 DEF LastStep
      <4>3. CASE Len(deeds) < i
        <5>1. Mine(i) = {}
          BY <2>1, <2>3, <4>3
        <5> QED
          BY <4>1, <4>3, <5>1, <3>2 DEF LastStep
      <4>4. Len(deeds) = i \/ Len(deeds) < i
        BY <2>7, <4>1
      <4> QED
        BY <4>2, <4>3, <4>4
    <3> QED
      BY <2>2, <3>1, <3>2
  <2>5. ASSUME NEW d \in 1..Len(deeds), deeds[d].step > Len(told)
        PROVE  d = Len(deeds) /\ (turn.pc = "log" \/ ending \in {"raised", "cancelled"})
    <3>1. d > Len(told)
      BY <2>2, <2>5
    <3>2. d = Len(deeds) /\ Len(deeds) = Len(told) + 1
      BY <2>2, <2>7, <3>1
    <3> QED
      BY <2>2, <3>2
  <2>6. ASSUME ask.kind = "run", ask.caller = "job", NEW d \in 1..Len(deeds), deeds[d].step > booked
        PROVE  d = Len(deeds)
    <3>1. Len(deeds) <= booked + 1 /\ booked \in Nat
      BY <1>1, <2>6 DEF GInv, BookKept, GTypes
    <3>2. d > booked
      BY <2>2, <2>6
    <3> QED
      BY <2>7, <3>1, <3>2
  <2> QED
    BY <2>1, <2>4, <2>5, <2>6 DEF EffectsTold, Mine
<1>2. GInv => EffectsTold
  BY <1>1
<1> QED
  BY <1>2, GInvariant, PTL

-----------------------------------------------------------------------------
(* The log of requests, for any number of requests and any lag and size.   *)
(*                                                                         *)
(* The handlers of a request wait in the order of its events, and the flush*)
(* is the last (Queue); while the first has not run, those of all later    *)
(* events are still to come (Later).  So what is pending has the handler of*)
(* its end before it, and what is logged has had it (Fates); a request is  *)
(* in one place, or was pushed out of a full log (Places).                 *)

Events == {"request", "response", "finished", "failed"}
Tasks == [does : Events, of : NetRequest] \cup {[does |-> "flush", of |-> None]}
Started == [status : BOOLEAN, failed : BOOLEAN]
Entries == Started \cup {None}
Rank(event) == CASE event = "request" -> 1 [] event = "response" -> 2 [] OTHER -> 3
Waits(event, r) == [does |-> event, of |-> r] \in Range(handlers)
Ended(r) == wire[r] \in {"finished", "failed"}

NTypes ==
  /\ wire \in [NetRequest -> Events \cup {None}] /\ attached \in BOOLEAN
  /\ handlers \in Seq(Tasks)
  /\ pending \in Seq(NetRequest) /\ recent \in Seq(NetRequest) /\ Len(recent) <= MaxEntries
  /\ bodies \subseteq NetRequest /\ entry \in [NetRequest -> Entries]

\* The handlers of a request wait in the order of its events, and the flush is the last.
Queue ==
  /\ \A i, j \in 1..Len(handlers) : i < j =>
       /\ handlers[i].does # "flush"
       /\ handlers[j].does # "flush" /\ handlers[i].of = handlers[j].of =>
            Rank(handlers[i].does) < Rank(handlers[j].does)
  /\ \A i \in 1..Len(handlers) :
       IF handlers[i].does = "flush" THEN ~ attached
       ELSE /\ wire[handlers[i].of] # None
            /\ Rank(handlers[i].does) <= Rank(wire[handlers[i].of])
            /\ Rank(handlers[i].does) = 3 => handlers[i].does = wire[handlers[i].of]

\* The later events of a request whose first handler waits are still to be handled.
Later ==
  \A r \in NetRequest : Waits("request", r) =>
    /\ wire[r] \in {"response", "finished"} => Waits("response", r)
    /\ Ended(r) => Waits(wire[r], r)

Entered(r) == wire[r] # None /\ ~ Waits("request", r) /\ r \notin SkippedRequests /\ entry[r] \in Started
HasStatus(r) == r \in bodies \/ entry[r].status

Places ==
  /\ IsInjective(recent) /\ IsInjective(pending) /\ Range(recent) \cap Range(pending) = {}
  /\ \A r \in Range(recent) \cup Range(pending) \cup bodies : Entered(r)
  /\ \A r \in NetRequest \ SkippedRequests :
       wire[r] # None /\ ~ Waits("request", r) => r \in Range(pending) \/ Kept(r)

\* What is pending has the handler of its end still before it; what is logged has had it.
Fates ==
  /\ \A r \in Range(pending) :
       /\ Ended(r) => Waits(wire[r], r)
       /\ wire[r] \in {"response", "finished"} => Waits("response", r) \/ HasStatus(r)
  /\ \A r \in Range(recent) :
       /\ Ended(r) \/ ~ attached
       /\ entry[r].failed <=> wire[r] # "finished"
       /\ wire[r] = "finished" => HasStatus(r)

Drained == ~ attached => Waits("flush", None) \/ (pending = <<>> /\ handlers = <<>>)

NInv == NTypes /\ Queue /\ Later /\ Places /\ Fates /\ Drained

LEMMA InRange ==
  ASSUME NEW S, NEW s \in Seq(S), NEW x
  PROVE  x \in Range(s) <=> \E i \in 1..Len(s) : s[i] = x
BY DEF Range

LEMMA RangeIn == ASSUME NEW S, NEW s \in Seq(S) PROVE Range(s) \subseteq S
BY DEF Range

LEMMA InjectiveSeq ==
  ASSUME NEW S, NEW s \in Seq(S)
  PROVE  IsInjective(s) <=> \A i, j \in 1..Len(s) : s[i] = s[j] => i = j
BY DEF IsInjective

LEMMA AppendRange ==
  ASSUME NEW S, NEW s \in Seq(S), NEW x \in S
  PROVE  /\ Append(s, x) \in Seq(S) /\ Len(Append(s, x)) = Len(s) + 1
         /\ Range(Append(s, x)) = Range(s) \cup {x}
         /\ IsInjective(s) /\ x \notin Range(s) => IsInjective(Append(s, x))
<1> DEFINE t == Append(s, x)
<1>1. /\ t \in Seq(S) /\ Len(t) = Len(s) + 1 /\ t[Len(s) + 1] = x /\ \A i \in 1..Len(s) : t[i] = s[i]
  BY AppendProperties
<1>2. Len(s) \in Nat
  OBVIOUS
<1> HIDE DEF t
<1>3. ASSUME NEW y PROVE y \in Range(t) <=> y \in Range(s) \cup {x}
  <2>1. y \in Range(t) <=> \E i \in 1..Len(s) + 1 : t[i] = y
    BY <1>1, InRange
  <2>2. y \in Range(s) <=> \E i \in 1..Len(s) : t[i] = y
    BY <1>1, InRange
  <2> QED
    BY <1>1, <1>2, <2>1, <2>2
<1>4. ASSUME IsInjective(s), x \notin Range(s) PROVE IsInjective(t)
  <2>1. \A i \in 1..Len(s) : t[i] # x
    BY <1>1, <1>4, InRange
  <2>2. \A i, j \in 1..Len(s) : t[i] = t[j] => i = j
    BY <1>1, <1>4, InjectiveSeq
  <2>3. \A i, j \in 1..Len(t) : t[i] = t[j] => i = j
    <3> SUFFICES ASSUME NEW i \in 1..Len(t), NEW j \in 1..Len(t), t[i] = t[j] PROVE i = j
      OBVIOUS
    <3>1. i \in 1..Len(s) \/ i = Len(s) + 1
      BY <1>1, <1>2
    <3>2. j \in 1..Len(s) \/ j = Len(s) + 1
      BY <1>1, <1>2
    <3> QED
      BY <1>1, <2>1, <2>2, <3>1, <3>2
  <2> QED
    BY <1>1, <2>3, InjectiveSeq
<1> QED
  BY <1>1, <1>3, <1>4 DEF t

LEMMA ConcatRange ==
  ASSUME NEW S, NEW s \in Seq(S), NEW t \in Seq(S)
  PROVE  /\ s \o t \in Seq(S) /\ Len(s \o t) = Len(s) + Len(t)
         /\ Range(s \o t) = Range(s) \cup Range(t)
         /\ IsInjective(s) /\ IsInjective(t) /\ Range(s) \cap Range(t) = {} => IsInjective(s \o t)
<1> DEFINE u == s \o t
<1>1. /\ u \in Seq(S) /\ Len(u) = Len(s) + Len(t)
      /\ \A i \in 1..Len(s) + Len(t) : u[i] = IF i <= Len(s) THEN s[i] ELSE t[i - Len(s)]
  BY ConcatProperties
<1>2. Len(s) \in Nat /\ Len(t) \in Nat
  OBVIOUS
<1> HIDE DEF u
<1>3. /\ \A i \in 1..Len(s) : i \in 1..Len(u) /\ u[i] = s[i]
      /\ \A j \in 1..Len(t) : Len(s) + j \in 1..Len(u) /\ u[Len(s) + j] = t[j]
  <2>1. ASSUME NEW i \in 1..Len(s) PROVE i \in 1..Len(u) /\ u[i] = s[i]
    BY <1>1, <1>2
  <2>2. ASSUME NEW j \in 1..Len(t) PROVE Len(s) + j \in 1..Len(u) /\ u[Len(s) + j] = t[j]
    <3>1. Len(s) + j \in 1..Len(s) + Len(t) /\ ~ (Len(s) + j <= Len(s)) /\ Len(s) + j - Len(s) = j
      BY <1>2
    <3> QED
      BY <1>1, <3>1
  <2> QED
    BY <2>1, <2>2
<1>4. \A i \in 1..Len(u) : i \in 1..Len(s) \/ \E j \in 1..Len(t) : i = Len(s) + j
  <2> SUFFICES ASSUME NEW i \in 1..Len(u), i \notin 1..Len(s) PROVE \E j \in 1..Len(t) : i = Len(s) + j
    OBVIOUS
  <2>1. i - Len(s) \in 1..Len(t) /\ i = Len(s) + (i - Len(s))
    BY <1>1, <1>2
  <2> QED
    BY <2>1
<1>5. ASSUME NEW y PROVE y \in Range(u) <=> y \in Range(s) \cup Range(t)
  <2>1. y \in Range(u) <=> \E i \in 1..Len(u) : u[i] = y
    BY <1>1, InRange
  <2>2. y \in Range(s) <=> \E i \in 1..Len(s) : s[i] = y
    BY InRange
  <2>3. y \in Range(t) <=> \E i \in 1..Len(t) : t[i] = y
    BY InRange
  <2> QED
    BY <1>3, <1>4, <2>1, <2>2, <2>3
<1>6. ASSUME IsInjective(s), IsInjective(t), Range(s) \cap Range(t) = {} PROVE IsInjective(u)
  <2>1. \A i \in 1..Len(s), j \in 1..Len(t) : s[i] # t[j]
    <3>1. \A i \in 1..Len(s) : s[i] \in Range(s)
      BY InRange
    <3>2. \A i \in 1..Len(t) : t[i] \in Range(t)
      BY InRange
    <3> QED
      BY <1>6, <3>1, <3>2
  <2>2. /\ \A i, j \in 1..Len(s) : s[i] = s[j] => i = j
        /\ \A i, j \in 1..Len(t) : t[i] = t[j] => i = j
    BY <1>6, InjectiveSeq
  <2>3. ASSUME NEW i \in 1..Len(u), NEW j \in 1..Len(u), u[i] = u[j] PROVE i = j
    <3>1. CASE i \in 1..Len(s) /\ j \in 1..Len(s)
      BY <1>3, <2>2, <2>3, <3>1
    <3>2. CASE (\E k \in 1..Len(t) : i = Len(s) + k) /\ (\E k \in 1..Len(t) : j = Len(s) + k)
      <4>1. PICK k \in 1..Len(t) : i = Len(s) + k
        BY <3>2
      <4>2. PICK l \in 1..Len(t) : j = Len(s) + l
        BY <3>2
      <4>3. t[k] = t[l]
        BY <1>3, <2>3, <4>1, <4>2
      <4> QED
        BY <2>2, <4>1, <4>2, <4>3
    <3>3. CASE i \in 1..Len(s) /\ (\E k \in 1..Len(t) : j = Len(s) + k)
      BY <1>3, <2>1, <2>3, <3>3
    <3>4. CASE j \in 1..Len(s) /\ (\E k \in 1..Len(t) : i = Len(s) + k)
      BY <1>3, <2>1, <2>3, <3>4
    <3> QED
      BY <1>4, <3>1, <3>2, <3>3, <3>4
  <2> QED
    BY <1>1, <2>3, InjectiveSeq
<1> QED
  BY <1>1, <1>5, <1>6 DEF u

\* What a deque keeps of its items.
LEMMA BoundedKeeps ==
  ASSUME NEW S, NEW s \in Seq(S)
  PROVE  /\ Bounded(s) \in Seq(S) /\ Len(Bounded(s)) <= MaxEntries
         /\ Range(Bounded(s)) \subseteq Range(s)
         /\ Len(Bounded(s)) = MaxEntries \/ Bounded(s) = s
         /\ Len(s) >= MaxEntries => Len(Bounded(s)) = MaxEntries
         /\ IsInjective(s) => IsInjective(Bounded(s))
<1>1. MaxEntries \in Nat \ {0} /\ Len(s) \in Nat
  BY NetworkAssumption
<1>2. CASE Len(s) > MaxEntries
  <2> DEFINE from == Len(s) - MaxEntries  t == SubSeq(s, from + 1, Len(s))
  <2>1. from \in Nat /\ from + 1 \in Int /\ Len(s) - (from + 1) + 1 = MaxEntries /\ from + 1 <= Len(s)
    BY <1>1, <1>2
  <2>2. \A i \in from + 1 .. Len(s) : s[i] \in S
    BY <1>1, <2>1
  <2> HIDE DEF from
  <2>3. t \in Seq(S) /\ Len(t) = MaxEntries /\ \A i \in 1..MaxEntries : t[i] = s[from + 1 + i - 1]
    BY <1>1, <2>1, <2>2, SubSeqProperties
  <2>4. Bounded(s) = t
    BY <1>2 DEF Bounded, from
  <2> HIDE DEF t
  <2>5. \A i \in 1..Len(t) : from + i \in 1..Len(s) /\ t[i] = s[from + i]
    <3> SUFFICES ASSUME NEW i \in 1..MaxEntries PROVE from + i \in 1..Len(s) /\ t[i] = s[from + i]
      BY <2>3
    <3>1. t[i] = s[from + 1 + i - 1]
      BY <2>3
    <3>2. from + 1 + i - 1 = from + i /\ from + i \in 1..Len(s)
      BY <1>1, <2>1
    <3> QED
      BY <3>1, <3>2
  <2>6. Range(t) \subseteq Range(s)
    BY <2>3, <2>5, InRange
  <2>7. ASSUME IsInjective(s) PROVE IsInjective(t)
    <3>1. \A i, j \in 1..Len(s) : s[i] = s[j] => i = j
      BY <2>7, InjectiveSeq
    <3>2. ASSUME NEW i \in 1..Len(t), NEW j \in 1..Len(t), t[i] = t[j] PROVE i = j
      <4>1. s[from + i] = s[from + j]
        BY <2>5, <3>2
      <4>2. from + i = from + j
        BY <2>5, <3>1, <4>1
      <4> QED
        BY <2>1, <2>3, <4>2
    <3> QED
      BY <2>3, <3>2, InjectiveSeq
  <2> QED
    BY <1>1, <2>3, <2>4, <2>6, <2>7
<1>3. CASE ~ (Len(s) > MaxEntries)
  <2>1. Bounded(s) = s
    BY <1>3 DEF Bounded
  <2> QED
    BY <1>1, <1>3, <2>1
<1> QED
  BY <1>2, <1>3

\* What is left of a sequence, each of whose elements is there once, without one of them.
LEMMA RemoveAtRange ==
  ASSUME NEW S, NEW s \in Seq(S), NEW p \in 1..Len(s), IsInjective(s)
  PROVE  /\ RemoveAt(s, p) \in Seq(S) /\ IsInjective(RemoveAt(s, p))
         /\ Range(RemoveAt(s, p)) = Range(s) \ {s[p]}
<1> DEFINE a == SubSeq(s, 1, p - 1)  b == SubSeq(s, p + 1, Len(s))  t == RemoveAt(s, p)
<1>1. Len(s) \in Nat /\ p \in 1..Len(s)
  OBVIOUS
<1>2. a \in Seq(S) /\ Len(a) = p - 1 /\ \A i \in 1..Len(a) : a[i] = s[i]
  <2>1. p - 1 \in Int /\ \A i \in 1 .. p - 1 : s[i] \in S
    BY <1>1
  <2>2. /\ a \in Seq(S) /\ Len(a) = (IF 1 <= p - 1 THEN p - 1 - 1 + 1 ELSE 0)
        /\ \A i \in 1 .. p - 1 - 1 + 1 : a[i] = s[1 + i - 1]
    BY <2>1, SubSeqProperties
  <2>3. Len(a) = p - 1 /\ 1 .. p - 1 - 1 + 1 = 1 .. p - 1 /\ \A i \in 1 .. p - 1 : 1 + i - 1 = i
    BY <1>1, <2>2
  <2> QED
    BY <2>2, <2>3
<1>3. b \in Seq(S) /\ Len(b) = Len(s) - p /\ \A i \in 1..Len(b) : b[i] = s[p + i]
  <2>1. p + 1 \in Int /\ \A i \in p + 1 .. Len(s) : s[i] \in S
    BY <1>1
  <2>2. /\ b \in Seq(S) /\ Len(b) = (IF p + 1 <= Len(s) THEN Len(s) - (p + 1) + 1 ELSE 0)
        /\ \A i \in 1 .. Len(s) - (p + 1) + 1 : b[i] = s[p + 1 + i - 1]
    BY <1>1, <2>1, SubSeqProperties
  <2>3. /\ Len(b) = Len(s) - p /\ 1 .. Len(s) - (p + 1) + 1 = 1 .. Len(s) - p
        /\ \A i \in 1 .. Len(s) - p : p + 1 + i - 1 = p + i
    BY <1>1, <2>2
  <2> QED
    BY <2>2, <2>3
<1>4. t = a \o b
  BY DEF RemoveAt
<1> HIDE DEF a, b
<1>5. \A i, j \in 1..Len(s) : s[i] = s[j] => i = j
  BY InjectiveSeq
<1>6. /\ Range(t) = Range(a) \cup Range(b) /\ t \in Seq(S)
      /\ IsInjective(a) /\ IsInjective(b) /\ Range(a) \cap Range(b) = {} => IsInjective(t)
  BY <1>2, <1>3, <1>4, ConcatRange
<1> HIDE DEF t
<1>7. /\ \A i \in 1..Len(a) : i \in 1..Len(s) /\ i < p
      /\ \A i \in 1..Len(b) : p + i \in 1..Len(s) /\ p < p + i
  BY <1>1, <1>2, <1>3
<1>8. \A y : y \in Range(a) <=> \E i \in 1..Len(s) : i < p /\ s[i] = y
  <2> TAKE y
  <2>1. y \in Range(a) <=> \E i \in 1..Len(a) : a[i] = y
    BY <1>2, InRange
  <2>2. \A i \in 1..Len(s) : i < p => i \in 1..Len(a)
    BY <1>1, <1>2
  <2> QED
    BY <1>2, <1>7, <2>1, <2>2
<1>9. \A y : y \in Range(b) <=> \E i \in 1..Len(s) : p < i /\ s[i] = y
  <2> TAKE y
  <2>1. y \in Range(b) <=> \E i \in 1..Len(b) : b[i] = y
    BY <1>3, InRange
  <2>2. \A i \in 1..Len(s) : p < i => i - p \in 1..Len(b) /\ p + (i - p) = i
    BY <1>1, <1>3
  <2>3. \A i \in 1..Len(s) : p < i => b[i - p] = s[i]
    BY <1>3, <2>2
  <2> QED
    BY <1>3, <1>7, <2>1, <2>2, <2>3
<1>10. Range(a) \cap Range(b) = {} /\ s[p] \notin Range(a) /\ s[p] \notin Range(b)
  <2>1. \A i \in 1..Len(s) : i < p => s[i] # s[p]
    BY <1>1, <1>5
  <2>2. \A i \in 1..Len(s) : p < i => s[i] # s[p]
    BY <1>1, <1>5
  <2>3. \A i, j \in 1..Len(s) : i < p /\ p < j => s[i] # s[j]
    BY <1>1, <1>5
  <2> QED
    BY <1>8, <1>9, <2>1, <2>2, <2>3
<1>11. Range(a) \cup Range(b) = Range(s) \ {s[p]}
  <2>1. \A y : y \in Range(s) <=> \E i \in 1..Len(s) : s[i] = y
    BY InRange
  <2>2. \A i \in 1..Len(s) : i < p \/ i = p \/ p < i
    BY <1>1
  <2> QED
    BY <1>8, <1>9, <1>10, <2>1, <2>2
<1>12. IsInjective(a)
  <2>1. \A i, j \in 1..Len(a) : a[i] = a[j] => i = j
    BY <1>2, <1>5, <1>7
  <2> QED
    BY <1>2, <2>1, InjectiveSeq
<1>13. IsInjective(b)
  <2>1. ASSUME NEW i \in 1..Len(b), NEW j \in 1..Len(b), b[i] = b[j] PROVE i = j
    <3>1. p + i = p + j
      BY <1>3, <1>5, <1>7, <2>1
    <3> QED
      BY <1>1, <1>3, <3>1
  <2> QED
    BY <1>3, <2>1, InjectiveSeq
<1> QED
  BY <1>6, <1>10, <1>11, <1>12, <1>13 DEF t

LEMMA RankFacts ==
  /\ Rank("request") = 1 /\ Rank("response") = 2 /\ Rank("finished") = 3 /\ Rank("failed") = 3
  /\ \A event \in Events : Rank(event) \in 1..3
BY DEF Rank, Events

LEMMA TaskFields ==
  ASSUME NEW t \in Tasks
  PROVE  \/ t.does \in Events /\ t.of \in NetRequest /\ t = [does |-> t.does, of |-> t.of]
         \/ t = [does |-> "flush", of |-> None] /\ t.does = "flush"
BY DEF Tasks

LEMMA WaitsAt ==
  ASSUME NTypes, NEW e, NEW q
  PROVE  Waits(e, q) <=> \E i \in 1..Len(handlers) : handlers[i] = [does |-> e, of |-> q]
BY InRange DEF NTypes, Waits

\* A task that waits is one that Queue and Later speak of.
LEMMA WaitsTold ==
  ASSUME NInv, NEW e \in Events, NEW q, Waits(e, q)
  PROVE  /\ q \in NetRequest /\ wire[q] # None /\ Rank(e) <= Rank(wire[q])
         /\ Rank(e) = 3 => e = wire[q]
<1>1. PICK i \in 1..Len(handlers) : handlers[i] = [does |-> e, of |-> q]
  BY WaitsAt DEF NInv
<1>2. handlers[i] \in Tasks /\ handlers[i].does = e /\ handlers[i].of = q /\ e # "flush"
  BY <1>1 DEF NInv, NTypes, Events
<1>3. q \in NetRequest
  BY <1>2, TaskFields
<1> QED
  BY <1>2, <1>3 DEF NInv, Queue

LEMMA FlushWaits == ASSUME NInv, Waits("flush", None) PROVE ~ attached
<1>1. PICK i \in 1..Len(handlers) : handlers[i] = [does |-> "flush", of |-> None]
  BY WaitsAt DEF NInv
<1>2. handlers[i].does = "flush"
  BY <1>1
<1> QED
  BY <1>2 DEF NInv, Queue

\* A task is started.
LEMMA TaskStarts ==
  ASSUME NInv, NEW t \in Tasks, handlers' = Append(handlers, t)
  PROVE  /\ handlers' \in Seq(Tasks) /\ Len(handlers') = Len(handlers) + 1 /\ Len(handlers) \in Nat
         /\ handlers'[Len(handlers) + 1] = t /\ \A i \in 1..Len(handlers) : handlers'[i] = handlers[i]
         /\ \A e, q : Waits(e, q)' <=> Waits(e, q) \/ t = [does |-> e, of |-> q]
<1>1. handlers \in Seq(Tasks)
  BY DEF NInv, NTypes
<1>2. Range(handlers') = Range(handlers) \cup {t}
  BY <1>1, AppendRange
<1> QED
  BY <1>1, <1>2, AppendProperties DEF Waits

\* A task is run: it was the only one of its kind, and came before those of later events.
LEMMA TaskRuns ==
  ASSUME NInv, handlers # <<>>, handlers' = Tail(handlers)
  PROVE  /\ Head(handlers) \in Tasks /\ handlers' \in Seq(Tasks)
         /\ Len(handlers') = Len(handlers) - 1 /\ Len(handlers) \in Nat
         /\ \A i \in 1..Len(handlers) - 1 : handlers'[i] = handlers[i + 1]
         /\ \A e, q : Waits(e, q) <=> Waits(e, q)' \/ [does |-> e, of |-> q] = Head(handlers)
         /\ \A e \in Events : \A q : Waits(e, q)' => Head(handlers).does # "flush"
         /\ \A e \in Events : \A q : q = Head(handlers).of /\ Waits(e, q)' => Rank(Head(handlers).does) < Rank(e)
         /\ Head(handlers).does = "flush" => handlers' = <<>>
<1> DEFINE n == Len(handlers)
<1>1. handlers \in Seq(Tasks) /\ n \in Nat \ {0}
  BY DEF NInv, NTypes
<1>2. /\ Head(handlers) = handlers[1] /\ handlers' \in Seq(Tasks) /\ Len(handlers') = n - 1
      /\ \A i \in 1 .. n - 1 : handlers'[i] = handlers[i + 1]
  BY <1>1, HeadTailProperties
<1> HIDE DEF n
<1>3. n = Len(handlers) /\ 1 \in 1..n /\ \A i \in 1 .. n - 1 : i + 1 \in 1..n /\ 1 < i + 1
  BY <1>1 DEF n
<1>4. \A e, q : Waits(e, q)' <=> \E i \in 1 .. n - 1 : handlers'[i] = [does |-> e, of |-> q]
  <2> TAKE e, q
  <2>1. Waits(e, q)' <=> [does |-> e, of |-> q] \in Range(handlers')
    BY DEF Waits
  <2>2. \A x : x \in Range(handlers') <=> \E i \in 1..Len(handlers') : handlers'[i] = x
    <3>1. handlers' \in Seq(Tasks)
      BY <1>2
    <3>2. DOMAIN handlers' = 1..Len(handlers')
      BY <3>1
    <3> QED
      BY <3>2 DEF Range
  <2> QED
    BY <1>2, <2>1, <2>2
<1>5. \A i \in 1..n : i = 1 \/ (i - 1 \in 1 .. n - 1 /\ (i - 1) + 1 = i)
  BY <1>1
<1>6. ASSUME NEW e, NEW q PROVE Waits(e, q) <=> Waits(e, q)' \/ [does |-> e, of |-> q] = Head(handlers)
  <2>1. Waits(e, q) <=> \E i \in 1..n : handlers[i] = [does |-> e, of |-> q]
    BY <1>3, WaitsAt DEF NInv
  <2>2. \A i \in 1..n : i = 1 \/ handlers[i] = handlers'[i - 1]
    BY <1>2, <1>5
  <2> QED
    BY <1>2, <1>3, <1>4, <1>5, <2>1, <2>2
<1>7. ASSUME NEW e \in Events, NEW q, Waits(e, q)'
      PROVE  Head(handlers).does # "flush" /\ (q = Head(handlers).of => Rank(Head(handlers).does) < Rank(e))
  <2>1. PICK i \in 1 .. n - 1 : handlers'[i] = [does |-> e, of |-> q]
    BY <1>4, <1>7
  <2>2. handlers[i + 1].does = e /\ handlers[i + 1].of = q /\ e # "flush"
    BY <1>2, <2>1 DEF Events
  <2>3. /\ handlers[1].does # "flush"
        /\ handlers[i + 1].does # "flush" /\ handlers[1].of = handlers[i + 1].of =>
             Rank(handlers[1].does) < Rank(handlers[i + 1].does)
    BY <1>3 DEF NInv, Queue
  <2> QED
    BY <1>2, <2>2, <2>3
<1>8. ASSUME Head(handlers).does = "flush" PROVE handlers' = <<>>
  <2>1. \A i \in 1..n : ~ (1 < i)
    BY <1>2, <1>3, <1>8 DEF NInv, Queue
  <2>2. n = 1
    BY <1>1, <1>3, <2>1
  <2>3. Len(handlers') = 0
    BY <1>2, <2>2
  <2> QED
    BY <1>2, <2>3
<1>9. handlers[1] \in Tasks
  BY <1>1, <1>3
<1>10. \A e \in Events : \A q : Waits(e, q)' => Head(handlers).does # "flush"
  BY <1>7
<1>11. \A e \in Events : \A q : q = Head(handlers).of /\ Waits(e, q)' => Rank(Head(handlers).does) < Rank(e)
  BY <1>7
<1>12. \A e, q : Waits(e, q) <=> Waits(e, q)' \/ [does |-> e, of |-> q] = Head(handlers)
  BY <1>6
<1>13. Head(handlers) \in Tasks
  BY <1>2, <1>9
<1> HIDE DEF Waits
<1> QED
  BY <1>2, <1>3, <1>8, <1>10, <1>11, <1>12, <1>13

LEMMA QueueAfterRun ==
  ASSUME NInv, handlers # <<>>, handlers' = Tail(handlers), UNCHANGED <<wire, attached>>
  PROVE  Queue'
<1> DEFINE n == Len(handlers)
<1>1. /\ n \in Nat /\ Len(handlers') = n - 1
      /\ \A i \in 1 .. n - 1 : handlers'[i] = handlers[i + 1]
  BY TaskRuns
<1>2. \A i \in 1 .. n - 1 : i + 1 \in 1..n
  BY <1>1
<1>3. ASSUME NEW i \in 1 .. n - 1, NEW j \in 1 .. n - 1, i < j
      PROVE  /\ handlers[i + 1].does # "flush"
             /\ handlers[j + 1].does # "flush" /\ handlers[i + 1].of = handlers[j + 1].of =>
                  Rank(handlers[i + 1].does) < Rank(handlers[j + 1].does)
  <2>1. i + 1 < j + 1
    BY <1>1, <1>3
  <2> QED
    BY <1>2, <2>1 DEF NInv, Queue
<1>4. ASSUME NEW i \in 1 .. n - 1
      PROVE  IF handlers[i + 1].does = "flush" THEN ~ attached
             ELSE /\ wire[handlers[i + 1].of] # None
                  /\ Rank(handlers[i + 1].does) <= Rank(wire[handlers[i + 1].of])
                  /\ Rank(handlers[i + 1].does) = 3 => handlers[i + 1].does = wire[handlers[i + 1].of]
  BY <1>2 DEF NInv, Queue
<1> HIDE DEF n
<1> QED
  BY <1>1, <1>3, <1>4 DEF Queue

LEMMA QueueAfterStart ==
  ASSUME NInv, NEW t \in Tasks, handlers' = Append(handlers, t), attached,
         t.does = "flush" => ~ attached',
         t.does # "flush" => /\ wire' = [wire EXCEPT ![t.of] = t.does] /\ attached'
                             /\ wire[t.of] # None => Rank(wire[t.of]) < Rank(t.does),
         t.does = "flush" => wire' = wire,
         t.does # "flush" => ~ Ended(t.of)
  PROVE  Queue'
<1> DEFINE n == Len(handlers)
<1>1. /\ n \in Nat /\ Len(handlers') = n + 1
      /\ handlers'[n + 1] = t /\ \A i \in 1..n : handlers'[i] = handlers[i] /\ handlers[i] \in Tasks
  BY TaskStarts DEF NInv, NTypes
<1>2. \A i \in 1..n : handlers[i].does # "flush"
  BY DEF NInv, Queue
<1>3. ASSUME NEW i \in 1..n
      PROVE  /\ handlers[i].of \in NetRequest /\ handlers[i].does \in Events /\ wire[handlers[i].of] # None
             /\ Rank(handlers[i].does) <= Rank(wire[handlers[i].of])
             /\ Rank(handlers[i].does) = 3 => handlers[i].does = wire[handlers[i].of]
  <2>1. handlers[i].of \in NetRequest /\ handlers[i].does \in Events
    BY <1>1, <1>2, TaskFields
  <2> QED
    BY <1>2, <2>1 DEF NInv, Queue
<1>4. \A q \in NetRequest : wire[q] \in Events \cup {None}
  BY DEF NInv, NTypes
<1>5. t.does # "flush" => t.does \in Events /\ t.of \in NetRequest
  BY TaskFields
<1>6. wire \in [NetRequest -> Events \cup {None}]
  BY DEF NInv, NTypes
<1> HIDE DEF n
<1>7. ASSUME NEW i \in 1..n, t.does # "flush", handlers[i].of = t.of
      PROVE  Rank(handlers[i].does) < Rank(t.does)
  <2>1. /\ wire[t.of] # None /\ Rank(handlers[i].does) <= Rank(wire[t.of]) /\ Rank(wire[t.of]) < Rank(t.does)
    BY <1>3, <1>7
  <2>2. wire[t.of] \in Events /\ handlers[i].does \in Events /\ t.does \in Events
    BY <1>3, <1>4, <1>5, <1>7, <2>1
  <2>3. Rank(handlers[i].does) \in Int /\ Rank(wire[t.of]) \in Int /\ Rank(t.does) \in Int
    BY <2>2, RankFacts
  <2> QED
    BY <2>1, <2>3
<1>8. ASSUME NEW i \in 1..n + 1, NEW j \in 1..n + 1, i < j
      PROVE  /\ handlers'[i].does # "flush"
             /\ handlers'[j].does # "flush" /\ handlers'[i].of = handlers'[j].of =>
                  Rank(handlers'[i].does) < Rank(handlers'[j].does)
  <2>1. i \in 1..n /\ (j \in 1..n \/ j = n + 1)
    BY <1>1, <1>8
  <2>2. CASE j = n + 1
    BY <1>1, <1>2, <1>7, <2>1, <2>2
  <2>3. CASE j \in 1..n
    <3>1. /\ handlers[i].does # "flush"
          /\ handlers[j].does # "flush" /\ handlers[i].of = handlers[j].of =>
               Rank(handlers[i].does) < Rank(handlers[j].does)
      BY <1>8, <2>1, <2>3 DEF NInv, Queue, n
    <3> QED
      BY <1>1, <2>1, <2>3, <3>1
  <2> QED
    BY <2>1, <2>2, <2>3
<1>9. ASSUME NEW i \in 1..n
      PROVE  /\ wire'[handlers[i].of] # None
             /\ Rank(handlers[i].does) <= Rank(wire'[handlers[i].of])
             /\ Rank(handlers[i].does) = 3 => handlers[i].does = wire'[handlers[i].of]
  <2>1. CASE t.does # "flush" /\ handlers[i].of = t.of
    <3>1. wire'[t.of] = t.does /\ t.does \in Events
      BY <1>5, <1>6, <2>1
    <3>2. Rank(handlers[i].does) < Rank(t.does)
      BY <1>7, <2>1
    <3>3. Rank(handlers[i].does) \in 1..3 /\ Rank(t.does) \in 1..3
      BY <1>3, <3>1, RankFacts
    <3>4. Rank(handlers[i].does) <= Rank(t.does) /\ Rank(handlers[i].does) # 3
      BY <3>2, <3>3
    <3> QED
      BY <2>1, <3>1, <3>4, NetworkAssumption DEF Events
  <2>2. CASE ~ (t.does # "flush" /\ handlers[i].of = t.of)
    <3>1. wire'[handlers[i].of] = wire[handlers[i].of]
      BY <1>3, <1>5, <1>6, <2>2
    <3> QED
      BY <1>3, <3>1
  <2> QED
    BY <2>1, <2>2
<1>10. ASSUME t.does # "flush"
       PROVE  wire'[t.of] = t.does /\ t.does # None /\ Rank(t.does) <= Rank(t.does)
  <2>1. wire'[t.of] = t.does /\ t.does # None
    BY <1>5, <1>6, <1>10, NetworkAssumption DEF Events
  <2>2. Rank(t.does) \in Int
    BY <1>5, <1>10, RankFacts
  <2> QED
    BY <2>1, <2>2
<1>11. \A i \in 1..n + 1 : i \in 1..n \/ i = n + 1
  BY <1>1
<1>12. ASSUME NEW i \in 1..n + 1
       PROVE  IF handlers'[i].does = "flush" THEN ~ attached'
              ELSE /\ wire'[handlers'[i].of] # None
                   /\ Rank(handlers'[i].does) <= Rank(wire'[handlers'[i].of])
                   /\ Rank(handlers'[i].does) = 3 => handlers'[i].does = wire'[handlers'[i].of]
  <2>1. CASE i \in 1..n
    BY <1>1, <1>2, <1>9, <2>1
  <2>2. CASE i = n + 1
    BY <1>1, <1>10, <2>2
  <2> QED
    BY <1>11, <2>1, <2>2
<1> QED
  BY <1>1, <1>8, <1>12 DEF Queue

LEMMA EventKeeps == ASSUME NInv, NEW event \in Events, NEW r \in NetRequest, PageEvent(event, r) PROVE NInv'
<1> DEFINE t == [does |-> event, of |-> r]
<1>1. /\ attached /\ Follows(event, r) /\ wire' = [wire EXCEPT ![r] = event] /\ handlers' = Append(handlers, t)
      /\ UNCHANGED <<attached, pending, recent, bodies, entry>>
  BY DEF PageEvent
<1>2. t \in Tasks /\ t.does = event /\ t.of = r /\ event # "flush"
  BY DEF Tasks, Events
<1>3. wire \in [NetRequest -> Events \cup {None}]
  BY DEF NInv, NTypes
<1>4. wire'[r] = event /\ \A q \in NetRequest : q # r => wire'[q] = wire[q]
  BY <1>1, <1>3
<1>5. \A e, q : Waits(e, q)' <=> Waits(e, q) \/ (e = event /\ q = r)
  <2>1. \A e, q : Waits(e, q)' <=> Waits(e, q) \/ t = [does |-> e, of |-> q]
    BY <1>1, <1>2, TaskStarts
  <2>2. \A e, q : t = [does |-> e, of |-> q] <=> e = event /\ q = r
    OBVIOUS
  <2> QED
    BY <2>1, <2>2
<1>6. /\ ~ Ended(r)
      /\ event = "finished" => wire[r] = "response"
      /\ event = "request" <=> wire[r] = None
      /\ wire[r] # None => Rank(wire[r]) < Rank(event)
  BY <1>1, RankFacts, NetworkAssumption DEF Follows, Ended, Events
<1>7. Queue'
  <2>1. /\ t.does # "flush" /\ attached' /\ wire' = [wire EXCEPT ![t.of] = t.does] /\ ~ Ended(t.of)
        /\ wire[t.of] # None => Rank(wire[t.of]) < Rank(t.does)
    BY <1>1, <1>2, <1>6
  <2> HIDE DEF t
  <2> QED
    BY <1>1, <1>2, <2>1, QueueAfterStart
<1>8. NTypes'
  <2>1. handlers' \in Seq(Tasks)
    BY <1>1, <1>2, TaskStarts
  <2>2. wire' \in [NetRequest -> Events \cup {None}]
    BY <1>1, <1>3
  <2> QED
    BY <1>1, <2>1, <2>2 DEF NInv, NTypes
<1> HIDE DEF t, Waits
<1>9. Later'
  <2> SUFFICES ASSUME NEW q \in NetRequest, Waits("request", q)'
               PROVE  /\ wire'[q] \in {"response", "finished"} => Waits("response", q)'
                      /\ wire'[q] \in {"finished", "failed"} => \A e : e = wire'[q] => Waits(e, q)'
    BY DEF Later, Ended, Waits
  <2>1. CASE q # r
    BY <1>4, <1>5, <2>1 DEF NInv, Later, Ended
  <2>2. CASE q = r /\ event = "request"
    BY <1>4, <2>2
  <2>3. CASE q = r /\ event # "request"
    <3>1. Waits("request", r)
      BY <1>5, <2>3
    <3>2. event = "finished" => Waits("response", r)
      BY <1>6, <3>1 DEF NInv, Later
    <3> QED
      BY <1>4, <1>5, <2>3, <3>2
  <2> QED
    BY <2>1, <2>2, <2>3
<1>10. \A q \in NetRequest : Entered(q) => Entered(q)'
  <2> SUFFICES ASSUME NEW q \in NetRequest, Entered(q) PROVE Entered(q)'
    OBVIOUS
  <2>1. wire'[q] # None
    BY <1>4, NetworkAssumption DEF Entered, Events
  <2>2. ~ Waits("request", q)'
    BY <1>5, <1>6 DEF Entered
  <2> QED
    BY <1>1, <2>1, <2>2 DEF Entered
<1>11. Range(recent) \subseteq NetRequest /\ Range(pending) \subseteq NetRequest /\ bodies \subseteq NetRequest
  BY RangeIn DEF NInv, NTypes
<1>12. Places'
  <2>1. \A q \in Range(recent') \cup Range(pending') \cup bodies' : Entered(q)'
    BY <1>1, <1>10, <1>11 DEF NInv, Places
  <2>2. ASSUME NEW q \in NetRequest \ SkippedRequests, wire'[q] # None, ~ Waits("request", q)'
        PROVE  q \in Range(pending') \/ Kept(q)'
    <3>1. ~ Waits("request", q) /\ wire[q] # None
      BY <1>4, <1>5, <1>6, <2>2
    <3> QED
      BY <1>1, <3>1 DEF NInv, Places, Kept
  <2> QED
    BY <1>1, <2>1, <2>2 DEF NInv, Places
<1>13. Fates'
  <2>1. ASSUME NEW q \in Range(pending)
        PROVE  /\ wire'[q] \in {"finished", "failed"} => \A e : e = wire'[q] => Waits(e, q)'
               /\ wire'[q] \in {"response", "finished"} => Waits("response", q)' \/ HasStatus(q)'
    <3>1. q \in NetRequest
      BY <1>11
    <3>2. CASE q # r
      BY <1>1, <1>4, <1>5, <3>1, <3>2 DEF NInv, Fates, Ended, HasStatus
    <3>3. CASE q = r
      BY <1>1, <1>4, <1>5, <1>6, <3>3 DEF NInv, Fates, HasStatus
    <3> QED
      BY <3>2, <3>3
  <2>2. ASSUME NEW q \in Range(recent)
        PROVE  wire'[q] = wire[q]
    BY <1>1, <1>4, <1>6, <1>11 DEF NInv, Fates
  <2>3. \A q \in Range(recent') :
          /\ Ended(q)' \/ ~ attached'
          /\ entry'[q].failed <=> wire'[q] # "finished"
          /\ wire'[q] = "finished" => HasStatus(q)'
    BY <1>1, <2>2 DEF NInv, Fates, Ended, HasStatus
  <2>4. \A q \in Range(pending') : Ended(q)' => Waits(wire[q], q)'
    BY <1>1, <2>1 DEF Ended, Waits
  <2> QED
    BY <1>1, <2>1, <2>3, <2>4 DEF Fates
<1>14. Drained'
  BY <1>1 DEF Drained
<1> QED
  BY <1>7, <1>8, <1>9, <1>12, <1>13, <1>14 DEF NInv

LEMMA DetachKeeps == ASSUME NInv, Detach PROVE NInv'
<1> DEFINE t == [does |-> "flush", of |-> None]
<1>1. attached /\ attached' = FALSE /\ handlers' = Append(handlers, t) /\ UNCHANGED <<wire, pending, recent, bodies, entry>>
  BY DEF Detach
<1>2. t \in Tasks /\ t.does = "flush"
  BY DEF Tasks
<1>3. \A e, q : Waits(e, q)' <=> Waits(e, q) \/ t = [does |-> e, of |-> q]
  BY <1>1, <1>2, TaskStarts
<1>4. Waits("flush", None)'
  BY <1>3
<1>5. \A e \in Events : \A q : Waits(e, q)' <=> Waits(e, q)
  <2>1. \A e \in Events : \A q : t # [does |-> e, of |-> q]
    BY DEF Events
  <2> QED
    BY <1>3, <2>1
<1>6. Queue'
  BY <1>1, <1>2, QueueAfterStart
<1>7. NTypes'
  <2>1. handlers' \in Seq(Tasks)
    BY <1>1, <1>2, TaskStarts
  <2> QED
    BY <1>1, <2>1 DEF NInv, NTypes
<1> HIDE DEF t, Waits
<1>8. "request" \in Events /\ "response" \in Events /\ \A q : Ended(q) => wire[q] \in Events
  BY DEF Events, Ended
<1>9. Later'
  <2>1. ASSUME NEW q \in NetRequest, Waits("request", q)'
        PROVE  /\ wire[q] \in {"response", "finished"} => Waits("response", q)'
               /\ Ended(q) => \A e : e = wire[q] => Waits(e, q)'
    BY <1>5, <1>8, <2>1 DEF NInv, Later
  <2> QED
    BY <1>1, <2>1 DEF Later, Ended, Waits
<1>10. \A q : Entered(q)' <=> Entered(q)
  BY <1>1, <1>5, <1>8 DEF Entered
<1>11. Places'
  BY <1>1, <1>5, <1>8, <1>10 DEF NInv, Places, Kept
<1>12. Fates'
  <2>1. \A q \in Range(pending) : Ended(q) => \A e : e = wire[q] => Waits(e, q)'
    BY <1>5, <1>8 DEF NInv, Fates
  <2>2. \A q \in Range(pending') : Ended(q)' => Waits(wire[q], q)'
    BY <1>1, <2>1 DEF Ended, Waits
  <2> QED
    BY <1>1, <1>5, <1>8, <2>2 DEF NInv, Fates, HasStatus, Ended
<1>13. Drained'
  BY <1>4 DEF Drained
<1> QED
  BY <1>6, <1>7, <1>9, <1>11, <1>12, <1>13 DEF NInv

LEMMA LaterAfterRun ==
  ASSUME NInv, handlers # <<>>, handlers' = Tail(handlers), UNCHANGED <<wire, attached>>
  PROVE  Later'
<1>1. /\ \A e, q : Waits(e, q) <=> Waits(e, q)' \/ [does |-> e, of |-> q] = Head(handlers)
      /\ \A e \in Events : \A q : q = Head(handlers).of /\ Waits(e, q)' => Rank(Head(handlers).does) < Rank(e)
  BY TaskRuns
<1>2. ASSUME NEW q \in NetRequest, Waits("request", q)', NEW e \in Events, Rank(e) > 1, Waits(e, q) PROVE Waits(e, q)'
  <2>1. [does |-> e, of |-> q] # Head(handlers)
    <3> SUFFICES ASSUME [does |-> e, of |-> q] = Head(handlers) PROVE FALSE
      OBVIOUS
    <3>1. Head(handlers).of = q /\ Head(handlers).does = e /\ "request" \in Events
      BY DEF Events
    <3>2. Rank(e) < Rank("request")
      BY <1>1, <1>2, <3>1
    <3> QED
      BY <1>2, <3>2, RankFacts
  <2> QED
    BY <1>1, <1>2, <2>1
<1> HIDE DEF Waits
<1>3. ASSUME NEW q \in NetRequest, Waits("request", q)'
      PROVE  /\ wire[q] \in {"response", "finished"} => Waits("response", q)'
             /\ Ended(q) => \A e : e = wire[q] => Waits(e, q)'
  <2>1. Waits("request", q)
    BY <1>1, <1>3
  <2>2. /\ wire[q] \in {"response", "finished"} => Waits("response", q)
        /\ Ended(q) => Waits(wire[q], q)
    BY <2>1 DEF NInv, Later
  <2>3. "response" \in Events /\ Rank("response") > 1 /\ (Ended(q) => wire[q] \in Events /\ Rank(wire[q]) > 1)
    BY RankFacts DEF Ended, Events
  <2> QED
    BY <1>2, <1>3, <2>2, <2>3
<1> QED
  BY <1>3 DEF Later, Ended, Waits

\* What a handler finds: those of earlier events of its request have run, and it runs once.
LEMMA HandlerRuns ==
  ASSUME NInv, handlers # <<>>, handlers' = Tail(handlers), UNCHANGED <<wire, attached>>,
         NEW e \in Events, NEW r, Head(handlers) = [does |-> e, of |-> r]
  PROVE  /\ handlers' \in Seq(Tasks) /\ Queue' /\ Later' /\ Drained'
         /\ r \in NetRequest /\ wire[r] # None /\ Rank(e) <= Rank(wire[r]) /\ (Rank(e) = 3 => wire[r] = e)
         /\ \A f, q : Waits(f, q)' <=> Waits(f, q) /\ ~ (f = e /\ q = r)
         /\ \A f \in Events : f # e /\ Rank(f) <= Rank(e) => ~ Waits(f, r)
<1>1. /\ handlers' \in Seq(Tasks)
      /\ \A f, q : Waits(f, q) <=> Waits(f, q)' \/ [does |-> f, of |-> q] = Head(handlers)
      /\ \A f \in Events : \A q : q = Head(handlers).of /\ Waits(f, q)' => Rank(Head(handlers).does) < Rank(f)
  BY TaskRuns
<1>2. Head(handlers).does = e /\ Head(handlers).of = r /\ e # "flush"
  BY DEF Events
<1>3. \A f, q : [does |-> f, of |-> q] = Head(handlers) <=> f = e /\ q = r
  OBVIOUS
<1>4. Waits(e, r)
  BY <1>1, <1>3
<1>5. r \in NetRequest /\ wire[r] # None /\ Rank(e) <= Rank(wire[r]) /\ (Rank(e) = 3 => wire[r] = e)
  BY <1>4, WaitsTold
<1> HIDE DEF Waits
<1>6. \A f \in Events : Waits(f, r)' => Rank(e) < Rank(f)
  BY <1>1, <1>2
<1>7. \A f \in Events : Rank(f) <= Rank(e) => ~ Waits(f, r)'
  <2> SUFFICES ASSUME NEW f \in Events, Rank(f) <= Rank(e), Rank(e) < Rank(f) PROVE FALSE
    BY <1>6
  <2>1. Rank(e) \in Int /\ Rank(f) \in Int
    BY RankFacts
  <2> QED
    BY <2>1
<1>8. Rank(e) <= Rank(e)
  <2>1. Rank(e) \in Int
    BY RankFacts
  <2> QED
    BY <2>1
<1>9. \A f, q : Waits(f, q)' <=> Waits(f, q) /\ ~ (f = e /\ q = r)
  BY <1>1, <1>3, <1>7, <1>8
<1>10. \A f \in Events : f # e /\ Rank(f) <= Rank(e) => ~ Waits(f, r)
  BY <1>7, <1>9
<1>11. Drained'
  BY <1>2, <1>9 DEF NInv, Drained
<1> QED
  BY <1>1, <1>5, <1>9, <1>10, <1>11, QueueAfterRun, LaterAfterRun

LEMMA RequestKeeps ==
  ASSUME NInv, handlers # <<>>, handlers' = Tail(handlers), UNCHANGED <<wire, attached>>,
         NEW r, Head(handlers) = [does |-> "request", of |-> r], handle_request(r)
  PROVE  NInv'
<1>1. /\ handlers' \in Seq(Tasks) /\ Queue' /\ Later' /\ Drained' /\ r \in NetRequest /\ wire[r] # None
      /\ \A f, q : Waits(f, q)' <=> Waits(f, q) /\ ~ (f = "request" /\ q = r)
  BY HandlerRuns DEF Events
<1>2. Waits("request", r)
  <2>1. \A f, q : Waits(f, q) <=> Waits(f, q)' \/ [does |-> f, of |-> q] = Head(handlers)
    BY TaskRuns
  <2> QED
    BY <2>1
<1> HIDE DEF Waits
<1>3. r \notin Range(recent) \cup Range(pending) \cup bodies
  BY <1>2 DEF NInv, Places, Entered
<1>4. UNCHANGED <<recent, bodies>>
  BY DEF handle_request
<1>5. Range(recent) \subseteq NetRequest /\ Range(pending) \subseteq NetRequest /\ bodies \subseteq NetRequest
  BY RangeIn DEF NInv, NTypes
<1>6. CASE r \in SkippedRequests
  <2>1. UNCHANGED <<pending, entry>>
    BY <1>6 DEF handle_request
  <2>2. NTypes'
    BY <1>1, <1>4, <2>1 DEF NInv, NTypes
  <2>3. Places'
    <3>1. \A q : Entered(q) => Entered(q)'
      BY <1>1, <2>1 DEF Entered
    <3> QED
      BY <1>1, <1>4, <1>6, <2>1, <3>1 DEF NInv, Places, Kept
  <2>4. Fates'
    <3>1. \A q \in Range(pending') : Ended(q)' => Waits(wire[q], q)'
      <4>1. \A q \in Range(pending) : Ended(q) => \A f : f = wire[q] => Waits(f, q)'
        BY <1>1, <1>3 DEF NInv, Fates
      <4> QED
        BY <2>1, <4>1 DEF Ended, Waits
    <3> QED
      BY <1>1, <1>4, <2>1, <3>1 DEF NInv, Fates, HasStatus, Ended
  <2> QED
    BY <1>1, <2>2, <2>3, <2>4 DEF NInv
<1>7. CASE r \notin SkippedRequests
  <2>1. pending' = Append(pending, r) /\ entry' = [entry EXCEPT ![r] = Requested]
    BY <1>7 DEF handle_request
  <2>2. /\ pending' \in Seq(NetRequest) /\ Range(pending') = Range(pending) \cup {r} /\ IsInjective(pending')
    BY <1>1, <1>3, <2>1, AppendRange DEF NInv, NTypes, Places
  <2>3. /\ entry' \in [NetRequest -> Entries] /\ entry'[r] \in Started
        /\ \A q \in NetRequest : q # r => entry'[q] = entry[q]
    <3>1. Requested \in Started /\ entry \in [NetRequest -> Entries]
      BY DEF Requested, Started, NInv, NTypes
    <3> QED
      BY <1>1, <2>1, <3>1 DEF Entries
  <2>4. NTypes'
    BY <1>1, <1>4, <2>2, <2>3 DEF NInv, NTypes
  <2>5. Places'
    <3>1. \A q \in NetRequest : (Entered(q) \/ q = r) => Entered(q)'
      BY <1>1, <1>7, <2>3 DEF Entered
    <3>2. Range(recent) \cap Range(pending') = {}
      BY <1>3, <2>2 DEF NInv, Places
    <3>3. \A q \in Range(recent') \cup Range(pending') \cup bodies' : Entered(q)'
      BY <1>1, <1>4, <1>5, <2>2, <3>1 DEF NInv, Places
    <3>4. ASSUME NEW q \in NetRequest \ SkippedRequests, wire'[q] # None, ~ Waits("request", q)'
          PROVE  q \in Range(pending') \/ Kept(q)'
      BY <1>1, <1>4, <2>2, <3>4 DEF NInv, Places, Kept
    <3> QED
      BY <1>4, <2>2, <3>2, <3>3, <3>4 DEF NInv, Places
  <2>6. Fates'
    <3>1. ASSUME NEW q \in Range(pending')
          PROVE  /\ Ended(q) => \A f : f = wire[q] => Waits(f, q)'
                 /\ wire[q] \in {"response", "finished"} => Waits("response", q)' \/ HasStatus(q)'
      <4>1. CASE q = r
        BY <1>1, <1>2, <4>1 DEF NInv, Later, Ended
      <4>2. CASE q # r
        <5>1. q \in Range(pending) /\ q \in NetRequest
          BY <1>5, <2>2, <4>2
        <5> QED
          BY <1>1, <1>4, <2>3, <4>2, <5>1 DEF NInv, Fates, HasStatus
      <4> QED
        BY <4>1, <4>2
    <3>2. \A q \in Range(pending') : Ended(q)' => Waits(wire[q], q)'
      BY <3>1 DEF Ended, Waits
    <3>3. \A q \in Range(recent) : q \in NetRequest /\ entry'[q] = entry[q]
      BY <1>3, <1>5, <2>3
    <3> QED
      BY <1>4, <3>1, <3>2, <3>3 DEF NInv, Fates, HasStatus, Ended
  <2> QED
    BY <1>1, <2>4, <2>5, <2>6 DEF NInv
<1> QED
  BY <1>6, <1>7

LEMMA ResponseKeeps ==
  ASSUME NInv, handlers # <<>>, handlers' = Tail(handlers), UNCHANGED <<wire, attached>>,
         NEW r, Head(handlers) = [does |-> "response", of |-> r], handle_response(r)
  PROVE  NInv'
<1>1. /\ handlers' \in Seq(Tasks) /\ Queue' /\ Later' /\ Drained' /\ r \in NetRequest
      /\ \A f, q : Waits(f, q)' <=> Waits(f, q) /\ ~ (f = "response" /\ q = r)
  BY HandlerRuns DEF Events
<1>2. /\ UNCHANGED <<pending, recent, entry>>
      /\ bodies' = IF r \in Range(pending) THEN bodies \cup {r} ELSE bodies
  BY DEF handle_response
<1> HIDE DEF Waits
<1>3. NTypes'
  BY <1>1, <1>2 DEF NInv, NTypes
<1>4. Places'
  <2>1. \A q : Entered(q) => Entered(q)'
    BY <1>1, <1>2 DEF Entered
  <2>2. bodies' \subseteq bodies \cup Range(pending)
    BY <1>2
  <2> QED
    BY <1>1, <1>2, <2>1, <2>2 DEF NInv, Places, Kept
<1>5. Fates'
  <2>1. ASSUME NEW q \in Range(pending)
        PROVE  /\ Ended(q) => \A f : f = wire[q] => Waits(f, q)'
               /\ wire[q] \in {"response", "finished"} => Waits("response", q)' \/ HasStatus(q)'
    BY <1>1, <1>2 DEF NInv, Fates, HasStatus, Ended
  <2>2. \A q \in Range(pending') : Ended(q)' => Waits(wire[q], q)'
    BY <1>2, <2>1 DEF Ended, Waits
  <2>3. bodies \subseteq bodies'
    BY <1>2
  <2> QED
    BY <1>2, <2>1, <2>2, <2>3 DEF NInv, Fates, HasStatus, Ended
<1> QED
  BY <1>1, <1>3, <1>4, <1>5 DEF NInv

LEMMA EntryEndKeeps ==
  ASSUME NInv, handlers # <<>>, handlers' = Tail(handlers), UNCHANGED <<wire, attached>>,
         NEW e \in {"finished", "failed"}, NEW failed \in BOOLEAN, failed <=> e = "failed",
         NEW r, Head(handlers) = [does |-> e, of |-> r], EndEntry(r, failed)
  PROVE  NInv'
<1>1. /\ handlers' \in Seq(Tasks) /\ Queue' /\ Later' /\ Drained' /\ r \in NetRequest /\ wire[r] = e
      /\ \A f, q : Waits(f, q)' <=> Waits(f, q) /\ ~ (f = e /\ q = r)
      /\ ~ Waits("request", r) /\ ~ Waits("response", r)
  BY HandlerRuns, RankFacts DEF Events
<1>2. e # "request" /\ e # "response" /\ UNCHANGED bodies
  BY DEF EndEntry
<1> HIDE DEF Waits
<1>3. /\ Range(recent) \subseteq NetRequest /\ Range(pending) \subseteq NetRequest /\ bodies \subseteq NetRequest
      /\ recent \in Seq(NetRequest) /\ pending \in Seq(NetRequest) /\ entry \in [NetRequest -> Entries]
  BY RangeIn DEF NInv, NTypes
<1>4. ASSUME NEW q \in Range(pending), q # r
      PROVE  /\ Ended(q) => \A f : f = wire[q] => Waits(f, q)'
             /\ wire[q] \in {"response", "finished"} => Waits("response", q)' \/ HasStatus(q)
  BY <1>1, <1>2, <1>4 DEF NInv, Fates
<1>5. CASE r \notin Range(pending) /\ UNCHANGED <<pending, recent, entry>>
  <2>1. NTypes'
    BY <1>1, <1>2, <1>5 DEF NInv, NTypes
  <2>2. Places'
    <3>1. \A q : Entered(q)' <=> Entered(q)
      BY <1>1, <1>2, <1>5 DEF Entered
    <3> QED
      BY <1>1, <1>2, <1>5, <3>1 DEF NInv, Places, Kept
  <2>3. Fates'
    <3>1. \A q \in Range(pending') : Ended(q)' => Waits(wire[q], q)'
      BY <1>4, <1>5 DEF Ended, Waits
    <3> QED
      BY <1>2, <1>4, <1>5, <3>1 DEF NInv, Fates, HasStatus, Ended
  <2> QED
    BY <1>1, <2>1, <2>2, <2>3 DEF NInv
<1>6. ASSUME NEW place \in DOMAIN pending, pending[place] = r, pending' = RemoveAt(pending, place),
             recent' = Bounded(Append(recent, r)), entry' = [entry EXCEPT ![r].failed = failed]
      PROVE  NInv'
  <2>1. place \in 1..Len(pending) /\ r \in Range(pending) /\ r \notin Range(recent)
    BY <1>3, <1>6, InRange DEF NInv, Places
  <2>2. pending' \in Seq(NetRequest) /\ IsInjective(pending') /\ Range(pending') = Range(pending) \ {r}
    BY <1>3, <1>6, <2>1, RemoveAtRange DEF NInv, Places
  <2> DEFINE more == Append(recent, r)
  <2>3. /\ more \in Seq(NetRequest) /\ Len(more) = Len(recent) + 1 /\ Range(more) = Range(recent) \cup {r}
        /\ IsInjective(more)
    BY <1>1, <1>3, <2>1, AppendRange DEF NInv, Places
  <2>4. recent' = Bounded(more)
    BY <1>6
  <2> HIDE DEF more
  <2>5. /\ recent' \in Seq(NetRequest) /\ Len(recent') <= MaxEntries /\ Range(recent') \subseteq Range(recent) \cup {r}
        /\ Len(recent') = MaxEntries \/ Range(recent') = Range(recent) \cup {r}
        /\ IsInjective(recent')
    BY <2>3, <2>4, BoundedKeeps
  <2>6. Len(recent) = MaxEntries => Len(recent') = MaxEntries
    <3>1. Len(recent) = MaxEntries => Len(more) >= MaxEntries
      BY <2>3, NetworkAssumption
    <3> QED
      BY <2>3, <2>4, <3>1, BoundedKeeps
  <2>7. entry[r] \in Started /\ wire[r] # None
    BY <2>1 DEF NInv, Places, Entered
  <2>8. /\ entry' \in [NetRequest -> Entries] /\ entry'[r] \in Started
        /\ entry'[r].failed = failed /\ entry'[r].status = entry[r].status
        /\ \A q \in NetRequest : q # r => entry'[q] = entry[q]
    <3>1. entry' = [entry EXCEPT ![r] = [entry[r] EXCEPT !.failed = failed]]
      BY <1>6
    <3>2. /\ [entry[r] EXCEPT !.failed = failed] \in Started
          /\ [entry[r] EXCEPT !.failed = failed].failed = failed
          /\ [entry[r] EXCEPT !.failed = failed].status = entry[r].status
      BY <2>7 DEF Started
    <3> QED
      BY <1>1, <1>3, <3>1, <3>2 DEF Entries
  <2>9. NTypes'
    BY <1>1, <1>2, <2>2, <2>5, <2>8 DEF NInv, NTypes
  <2>10. Places'
    <3>1. \A q \in NetRequest : Entered(q) => Entered(q)'
      BY <1>1, <1>2, <2>8 DEF Entered
    <3>2. \A q \in Range(recent') \cup Range(pending') \cup bodies' : Entered(q)'
      BY <1>2, <1>3, <2>1, <2>2, <2>5, <3>1 DEF NInv, Places
    <3>3. ASSUME NEW q \in NetRequest \ SkippedRequests, wire'[q] # None, ~ Waits("request", q)'
          PROVE  q \in Range(pending') \/ Kept(q)'
      <4>1. q \in Range(pending) \/ q \in Range(recent) \/ Len(recent) = MaxEntries
        BY <1>1, <1>2, <3>3 DEF NInv, Places, Kept
      <4> QED
        BY <2>2, <2>5, <2>6, <4>1 DEF Kept
    <3>4. Range(recent') \cap Range(pending') = {}
      BY <2>2, <2>5 DEF NInv, Places
    <3> QED
      BY <2>2, <2>5, <3>2, <3>3, <3>4 DEF Places
  <2>11. Fates'
    <3>1. \A q \in Range(pending') : Ended(q)' => Waits(wire[q], q)'
      BY <1>4, <2>2 DEF Ended, Waits
    <3>2. \A q \in Range(pending') : wire[q] \in {"response", "finished"} => Waits("response", q)' \/ HasStatus(q)'
      BY <1>2, <1>3, <1>4, <2>2, <2>8 DEF HasStatus
    <3>3. ASSUME NEW q \in Range(recent')
          PROVE  /\ Ended(q) \/ ~ attached
                 /\ entry'[q].failed <=> wire[q] # "finished"
                 /\ wire[q] = "finished" => HasStatus(q)'
      <4>1. CASE q = r
        <5>1. wire[r] = "finished" => HasStatus(r)
          BY <1>1, <2>1 DEF NInv, Fates
        <5> QED
          BY <1>1, <1>2, <2>8, <4>1, <5>1 DEF Ended, HasStatus
      <4>2. CASE q # r
        <5>1. q \in Range(recent) /\ entry'[q] = entry[q]
          BY <1>3, <2>5, <2>8, <4>2
        <5> QED
          BY <1>2, <5>1 DEF NInv, Fates, HasStatus
      <4> QED
        BY <4>1, <4>2
    <3> QED
      BY <3>1, <3>2, <3>3 DEF Fates, Ended
  <2> QED
    BY <1>1, <2>9, <2>10, <2>11 DEF NInv
<1> QED
  BY <1>5, <1>6 DEF EndEntry

LEMMA FlushKeeps ==
  ASSUME NInv, handlers # <<>>, handlers' = Tail(handlers), UNCHANGED <<wire, attached>>,
         Head(handlers).does = "flush", Flush
  PROVE  NInv'
<1>1. /\ handlers' = <<>> /\ handlers' \in Seq(Tasks) /\ Head(handlers) \in Tasks
      /\ \A e, q : Waits(e, q) <=> Waits(e, q)' \/ [does |-> e, of |-> q] = Head(handlers)
      /\ \A e \in Events : \A q : ~ Waits(e, q)'
  BY TaskRuns
<1>2. Head(handlers) = [does |-> "flush", of |-> None]
  BY <1>1, TaskFields DEF Events
<1>3. \A e \in Events : \A q : ~ Waits(e, q)
  <2>1. \A e \in Events : \A q : [does |-> e, of |-> q] # Head(handlers)
    BY <1>2 DEF Events
  <2> QED
    BY <1>1, <2>1
<1>4. ~ attached
  <2>1. Waits("flush", None)
    BY <1>1, <1>2
  <2> QED
    BY <2>1, FlushWaits
<1> HIDE DEF Waits
<1>5. /\ recent' = Bounded(recent \o pending) /\ pending' = <<>> /\ UNCHANGED bodies
      /\ entry' = [r \in NetRequest |-> IF r \in Range(pending) THEN [entry[r] EXCEPT !.failed = TRUE] ELSE entry[r]]
  BY DEF Flush
<1>6. /\ recent \in Seq(NetRequest) /\ pending \in Seq(NetRequest) /\ entry \in [NetRequest -> Entries]
      /\ Range(recent) \subseteq NetRequest /\ Range(pending) \subseteq NetRequest /\ bodies \subseteq NetRequest
  BY RangeIn DEF NInv, NTypes
<1> DEFINE more == recent \o pending
<1>7. /\ more \in Seq(NetRequest) /\ Len(more) = Len(recent) + Len(pending)
      /\ Range(more) = Range(recent) \cup Range(pending) /\ IsInjective(more)
  BY <1>6, ConcatRange DEF NInv, Places
<1>8. recent' = Bounded(more)
  BY <1>5
<1> HIDE DEF more
<1>9. /\ recent' \in Seq(NetRequest) /\ Len(recent') <= MaxEntries
      /\ Range(recent') \subseteq Range(recent) \cup Range(pending)
      /\ Len(recent') = MaxEntries \/ Range(recent') = Range(recent) \cup Range(pending)
      /\ IsInjective(recent')
  BY <1>7, <1>8, BoundedKeeps
<1>10. Len(recent) = MaxEntries => Len(recent') = MaxEntries
  <2>1. Len(recent) = MaxEntries => Len(more) >= MaxEntries
    BY <1>6, <1>7, NetworkAssumption
  <2> QED
    BY <1>7, <1>8, <2>1, BoundedKeeps
<1>11. pending' \in Seq(NetRequest) /\ Range(pending') = {} /\ IsInjective(pending')
  BY <1>5 DEF Range, IsInjective
<1>12. /\ entry' \in [NetRequest -> Entries]
       /\ \A q \in Range(pending) : entry'[q] \in Started /\ entry'[q].failed /\ entry'[q].status = entry[q].status
       /\ \A q \in NetRequest \ Range(pending) : entry'[q] = entry[q]
  <2>1. ASSUME NEW q \in Range(pending)
        PROVE  /\ q \in NetRequest /\ entry'[q] = [entry[q] EXCEPT !.failed = TRUE] /\ entry'[q] \in Started
               /\ entry'[q].failed /\ entry'[q].status = entry[q].status
    <3>1. q \in NetRequest /\ entry[q] \in Started
      BY <1>6 DEF NInv, Places, Entered
    <3>2. entry'[q] = [entry[q] EXCEPT !.failed = TRUE]
      BY <1>5, <3>1
    <3>3. /\ [entry[q] EXCEPT !.failed = TRUE] \in Started /\ [entry[q] EXCEPT !.failed = TRUE].failed
          /\ [entry[q] EXCEPT !.failed = TRUE].status = entry[q].status
      BY <3>1 DEF Started
    <3> QED
      BY <3>1, <3>2, <3>3
  <2>2. \A q \in NetRequest \ Range(pending) : entry'[q] = entry[q]
    BY <1>5
  <2>3. \A q \in NetRequest : entry'[q] \in Entries
    BY <1>6, <2>1, <2>2 DEF Entries
  <2>4. entry' \in [NetRequest -> Entries]
    BY <1>5, <2>3
  <2> QED
    BY <2>1, <2>2, <2>4
<1>13. NTypes'
  BY <1>1, <1>5, <1>9, <1>11, <1>12 DEF NInv, NTypes
<1>14. Queue' /\ Later'
  BY QueueAfterRun, LaterAfterRun
<1>15. Drained'
  BY <1>1, <1>5 DEF Drained
<1>16. Places'
  <2>1. \A q \in NetRequest : Entered(q) => Entered(q)'
    BY <1>1, <1>12 DEF Entered, Events
  <2>2. \A q \in Range(recent') \cup Range(pending') \cup bodies' : Entered(q)'
    BY <1>5, <1>6, <1>9, <1>11, <2>1 DEF NInv, Places
  <2>3. ASSUME NEW q \in NetRequest \ SkippedRequests, wire'[q] # None PROVE Kept(q)'
    <3>1. q \in Range(pending) \/ q \in Range(recent) \/ Len(recent) = MaxEntries
      BY <1>3, <2>3 DEF NInv, Places, Kept, Events
    <3> QED
      BY <1>9, <1>10, <3>1 DEF Kept
  <2> QED
    BY <1>9, <1>11, <2>2, <2>3 DEF Places
<1>17. Fates'
  <2>1. ASSUME NEW q \in Range(recent')
        PROVE  /\ entry'[q].failed <=> wire[q] # "finished"
               /\ wire[q] = "finished" => HasStatus(q)'
    <3>1. CASE q \in Range(pending)
      <4>1. ~ Ended(q)
        BY <1>3, <3>1 DEF NInv, Fates, Ended, Events
      <4> QED
        BY <1>12, <3>1, <4>1 DEF Ended
    <3>2. CASE q \notin Range(pending)
      <4>1. q \in Range(recent) /\ entry'[q] = entry[q]
        BY <1>6, <1>9, <1>12, <3>2
      <4> QED
        BY <1>5, <4>1 DEF NInv, Fates, HasStatus
    <3> QED
      BY <3>1, <3>2
  <2> QED
    BY <1>4, <1>11, <2>1 DEF Fates
<1> QED
  BY <1>13, <1>14, <1>15, <1>16, <1>17 DEF NInv

LEMMA BodyKeeps == ASSUME NInv, NEW r \in NetRequest, BodyRead(r) PROVE NInv'
<1>1. /\ r \in bodies /\ bodies' = bodies \ {r} /\ entry' = [entry EXCEPT ![r] = [entry[r] EXCEPT !.status = TRUE]]
      /\ UNCHANGED <<wire, attached, handlers, pending, recent>>
  BY DEF BodyRead
<1>2. /\ entry[r] \in Started /\ entry \in [NetRequest -> Entries] /\ bodies \subseteq NetRequest
      /\ Range(recent) \subseteq NetRequest /\ Range(pending) \subseteq NetRequest
  BY <1>1, RangeIn DEF NInv, NTypes, Places, Entered
<1>3. /\ entry' \in [NetRequest -> Entries] /\ entry'[r] \in Started /\ entry'[r].status
      /\ entry'[r].failed = entry[r].failed /\ \A q \in NetRequest : q # r => entry'[q] = entry[q]
  <2>1. /\ [entry[r] EXCEPT !.status = TRUE] \in Started /\ [entry[r] EXCEPT !.status = TRUE].status
        /\ [entry[r] EXCEPT !.status = TRUE].failed = entry[r].failed
    BY <1>2 DEF Started
  <2> QED
    BY <1>1, <1>2, <2>1 DEF Entries
<1>4. \A e, q : Waits(e, q)' <=> Waits(e, q)
  BY <1>1 DEF Waits
<1>5. Queue' /\ Later' /\ Drained'
  BY <1>1 DEF NInv, Queue, Later, Drained, Waits, Ended
<1>6. NTypes'
  BY <1>1, <1>2, <1>3 DEF NInv, NTypes
<1>7. \A q \in NetRequest : (Entered(q) => Entered(q)') /\ (HasStatus(q) => HasStatus(q)')
  BY <1>1, <1>3, <1>4 DEF Entered, HasStatus
<1>8. Places'
  BY <1>1, <1>2, <1>4, <1>7 DEF NInv, Places, Kept
<1>9. Fates'
  <2>1. \A q \in Range(pending') : Ended(q)' => Waits(wire[q], q)'
    BY <1>1 DEF NInv, Fates, Ended, Waits
  <2>2. \A q \in NetRequest : entry'[q].failed = entry[q].failed
    BY <1>3
  <2> QED
    BY <1>1, <1>2, <1>4, <1>7, <2>1, <2>2 DEF NInv, Fates, Ended
<1> QED
  BY <1>5, <1>6, <1>8, <1>9 DEF NInv

LEMMA NInvInit == NInit => NInv
<1> SUFFICES ASSUME NInit PROVE NInv
  OBVIOUS
<1>1. /\ wire = [r \in NetRequest |-> None] /\ attached = TRUE /\ handlers = <<>> /\ pending = <<>>
      /\ recent = <<>> /\ bodies = {} /\ entry = [r \in NetRequest |-> None]
  BY DEF NInit
<1>2. Range(handlers) = {} /\ Range(pending) = {} /\ Range(recent) = {} /\ IsInjective(pending) /\ IsInjective(recent)
  BY <1>1 DEF Range, IsInjective
<1>3. NTypes
  BY <1>1, NetworkAssumption DEF NTypes, Entries
<1>4. Queue /\ Later
  BY <1>1, <1>2 DEF Queue, Later, Waits
<1>5. Places /\ Fates /\ Drained
  BY <1>1, <1>2 DEF Places, Fates, Drained
<1> QED
  BY <1>3, <1>4, <1>5 DEF NInv

LEMMA NInvKept == NInv /\ [NNext]_nvars => NInv'
<1> SUFFICES ASSUME NInv, [NNext]_nvars PROVE NInv'
  OBVIOUS
<1>1. CASE \E r \in NetRequest, event \in {"request", "response", "finished", "failed"} : PageEvent(event, r)
  BY <1>1, EventKeeps DEF Events
<1>2. CASE Detach
  BY <1>2, DetachKeeps
<1>3. CASE RunHandler
  <2> DEFINE e == Head(handlers).does  r == Head(handlers).of
  <2>1. handlers # <<>> /\ handlers' = Tail(handlers) /\ UNCHANGED <<wire, attached>>
    BY <1>3 DEF RunHandler
  <2>2. Head(handlers) \in Tasks
    BY <2>1, TaskRuns
  <2>3. \/ e \in Events /\ Head(handlers) = [does |-> e, of |-> r]
        \/ e = "flush"
    BY <2>2, TaskFields
  <2>4. /\ e = "request" => handle_request(r)
        /\ e = "response" => handle_response(r)
        /\ e = "finished" => EndEntry(r, FALSE)
        /\ e = "failed" => EndEntry(r, TRUE)
        /\ e = "flush" => Flush
    BY <1>3 DEF RunHandler
  <2> HIDE DEF e, r
  <2>5. CASE e = "request"
    BY <2>1, <2>3, <2>4, <2>5, RequestKeeps
  <2>6. CASE e = "response"
    BY <2>1, <2>3, <2>4, <2>6, ResponseKeeps
  <2>7. CASE e = "finished"
    BY <2>1, <2>3, <2>4, <2>7, EntryEndKeeps
  <2>8. CASE e = "failed"
    BY <2>1, <2>3, <2>4, <2>8, EntryEndKeeps
  <2>9. CASE e = "flush"
    BY <2>1, <2>4, <2>9, FlushKeeps DEF e
  <2> QED
    BY <2>3, <2>5, <2>6, <2>7, <2>8, <2>9 DEF Events
<1>4. CASE \E r \in NetRequest : BodyRead(r)
  BY <1>4, BodyKeeps
<1>5. CASE UNCHANGED nvars
  <2>1. UNCHANGED <<wire, attached, handlers, pending, recent, bodies, entry>>
    BY <1>5 DEF nvars
  <2> QED
    BY <2>1 DEF NInv, NTypes, Queue, Later, Places, Fates, Drained, Waits, Ended, Entered, HasStatus, Kept
<1> QED
  BY <1>1, <1>2, <1>3, <1>4, <1>5 DEF NNext

LEMMA NInvariant == NSpec => []NInv
BY NInvInit, NInvKept, PTL DEF NSpec

\* The network log tells how each request ended, however far the handlers are behind the page,
\* and after detach nothing is pending or lost (network_inspector.py, the five handlers).
THEOREM LogSettles == NSpec => []NetworkSettled
<1>1. ASSUME NInv PROVE NetworkSettled
  <2>1. IsInjective(recent) /\ Range(recent) \cap Range(pending) = {}
    BY <1>1 DEF NInv, Places
  <2>2. ASSUME NEW r \in Range(recent)
        PROVE  /\ entry[r].failed <=> wire[r] # "finished"
               /\ wire[r] = "finished" /\ r \notin bodies => entry[r].status
    BY <1>1 DEF NInv, Fates, HasStatus
  <2>3. ASSUME ~ attached, handlers = <<>>
        PROVE  /\ pending = <<>>
               /\ \A r \in NetRequest \ SkippedRequests : wire[r] # None => Kept(r)
    <3>1. \A e, q : ~ Waits(e, q)
      BY <2>3 DEF Waits, Range
    <3>2. pending = <<>> /\ Range(pending) = {}
      BY <1>1, <2>3, <3>1 DEF NInv, Drained, Range
    <3> QED
      BY <1>1, <3>1, <3>2 DEF NInv, Places
  <2> QED
    BY <2>1, <2>2, <2>3 DEF NetworkSettled
<1>2. NInv => NetworkSettled
  BY <1>1
<1> QED
  BY <1>2, NInvariant, PTL
=============================================================================
