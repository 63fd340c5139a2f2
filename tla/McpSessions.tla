---------------------------- MODULE McpSessions ----------------------------
(***************************************************************************)
(* McpHttpTransport: the sessions of MCP clients, their handshake and their *)
(* subscriptions to browser resources, in memory and in the store.         *)
(*                                                                         *)
(* A request is one step: between reading a session and answering, the     *)
(* transport waits only for the tool gateway, and uses nothing after it.   *)
(***************************************************************************)
EXTENDS Naturals, Sequences, FiniteSets, FiniteSetsExt, ServiceValues

CONSTANTS McpId,      \* session identifiers, each given out once
          Resource,   \* resources of a browser session that are subscribed to
          MaxKept,    \* the transport keeps 500 sessions
          Setups      \* what is looked at: [stored, fails, starts]: is there a store, how
                      \* often may writing it fail, how often may the controller restart

ASSUME McpAssumption ==
  /\ MaxKept \in Nat \ {0}
  /\ Setups \subseteq [stored : BOOLEAN, fails : Nat, starts : Nat]
  /\ IsFiniteSet(McpId)
  /\ None \notin [ready : BOOLEAN, subs : SUBSET Resource, at : Nat]

VARIABLES setup,
          known,   \* _sessions: set of identifiers
          obj,     \* the McpSession objects: id -> [ready, subs, at], or None
          saved,   \* the store file: id -> [ready, subs, at] or None
          browser, \* is the browser session open?
          client,  \* what a client was told: id -> [state, subs]
          dropped, \* history: sessions the transport dropped to keep to its limit
          unsaved  \* history: changes that stayed in memory as their save failed: <<id, what>>

pvars == <<setup, known, obj, saved, browser, client, dropped, unsaved>>

Stranger == [state |-> "none", subs |-> {}]
Nothing == [p \in McpId |-> None]

PInit ==
  /\ setup \in Setups
  /\ known = {} /\ obj = Nothing /\ saved = Nothing
  /\ browser = FALSE
  /\ client = [p \in McpId |-> Stranger]
  /\ dropped = {} /\ unsaved = {}

-----------------------------------------------------------------------------
(* The store.                                                              *)

\* _evict_stale_sessions: those created first go, of equals the lower identifier, so any.
Survivors(ids, objects) ==
  {kept \in SUBSET ids :
     /\ Cardinality(kept) = Min({MaxKept, Cardinality(ids)})
     /\ \A p \in ids \ kept, q \in kept : objects[p].at <= objects[q].at}

\* Mutant: the store is written, then the sessions in excess are dropped from memory.
PersistAll(ids, objects, told, change) ==
  /\ obj' = objects
  /\ \E kept \in Survivors(ids, objects) :
       /\ known' = kept
       /\ dropped' = dropped \cup (ids \ kept)
       /\ saved' = [p \in McpId |-> IF p \in known THEN objects[p] ELSE None]
  /\ client' = told
  /\ UNCHANGED <<setup, unsaved>>

\* _persist_sessions, and the answer: without a store nothing is evicted or written; a write
\* that fails leaves the change in memory and the client with an error.
Persist(ids, objects, told, change) ==
  /\ obj' = objects
  /\ \/ /\ ~setup.stored
        /\ known' = ids /\ client' = told
        /\ UNCHANGED <<setup, saved, dropped, unsaved>>
     \/ /\ setup.stored
        /\ \E kept \in Survivors(ids, objects) :
             /\ known' = kept
             /\ dropped' = dropped \cup (ids \ kept)
             /\ \/ /\ saved' = [p \in McpId |-> IF p \in kept THEN objects[p] ELSE None]
                   /\ client' = told
                   /\ UNCHANGED <<setup, unsaved>>
                \/ /\ setup.fails > 0
                   /\ setup' = [setup EXCEPT !.fails = @ - 1]
                   /\ unsaved' = unsaved \cup {change}
                   /\ UNCHANGED <<saved, client>>

-----------------------------------------------------------------------------
(* The handshake.                                                          *)

\* initialize, with a version that is supported; created_at may be that of another session.
Initialize(p) ==
  /\ obj[p] = None /\ client[p].state = "none" /\ <<p, "new">> \notin unsaved
  /\ LET latest == Max({0} \cup {obj[q].at : q \in {q \in McpId : obj[q] # None}}) IN
     \E at \in {latest, latest + 1} :
       Persist(known \cup {p}, [obj EXCEPT ![p] = [ready |-> FALSE, subs |-> {}, at |-> at]],
                [client EXCEPT ![p].state = "hello"], <<p, "new">>)
  /\ UNCHANGED browser

\* notifications/initialized of a session that is known; it may come again.
Initialized(p) ==
  /\ p \in known /\ client[p].state # "none"
  /\ Persist(known, [obj EXCEPT ![p].ready = TRUE],
              [client EXCEPT ![p].state = "ready"], <<p, "ready">>)
  /\ UNCHANGED browser

\* DELETE of a session that is known; a failed save answers an error, and it is gone all the
\* same until the store is read again.
EndSession(p) ==
  /\ p \in known /\ client[p].state # "none"
  /\ Persist(known \ {p}, obj, [client EXCEPT ![p] = [state |-> "ended", subs |-> {}]],
              <<p, "ended">>)
  /\ UNCHANGED browser

-----------------------------------------------------------------------------
(* Resources.                                                              *)

\* _require_session, and that it is initialized.
MayAsk(p) == p \in known /\ client[p].state = "ready" /\ obj[p].ready

\* _list_resources: the list of sessions, and what there is of an open session.
Listed == {"sessions"} \cup (IF browser THEN Resource ELSE {})

Subscribed(p, u) == [obj EXCEPT ![p].subs = @ \cup {u}]

\* resources/subscribe to a resource that is listed.  One that is there already is not saved.
Subscribe(p, u) ==
  /\ MayAsk(p) /\ u \in Listed
  /\ \/ /\ u \notin obj[p].subs
        /\ Persist(known, Subscribed(p, u), [client EXCEPT ![p].subs = @ \cup {u}], <<p, u>>)
     \/ /\ u \in obj[p].subs
        /\ client' = [client EXCEPT ![p].subs = @ \cup {u}]
        /\ UNCHANGED <<setup, known, obj, saved, dropped, unsaved>>
  /\ UNCHANGED browser

Unsubscribe(p, u) ==
  /\ MayAsk(p) /\ u \in obj[p].subs
  /\ Persist(known, [obj EXCEPT ![p].subs = @ \ {u}], [client EXCEPT ![p].subs = @ \ {u}], <<p, u>>)
  /\ UNCHANGED browser

\* The browser manager opens or closes a session; the transport reads its list.
Browse == browser' = ~browser /\ UNCHANGED <<setup, known, obj, saved, client, dropped, unsaved>>

\* The controller restarts: _load_sessions reads the store; the browser is gone.
RestartMcp ==
  /\ setup.starts > 0
  /\ setup' = [setup EXCEPT !.starts = @ - 1]
  /\ known' = {p \in McpId : saved[p] # None}
  /\ obj' = saved
  /\ browser' = FALSE
  /\ UNCHANGED <<saved, client, dropped, unsaved>>

PNext ==
  \/ \E p \in McpId : \/ Initialize(p) \/ Initialized(p) \/ EndSession(p)
                      \/ \E u \in Resource : Subscribe(p, u) \/ Unsubscribe(p, u)
  \/ Browse \/ RestartMcp

PSpec == PInit /\ [][PNext]_pvars

-----------------------------------------------------------------------------

\* What a client was told outlives a restart: if there is a store, the session of a client
\* that did its handshake is in the file, initialized and with the subscriptions that were
\* confirmed, unless it was dropped for the limit or a save of just this failed.  (A repeated
\* subscribe is confirmed without a save, also when the first one could not be saved.)
DurableSessions ==
  setup.stored =>
    \A p \in McpId \ dropped :
      LET c == client[p] IN
      /\ (c.state \in {"hello", "ready"} /\ <<p, "ended">> \notin unsaved) =>
           /\ saved[p] # None
           /\ c.state = "ready" => saved[p].ready
           /\ \A u \in c.subs : u \in saved[p].subs \/ <<p, u>> \in unsaved
      /\ c.state = "ended" => saved[p] = None
=============================================================================
