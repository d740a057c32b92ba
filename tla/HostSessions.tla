---------------------------- MODULE HostSessions ----------------------------
(***************************************************************************)
(* One hosted service's connections: iroh/host.rs with the session index   *)
(* of iroh/session.rs and stop_service of iroh/node.rs.                    *)
(*                                                                         *)
(* Each connection has a HANDLER task (route_connection followed by        *)
(* start_authenticated_host_connection) and, once admitted, a CLOSER task  *)
(* that waits for the connection to end.  Neither awaits anything between  *)
(* the updates below, but tasks run on several threads and every update    *)
(* takes a lock of its own: the session index, the service status, the     *)
(* tracked connections.  Each is therefore an action.                      *)
(*                                                                         *)
(* An admitted connection stands for the SessionEntry, the tuple that      *)
(* registration returns and the events its player causes.  Which token     *)
(* authenticates is the business of module HostNode: here a connection     *)
(* either does or does not.  The peer or the network may end a connection  *)
(* at any time.  Lock poisoning, the path monitor and the bridges that a   *)
(* connection carries are left out.                                        *)
(***************************************************************************)
EXTENDS Naturals, FiniteSets

CONSTANTS
  Peers,       \* Endpoint ids of the players.
  Conns,       \* Connections they open.
  PeerOf,      \* The endpoint each connection comes from.
  MaxPlayers,  \* max_players of the HostConfig.
  NoConn       \* No connection.

ASSUME ConnsAssumption ==
  /\ IsFiniteSet(Conns) /\ IsFiniteSet(Peers)
  /\ PeerOf \in [Conns -> Peers]
  /\ NoConn \notin Conns
ASSUME MaxPlayersAssumption == MaxPlayers \in Nat \ {0}

VARIABLES
  phase,     \* HostedServiceStatus.phase; the service is routable while Active.
  sessions,  \* HostSessions.by_id; generation 0 means no entry.
  tracked,   \* HostContext.conns.
  alive,     \* Connections that are open.
  handler,   \* Where the handler of each connection is.
  local,     \* What the tasks of each connection hold in local variables.
  closer,    \* Where the closer of each connection is.
  count,     \* HostedServiceStatus.connection_count.
  joined,    \* Connections whose PlayerJoined has been emitted.
  left       \* Connections whose PlayerLeft has been emitted.

vars == <<phase, sessions, tracked, alive, handler, local, closer, count, joined, left>>

-----------------------------------------------------------------------------
(* Types and helpers *)

NoSession == [gen |-> 0, conn |-> NoConn]
NoLocal == [gen |-> 0, fresh |-> FALSE, old |-> NoConn, count |-> 0, removed |-> FALSE]

HandlerPcs == {"idle", "authenticated", "waiting", "registered", "counted",
               "replaced", "tracked", "done", "rejected", "refused"}
CloserPcs == {"none", "watching", "removing", "leaving", "done"}

Sessions == [gen : Nat, conn : Conns \cup {NoConn}]
Locals == [gen : Nat, fresh : BOOLEAN, old : Conns \cup {NoConn},
           count : 0 .. MaxPlayers, removed : BOOLEAN]

HasSession(p) == sessions[p].gen # 0
ActivePlayers == {p \in Peers : HasSession(p)}

HasCapacityFor(p) == HasSession(p) \/ Cardinality(ActivePlayers) < MaxPlayers

\* HostSessions::upsert and the tuple it is returned in.
Upsert(c) ==
  LET p == PeerOf[c]
  IN  /\ sessions' = [sessions EXCEPT ![p] = [gen |-> @.gen + 1, conn |-> c]]
      /\ local' = [local EXCEPT ![c] =
                     [gen |-> sessions[p].gen + 1, fresh |-> ~HasSession(p),
                      old |-> sessions[p].conn,
                      count |-> Cardinality(ActivePlayers \cup {p}), removed |-> FALSE]]

TypeOK ==
  /\ phase \in {"Active", "Stopping", "Stopped"}
  /\ sessions \in [Peers -> Sessions]
  /\ \A p \in Peers : HasSession(p) <=> sessions[p].conn # NoConn
  /\ tracked \subseteq Conns
  /\ alive \subseteq Conns
  /\ handler \in [Conns -> HandlerPcs]
  /\ local \in [Conns -> Locals]
  /\ closer \in [Conns -> CloserPcs]
  /\ count \in 0 .. MaxPlayers
  /\ joined \subseteq Conns
  /\ left \subseteq Conns

Init ==
  /\ phase = "Active"
  /\ sessions = [p \in Peers |-> NoSession]
  /\ tracked = {}
  /\ alive = {}
  /\ handler = [c \in Conns |-> "idle"]
  /\ local = [c \in Conns |-> NoLocal]
  /\ closer = [c \in Conns |-> "none"]
  /\ count = 0
  /\ joined = {}
  /\ left = {}

-----------------------------------------------------------------------------
(* Handlers *)

HandlerStep(c, from, to) ==
  /\ handler[c] = from
  /\ handler' = [handler EXCEPT ![c] = to]

\* route_connection finds the service registered and the token right.
Authenticate(c) ==
  /\ phase = "Active"
  /\ HandlerStep(c, "idle", "authenticated")
  /\ alive' = alive \cup {c}
  /\ UNCHANGED <<phase, sessions, tracked, local, closer, count, joined, left>>

\* route_connection finds no such service, or another token.
Refuse(c) ==
  /\ HandlerStep(c, "idle", "refused")
  /\ UNCHANGED <<phase, sessions, tracked, alive, local, closer, count, joined, left>>

\* register_session_with_grace: admitted at once.
Register(c) ==
  /\ HasCapacityFor(PeerOf[c])
  /\ HandlerStep(c, "authenticated", "registered")
  /\ Upsert(c)
  /\ UNCHANGED <<phase, tracked, alive, closer, count, joined, left>>

\* register_session_with_grace: full, wait FULL_RECHECK_DELAY.
WaitForRoom(c) ==
  /\ ~HasCapacityFor(PeerOf[c])
  /\ HandlerStep(c, "authenticated", "waiting")
  /\ UNCHANGED <<phase, sessions, tracked, alive, local, closer, count, joined, left>>

\* Mutant: the capacity is not checked again after the wait.
AdmitAfterWaitUnchecked(c) ==
  /\ HandlerStep(c, "waiting", "registered")
  /\ Upsert(c)
  /\ UNCHANGED <<phase, tracked, alive, closer, count, joined, left>>

\* The second check, after the wait, admits ...
AdmitAfterWait(c) ==
  /\ HasCapacityFor(PeerOf[c])
  /\ HandlerStep(c, "waiting", "registered")
  /\ Upsert(c)
  /\ UNCHANGED <<phase, tracked, alive, closer, count, joined, left>>

\* ... or rejects and closes the connection.
RejectFull(c) ==
  /\ ~HasCapacityFor(PeerOf[c])
  /\ HandlerStep(c, "waiting", "rejected")
  /\ alive' = alive \ {c}
  /\ UNCHANGED <<phase, sessions, tracked, local, closer, count, joined, left>>

\* set_connection_count with the count taken under the session lock.
PublishCount(c) ==
  /\ HandlerStep(c, "registered", "counted")
  /\ count' = local[c].count
  /\ UNCHANGED <<phase, sessions, tracked, alive, local, closer, joined, left>>

\* The connection this one replaces is closed.
CloseReplaced(c) ==
  /\ HandlerStep(c, "counted", "replaced")
  /\ alive' = alive \ {local[c].old}
  /\ UNCHANGED <<phase, sessions, tracked, local, closer, count, joined, left>>

Track(c) ==
  /\ HandlerStep(c, "replaced", "tracked")
  /\ tracked' = tracked \cup {c}
  /\ UNCHANGED <<phase, sessions, alive, local, closer, count, joined, left>>

\* Mutant: PlayerJoined is emitted for a reconnection, too.
AnnounceAlways(c) ==
  /\ HandlerStep(c, "tracked", "done")
  /\ joined' = joined \cup {c}
  /\ closer' = [closer EXCEPT ![c] = "watching"]
  /\ UNCHANGED <<phase, sessions, tracked, alive, local, count, left>>

\* PlayerJoined, unless this is a reconnection; the closer is spawned.
Announce(c) ==
  /\ HandlerStep(c, "tracked", "done")
  /\ joined' = IF local[c].fresh THEN joined \cup {c} ELSE joined
  /\ closer' = [closer EXCEPT ![c] = "watching"]
  /\ UNCHANGED <<phase, sessions, tracked, alive, local, count, left>>

-----------------------------------------------------------------------------
(* Closers *)

IsCurrentSession(c) == HasSession(PeerOf[c]) /\ sessions[PeerOf[c]].gen = local[c].gen

\* Mutant: the closer takes its count and leaves the session in place.
KeepSession(c) ==
  /\ closer[c] = "watching"
  /\ c \notin alive
  /\ UNCHANGED sessions
  /\ local' = [local EXCEPT ![c].count = Cardinality(ActivePlayers),
                            ![c].removed = IsCurrentSession(c)]
  /\ closer' = [closer EXCEPT ![c] = "removing"]
  /\ UNCHANGED <<phase, tracked, alive, handler, count, joined, left>>

\* The connection has ended: remove_if_current and the count it leaves.
RemoveIfCurrent(c) ==
  /\ closer[c] = "watching"
  /\ c \notin alive
  /\ sessions' = IF IsCurrentSession(c) THEN [sessions EXCEPT ![PeerOf[c]] = NoSession]
                 ELSE sessions
  /\ local' = [local EXCEPT
       ![c].count = Cardinality(ActivePlayers \ (IF IsCurrentSession(c) THEN {PeerOf[c]} ELSE {})),
       ![c].removed = IsCurrentSession(c)]
  /\ closer' = [closer EXCEPT ![c] = "removing"]
  /\ UNCHANGED <<phase, tracked, alive, handler, count, joined, left>>

\* set_connection_count with the count taken under the session lock.
PublishCountLeft(c) ==
  /\ closer[c] = "removing"
  /\ count' = local[c].count
  /\ closer' = [closer EXCEPT ![c] = "leaving"]
  /\ UNCHANGED <<phase, sessions, tracked, alive, handler, local, joined, left>>

\* PlayerLeft, unless a later connection has taken the session over.
AnnounceLeft(c) ==
  /\ closer[c] = "leaving"
  /\ left' = IF local[c].removed THEN left \cup {c} ELSE left
  /\ closer' = [closer EXCEPT ![c] = "done"]
  /\ UNCHANGED <<phase, sessions, tracked, alive, handler, local, count, joined>>

-----------------------------------------------------------------------------
(* The peer, and stop_service *)

ConnectionEnds(c) ==
  /\ c \in alive
  /\ alive' = alive \ {c}
  /\ UNCHANGED <<phase, sessions, tracked, handler, local, closer, count, joined, left>>

\* stop_service removes the service from routing.
StopService ==
  /\ phase = "Active"
  /\ phase' = "Stopping"
  /\ UNCHANGED <<sessions, tracked, alive, handler, local, closer, count, joined, left>>

\* Mutant: the tracked connections are forgotten without being closed.
DrainWithoutClose ==
  /\ phase = "Stopping"
  /\ phase' = "Stopped"
  /\ tracked' = {}
  /\ UNCHANGED <<sessions, alive, handler, local, closer, count, joined, left>>

\* It drains and closes the tracked connections, and holds their lock until the
\* phase is Stopped.
DrainConnections ==
  /\ phase = "Stopping"
  /\ phase' = "Stopped"
  /\ alive' = alive \ tracked
  /\ tracked' = {}
  /\ UNCHANGED <<sessions, handler, local, closer, count, joined, left>>

-----------------------------------------------------------------------------
HandlerNext(c) ==
  \/ Register(c) \/ WaitForRoom(c) \/ AdmitAfterWait(c) \/ RejectFull(c)
  \/ PublishCount(c) \/ CloseReplaced(c) \/ Track(c) \/ Announce(c)

CloserNext(c) == RemoveIfCurrent(c) \/ PublishCountLeft(c) \/ AnnounceLeft(c)

Next ==
  \/ \E c \in Conns :
       \/ Authenticate(c) \/ Refuse(c) \/ HandlerNext(c) \/ CloserNext(c)
       \/ ConnectionEnds(c)
  \/ StopService
  \/ DrainConnections

(***************************************************************************)
(* The scheduler runs every task that can run.  Nothing makes a peer       *)
(* connect or disconnect, nor a user stop the service.                     *)
(***************************************************************************)
Fairness ==
  /\ \A c \in Conns : WF_vars(HandlerNext(c)) /\ WF_vars(CloserNext(c))
  /\ WF_vars(DrainConnections)

Spec == Init /\ [][Next]_vars
FairSpec == Spec /\ Fairness

-----------------------------------------------------------------------------
(* Safety *)

Registered == {"registered", "counted", "replaced", "tracked", "done"}

\* The session index never holds more players than max_players, whichever
\* handlers check, wait and register at the same time.
CapacityRespected == Cardinality(ActivePlayers) <= MaxPlayers

\* Every session was registered by a connection of that player whose closer has
\* yet to run, so every session is removed once that connection has ended.
SessionsHaveClosers ==
  \A p \in ActivePlayers :
    LET c == sessions[p].conn
    IN  /\ PeerOf[c] = p
        /\ local[c].gen = sessions[p].gen
        /\ handler[c] \in Registered
        /\ closer[c] \in {"none", "watching"}

\* The players announced as joined, and those about to be, are the ones announced
\* as left, those about to be, and the one in the session index.
Joins(p) ==
  {c \in Conns : PeerOf[c] = p /\
                   (\/ c \in joined
                    \/ handler[c] \in Registered \ {"done"} /\ local[c].fresh)}
Leaves(p) ==
  {c \in Conns : PeerOf[c] = p /\
                   (\/ c \in left
                    \/ closer[c] \in {"removing", "leaving"} /\ local[c].removed)}
JoinsMatchLeaves ==
  \A p \in Peers :
    Cardinality(Joins(p)) = Cardinality(Leaves(p)) + (IF HasSession(p) THEN 1 ELSE 0)

\* A connection that its handler has finished admitting is tracked for as long as
\* it is open, so a stop that drains later closes it.
OpenIsTracked ==
  \A c \in alive : handler[c] \in {"tracked", "done"} => c \in tracked

\* A connection that replaced none and that none has replaced keeps its session
\* while it is open: remove_if_current removes "only when generation matches the
\* current session", so a stale connection's end is ignored.
OpenKeepsSession ==
  \A c \in alive :
    (handler[c] \in Registered /\ \A d \in Conns : local[d].old # c) => HasSession(PeerOf[c])

-----------------------------------------------------------------------------
(* Liveness *)

\* A session does not outlive its connection.
EndedSessionsGo ==
  \A p \in Peers : \A c \in Conns :
    (sessions[p].conn = c /\ c \notin alive) ~> (sessions[p].conn # c)
=============================================================================
