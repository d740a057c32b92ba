--------------------------- MODULE JoinSupervisor ---------------------------
(***************************************************************************)
(* The join side of a tunnel: core/src/tunnel/iroh/join.rs with join_to    *)
(* and close of iroh/mod.rs.                                               *)
(*                                                                         *)
(* The SUPERVISOR connects, serves the connection until it is lost, and    *)
(* then reconnects until it succeeds, is rejected for good, times out or   *)
(* is shut down.  For every connection it serves there is an ACCEPT LOOP,  *)
(* which takes a permit and then a local client, and hands the client to a *)
(* SESSION that keeps the permit until it has ended.  An aborted loop may  *)
(* still finish the poll it is in.                                         *)
(*                                                                         *)
(* One poll of a select! is an action.  The inner select of a reconnection *)
(* is biased: shutdown, timeout, outcome, progress tick; the other two     *)
(* take any branch that is ready.  Timers are flags that the environment   *)
(* raises.  What a session copies is left out, and so are the path monitor *)
(* and the tracked connections, which only snapshots read.                 *)
(***************************************************************************)
EXTENDS Naturals, FiniteSets

CONSTANTS
  MaxConns,        \* Bound on connections established.
  MaxAttempts,     \* Bound on attempts announced in one outage.
  MaxClients,      \* Bound on local clients waiting at the listener.
  SessionsMax,     \* local_sessions_max.
  InitialRetries,  \* initial_retries.
  Timeout          \* reconnect_timeout: "none", "zero" or "some".

ASSUME BoundsAssumption ==
  /\ MaxConns \in Nat \ {0} /\ MaxAttempts \in Nat \ {0} /\ MaxClients \in Nat
ASSUME ConfigAssumption ==
  /\ SessionsMax \in Nat \ {0}
  /\ InitialRetries \in Nat
  /\ Timeout \in {"none", "zero", "some"}

VARIABLES
  sup,        \* Where the supervisor is: its pc, connection and attempt.
  connects,   \* Calls of endpoint.connect since the last connection.
  outcome,    \* Of the reconnect_once under way.
  tick,       \* Whether the progress interval has a tick ready.
  timedOut,   \* Whether the reconnect timeout has passed.
  shutdown,   \* The shutdown signal.
  conn,       \* State of each connection, with the kind of its end.
  loop,       \* Where the accept loop of each connection is.
  aborted,    \* Connections whose accept loop has been aborted.
  sessions,   \* Sessions under way on each connection.
  backlog     \* Local clients waiting at the listener.

vars == <<sup, connects, outcome, tick, timedOut, shutdown, conn, loop, aborted,
          sessions, backlog>>

timers == <<tick, timedOut>>
local == <<loop, aborted, sessions, backlog>>

-----------------------------------------------------------------------------
(* Types and helpers *)

ConnIds == 1 .. MaxConns
Established == {n \in ConnIds : conn[n] # "none"}
NextConn == Cardinality(Established) + 1

Outage == {"reconnecting", "connecting", "waiting"}

TypeOK ==
  /\ sup \in [pc : {"joining", "backoff", "serving", "done"} \cup Outage,
              conn : 0 .. MaxConns, attempt : 0 .. MaxAttempts + InitialRetries]
  /\ connects \in 0 .. MaxAttempts + InitialRetries + 1
  /\ outcome \in {"pending", "connected", "retry", "rejected"}
  /\ tick \in BOOLEAN
  /\ timedOut \in BOOLEAN
  /\ shutdown \in BOOLEAN
  /\ conn \in [ConnIds -> {"none", "open", "lost", "rejected", "closed"}]
  /\ loop \in [ConnIds -> {"none", "acquire", "accept", "over"}]
  /\ aborted \subseteq Established
  /\ sessions \in [ConnIds -> 0 .. SessionsMax]
  /\ \A n \in ConnIds : loop[n] = "accept" => sessions[n] < SessionsMax
  /\ backlog \in 0 .. MaxClients

Init ==
  /\ sup = [pc |-> "joining", conn |-> 0, attempt |-> 0]
  /\ connects = 0
  /\ outcome = "pending"
  /\ tick = FALSE
  /\ timedOut = FALSE
  /\ shutdown = FALSE
  /\ conn = [n \in ConnIds |-> "none"]
  /\ loop = [n \in ConnIds |-> "none"]
  /\ aborted = {}
  /\ sessions = [n \in ConnIds |-> 0]
  /\ backlog = 0

\* A connection is served: its accept loop is spawned.
Serve(n) ==
  /\ sup' = [pc |-> "serving", conn |-> n, attempt |-> 0]
  /\ connects' = 0
  /\ conn' = [conn EXCEPT ![n] = "open"]
  /\ loop' = [loop EXCEPT ![n] = "acquire"]
  /\ UNCHANGED <<aborted, sessions, backlog>>

Exit == sup' = [sup EXCEPT !.pc = "done"]

-----------------------------------------------------------------------------
(* connect_with_retry and join_to *)

\* The connection is there, authenticated, and the local listener is bound.
InitialConnected ==
  /\ sup.pc = "joining"
  /\ Serve(NextConn)
  /\ UNCHANGED <<outcome, timers, shutdown>>

\* endpoint.connect fails; the next attempt is announced and waited for.
InitialConnectFails ==
  /\ sup.pc = "joining"
  /\ sup' = IF sup.attempt < InitialRetries
            THEN [sup EXCEPT !.pc = "backoff", !.attempt = @ + 1]
            ELSE [sup EXCEPT !.pc = "done"]
  /\ connects' = connects + 1
  /\ UNCHANGED <<outcome, timers, shutdown, conn, local>>

BackoffEnds ==
  /\ sup.pc = "backoff"
  /\ sup' = [sup EXCEPT !.pc = "joining"]
  /\ UNCHANGED <<connects, outcome, timers, shutdown, conn, local>>

\* Authentication or the listener fails, which is not retried.
InitialJoinFails ==
  /\ sup.pc = "joining"
  /\ Exit
  /\ UNCHANGED <<connects, outcome, timers, shutdown, conn, local>>

-----------------------------------------------------------------------------
(* reconnect_supervisor *)

\* Mutant: a lost connection leaves its accept loop running.
AbortNothing == UNCHANGED aborted

AbortLoop == aborted' = aborted \cup {sup.conn}

IsPermanentRejection == conn[sup.conn] = "rejected"

\* The connection is closed: Disconnected, and the outage begins with
\* Reconnecting unless the host has rejected the player or reconnecting is off.
ConnectionClosed ==
  /\ sup.pc = "serving"
  /\ conn[sup.conn] # "open"
  /\ AbortLoop
  /\ IF IsPermanentRejection \/ Timeout = "zero"
     THEN Exit
     ELSE sup' = [sup EXCEPT !.pc = "reconnecting", !.attempt = 1]
  /\ tick' = FALSE
  /\ timedOut' = FALSE
  /\ UNCHANGED <<connects, outcome, shutdown, conn, loop, sessions, backlog>>

ShutdownServing ==
  /\ sup.pc = "serving"
  /\ shutdown
  /\ AbortLoop
  /\ Exit
  /\ UNCHANGED <<connects, outcome, timers, shutdown, conn, loop, sessions, backlog>>

\* Mutant: the select is not biased.
ConnectUnbiased ==
  /\ sup.pc = "reconnecting"
  /\ sup' = [sup EXCEPT !.pc = "connecting"]
  /\ connects' = connects + 1
  /\ outcome' = "pending"
  /\ UNCHANGED <<timers, shutdown, conn, local>>

\* The biased select is polled first: reconnect_once calls endpoint.connect.
Connect ==
  /\ sup.pc = "reconnecting"
  /\ ~shutdown /\ ~timedOut
  /\ sup' = [sup EXCEPT !.pc = "connecting"]
  /\ connects' = connects + 1
  /\ outcome' = "pending"
  /\ UNCHANGED <<timers, shutdown, conn, local>>

\* Mutant: the timeout is looked at between two attempts only.
GiveUpBetweenAttempts ==
  /\ sup.pc \in Outage
  /\ shutdown \/ (timedOut /\ sup.pc = "waiting")
  /\ Exit
  /\ UNCHANGED <<connects, outcome, timers, shutdown, conn, local>>

\* Either select ends the supervisor on shutdown or, with an Error event, when the
\* timeout has passed; a connection that is ready at that moment is dropped.
GiveUp ==
  /\ sup.pc \in Outage
  /\ shutdown \/ timedOut
  /\ Exit
  /\ UNCHANGED <<connects, outcome, timers, shutdown, conn, local>>

\* The outcome branches of the biased select.
Reconnected ==
  /\ sup.pc = "connecting"
  /\ ~shutdown /\ ~timedOut
  /\ outcome = "connected"
  /\ Serve(NextConn)
  /\ UNCHANGED <<outcome, timers, shutdown>>

ReconnectRejected ==
  /\ sup.pc = "connecting"
  /\ ~shutdown /\ ~timedOut
  /\ outcome = "rejected"
  /\ Exit
  /\ UNCHANGED <<connects, outcome, timers, shutdown, conn, local>>

\* Mutant: a failed attempt is repeated at once.
RetryAtOnce ==
  /\ sup.pc = "connecting"
  /\ ~shutdown /\ ~timedOut
  /\ outcome = "retry"
  /\ sup' = [sup EXCEPT !.pc = "reconnecting"]
  /\ UNCHANGED <<connects, outcome, timers, shutdown, conn, local>>

Retry ==
  /\ sup.pc = "connecting"
  /\ ~shutdown /\ ~timedOut
  /\ outcome = "retry"
  /\ sup' = [sup EXCEPT !.pc = "waiting"]
  /\ UNCHANGED <<connects, outcome, timers, shutdown, conn, local>>

\* advance_reconnect_progress: the last branch of the biased select ...
Progress ==
  /\ sup.pc = "connecting"
  /\ ~shutdown /\ ~timedOut /\ outcome = "pending"
  /\ tick
  /\ sup.attempt < MaxAttempts
  /\ sup' = [sup EXCEPT !.attempt = @ + 1]
  /\ tick' = FALSE
  /\ UNCHANGED <<connects, outcome, timedOut, shutdown, conn, local>>

\* ... and any time it is ready in the select that waits for the next attempt.
ProgressAndRetry ==
  /\ sup.pc = "waiting"
  /\ tick
  /\ sup.attempt < MaxAttempts
  /\ sup' = [sup EXCEPT !.pc = "reconnecting", !.attempt = @ + 1]
  /\ tick' = FALSE
  /\ UNCHANGED <<connects, outcome, timedOut, shutdown, conn, local>>

-----------------------------------------------------------------------------
(* Accept loops and sessions *)

Acquire(n) ==
  /\ loop[n] = "acquire"
  /\ sessions[n] < SessionsMax
  /\ loop' = [loop EXCEPT ![n] = "accept"]
  /\ UNCHANGED <<sup, connects, outcome, timers, shutdown, conn, aborted, sessions, backlog>>

Accept(n) ==
  /\ loop[n] = "accept"
  /\ backlog > 0
  /\ loop' = [loop EXCEPT ![n] = "acquire"]
  /\ sessions' = [sessions EXCEPT ![n] = @ + 1]
  /\ backlog' = backlog - 1
  /\ UNCHANGED <<sup, connects, outcome, timers, shutdown, conn, aborted>>

\* The loop sees that it is aborted, or the listener fails.
LoopEnds(n) ==
  /\ loop[n] = "accept" \/ (loop[n] = "acquire" /\ n \in aborted)
  /\ loop' = [loop EXCEPT ![n] = "over"]
  /\ UNCHANGED <<sup, connects, outcome, timers, shutdown, conn, aborted, sessions, backlog>>

\* The client, the host or the end of the connection ends a session.
SessionEnds(n) ==
  /\ sessions[n] > 0
  /\ sessions' = [sessions EXCEPT ![n] = @ - 1]
  /\ UNCHANGED <<sup, connects, outcome, timers, shutdown, conn, loop, aborted, backlog>>

-----------------------------------------------------------------------------
(* The environment *)

ClientArrives ==
  /\ backlog < MaxClients
  /\ sup.pc \in {"serving"} \cup Outage
  /\ backlog' = backlog + 1
  /\ UNCHANGED <<sup, connects, outcome, timers, shutdown, conn, loop, aborted, sessions>>

\* The host or the network ends the connection, the host maybe for good.
ConnectionEnds(n, kind) ==
  /\ conn[n] = "open"
  /\ kind \in {"lost", "rejected"}
  /\ conn' = [conn EXCEPT ![n] = kind]
  /\ UNCHANGED <<sup, connects, outcome, timers, shutdown, local>>

\* reconnect_once returns.
OutcomeReady(o) ==
  /\ sup.pc = "connecting"
  /\ outcome = "pending"
  /\ o = "connected" => NextConn \in ConnIds
  /\ outcome' = o
  /\ UNCHANGED <<sup, connects, timers, shutdown, conn, local>>

TickReady ==
  /\ sup.pc \in Outage
  /\ ~tick
  /\ tick' = TRUE
  /\ UNCHANGED <<sup, connects, outcome, timedOut, shutdown, conn, local>>

TimeoutPasses ==
  /\ Timeout = "some"
  /\ sup.pc \in Outage
  /\ ~timedOut
  /\ timedOut' = TRUE
  /\ UNCHANGED <<sup, connects, outcome, tick, shutdown, conn, local>>

\* close, or the drop, of the tunnel that join_to has returned: the signal, and
\* then the end of the endpoint, with its connections.
Shutdown ==
  /\ Established # {}
  /\ ~shutdown
  /\ shutdown' = TRUE
  /\ UNCHANGED <<sup, connects, outcome, timers, conn, local>>

EndpointCloses(n) ==
  /\ shutdown
  /\ conn[n] = "open"
  /\ conn' = [conn EXCEPT ![n] = "closed"]
  /\ UNCHANGED <<sup, connects, outcome, timers, shutdown, local>>

-----------------------------------------------------------------------------
SupervisorNext ==
  \/ BackoffEnds
  \/ ConnectionClosed \/ ShutdownServing
  \/ Connect \/ GiveUp \/ Reconnected \/ ReconnectRejected \/ Retry
  \/ Progress \/ ProgressAndRetry

Next ==
  \/ InitialConnected \/ InitialConnectFails \/ InitialJoinFails
  \/ SupervisorNext
  \/ \E n \in ConnIds :
       \/ Acquire(n) \/ Accept(n) \/ LoopEnds(n) \/ SessionEnds(n)
       \/ ConnectionEnds(n, "lost") \/ ConnectionEnds(n, "rejected")
       \/ EndpointCloses(n)
  \/ ClientArrives \/ TickReady \/ TimeoutPasses \/ Shutdown
  \/ \E o \in {"connected", "retry", "rejected"} : OutcomeReady(o)

(***************************************************************************)
(* A task that can go on does, an aborted one ends, a timer that was set   *)
(* fires and an endpoint that is closed closes its connections.  Nothing   *)
(* is assumed of clients, hosts and reconnect_once, nor of sessions: one   *)
(* whose client stops reading may outlive its connection (module Bridge).  *)
(***************************************************************************)
Fairness ==
  /\ WF_vars(SupervisorNext)
  /\ WF_vars(TimeoutPasses)
  /\ \A n \in ConnIds :
       /\ WF_vars(n \in aborted /\ LoopEnds(n))
       /\ WF_vars(EndpointCloses(n))

Spec == Init /\ [][Next]_vars
FairSpec == Spec /\ Fairness

-----------------------------------------------------------------------------
(* Safety *)

\* There is one accept loop that has not been told to end, that of the connection
\* being served: no local client is given to a connection that was given up, but
\* for those a loop takes before it notices.
OneAcceptor ==
  \A n \in ConnIds :
    loop[n] \in {"acquire", "accept"} /\ n \notin aborted =>
      sup.pc = "serving" /\ sup.conn = n

\* Attempts to reconnect are at most as many as the seconds announced: an attempt
\* that fails at once is not repeated before the next tick.
ConnectsPaced == sup.pc \in Outage => connects <= sup.attempt

\* Nothing is connected to once the tunnel is shut down, the timeout has passed or
\* the host has rejected the player for good.
NoConnectAfterEnd ==
  [][connects' > connects =>
       ~shutdown /\ ~timedOut /\ \A n \in ConnIds : conn[n] # "rejected"]_vars

-----------------------------------------------------------------------------
(* Liveness *)

\* After a shutdown the join ends: the supervisor, every accept loop, so that the
\* listener is closed, and every connection, even if the clients of the sessions that
\* are under way keep every permit.
ShutdownEnds ==
  shutdown ~> /\ sup.pc = "done"
              /\ \A n \in ConnIds : loop[n] \in {"none", "over"} /\ conn[n] # "open"

\* An outage ends when there is a timeout, however slowly reconnect_once answers.
OutagesEnd == Timeout = "some" => (sup.pc \in Outage ~> sup.pc \in {"serving", "done"})
=============================================================================
