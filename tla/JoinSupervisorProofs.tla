------------------------ MODULE JoinSupervisorProofs ------------------------
(***************************************************************************)
(* Proofs that JoinSupervisor is type correct, has one acceptor, paces its *)
(* attempts, makes none after its end and is never stuck when it is to     *)
(* end, for any bounds and any configuration of the join; and that a       *)
(* session of it, which Bridge models, loses no data without a reason and  *)
(* is never stuck half over.                                               *)
(***************************************************************************)
EXTENDS JoinSupervisor, Bridge, FiniteSetTheorems, SequenceTheorems, TLAPS

\* Connections are numbered in the order they are established; the supervisor's own
\* is the last.
ConnsNumbered == Established = 1 .. sup.conn

\* What the place of the supervisor says about the connection and the signals.
PlaceExplained ==
  /\ sup.pc \in {"joining", "backoff"} => sup.conn = 0 /\ ~timedOut
  /\ sup.pc \in {"serving"} \cup Outage => sup.conn # 0
  /\ shutdown => sup.conn # 0
  /\ sup.pc = "connecting" /\ outcome = "connected" => sup.conn < MaxConns

\* Every call of endpoint.connect follows an attempt of its own.
AttemptsCounted ==
  /\ sup.pc \in {"joining", "backoff"} => connects <= sup.attempt /\ sup.attempt <= InitialRetries
  /\ sup.pc = "serving" => connects = 0
  /\ sup.pc = "reconnecting" => connects < sup.attempt
  /\ sup.pc \in Outage => connects <= sup.attempt /\ sup.attempt <= MaxAttempts

\* A connection that is open or was ended for good is the one being served, unless the
\* supervisor is done.
OthersLost ==
  \A n \in ConnIds :
    conn[n] \in {"open", "rejected"} => n = sup.conn /\ sup.pc \in {"serving", "done"}

IInv ==
  /\ TypeOK /\ ConnsNumbered /\ PlaceExplained /\ AttemptsCounted
  /\ OthersLost /\ OneAcceptor

Pcs == {"joining", "backoff", "serving", "done"} \cup Outage
Sups == [pc : Pcs, conn : 0 .. MaxConns, attempt : 0 .. MaxAttempts + InitialRetries]

-----------------------------------------------------------------------------
(* Actions by what they touch *)

LoopSteps(n) == Acquire(n) \/ Accept(n) \/ LoopEnds(n) \/ SessionEnds(n)

ConnSteps(n) == ConnectionEnds(n, "lost") \/ ConnectionEnds(n, "rejected") \/ EndpointCloses(n)

Waits ==
  \/ InitialConnectFails \/ InitialJoinFails \/ BackoffEnds
  \/ Connect \/ GiveUp \/ ReconnectRejected \/ Retry \/ Progress \/ ProgressAndRetry

Signals ==
  \/ TickReady \/ TimeoutPasses \/ Shutdown
  \/ \E o \in {"connected", "retry", "rejected"} : OutcomeReady(o)

\* The parts make up the next-state relation.
LEMMA NextCases ==
  ASSUME Next
  PROVE  \/ InitialConnected \/ Reconnected
         \/ ConnectionClosed \/ ShutdownServing
         \/ Waits \/ Signals \/ ClientArrives
         \/ \E n \in ConnIds : LoopSteps(n) \/ ConnSteps(n)
  BY DEF Next, SupervisorNext, Waits, Signals, LoopSteps, ConnSteps

\* Accept loops, sessions and clients leave the supervisor alone.
LEMMA LoopStepsKeep ==
  ASSUME NEW n \in ConnIds, LoopSteps(n)
  PROVE  UNCHANGED <<sup, connects, outcome, tick, timedOut, shutdown, conn, aborted>>
  BY DEF LoopSteps, Acquire, Accept, LoopEnds, SessionEnds, timers

\* A step of the supervisor that neither starts nor ends to serve leaves the
\* connections and their loops alone.
LEMMA WaitsKeep ==
  ASSUME TypeOK, Waits
  PROVE  /\ UNCHANGED <<timedOut, shutdown, conn, loop, aborted, sessions, backlog>>
         /\ sup'.conn = sup.conn
         /\ sup.pc \in {"joining", "backoff"} \cup Outage
         /\ sup'.pc \in {"joining", "backoff", "done"} \cup Outage
<1>1. UNCHANGED <<timedOut, shutdown, conn, loop, aborted, sessions, backlog>>
  BY DEF Waits, InitialConnectFails, InitialJoinFails, BackoffEnds, Connect, GiveUp,
         ReconnectRejected, Retry, Progress, ProgressAndRetry, timers, local
<1>2. sup \in Sups
  BY DEF TypeOK, Sups, Pcs
<1> USE DEF Outage
<1>3. CASE InitialConnectFails \/ InitialJoinFails \/ BackoffEnds
  BY <1>1, <1>2, <1>3 DEF InitialConnectFails, InitialJoinFails, BackoffEnds, Exit, Sups
<1>4. CASE Connect \/ GiveUp \/ ReconnectRejected \/ Retry
  BY <1>1, <1>2, <1>4 DEF Connect, GiveUp, ReconnectRejected, Retry, Exit, Sups
<1>5. CASE Progress \/ ProgressAndRetry
  BY <1>1, <1>2, <1>5 DEF Progress, ProgressAndRetry, Sups
<1> QED BY <1>3, <1>4, <1>5 DEF Waits

\* The next connection is the one after the last.
LEMMA NextConnNumber ==
  ASSUME TypeOK, ConnsNumbered
  PROVE  NextConn = sup.conn + 1 /\ sup.conn \in 0 .. MaxConns
<1>1. sup.conn \in 0 .. MaxConns /\ sup.conn \in Int
  BY BoundsAssumption DEF TypeOK
<1>2. Cardinality(1 .. sup.conn) = sup.conn
  BY <1>1, FS_Interval
<1> QED BY <1>1, <1>2 DEF NextConn, ConnsNumbered

\* Serving begins with the next connection.
LEMMA ServingBegins ==
  ASSUME TypeOK, ConnsNumbered, PlaceExplained, InitialConnected \/ Reconnected
  PROVE  /\ sup.pc \in {"joining", "connecting"}
         /\ sup.conn + 1 \in ConnIds
         /\ sup' = [pc |-> "serving", conn |-> sup.conn + 1, attempt |-> 0]
         /\ connects' = 0
         /\ conn' = [conn EXCEPT ![sup.conn + 1] = "open"]
         /\ loop' = [loop EXCEPT ![sup.conn + 1] = "acquire"]
         /\ UNCHANGED <<outcome, tick, timedOut, shutdown, aborted, sessions, backlog>>
<1>1. Serve(sup.conn + 1)
  BY NextConnNumber DEF InitialConnected, Reconnected
<1>2. sup.conn + 1 \in ConnIds
  <2>1. CASE InitialConnected
    BY <2>1, BoundsAssumption DEF InitialConnected, PlaceExplained, ConnIds
  <2>2. CASE Reconnected
    BY <2>2, NextConnNumber, BoundsAssumption DEF Reconnected, PlaceExplained, ConnIds
  <2> QED BY <2>1, <2>2
<1>3. /\ sup.pc \in {"joining", "connecting"}
      /\ UNCHANGED <<outcome, tick, timedOut, shutdown>>
  BY DEF InitialConnected, Reconnected, timers
<1> QED BY <1>1, <1>2, <1>3 DEF Serve

\* Serving ends with the abort of the accept loop.
LEMMA ServingEnds ==
  ASSUME TypeOK, ConnectionClosed \/ ShutdownServing
  PROVE  /\ sup.pc = "serving"
         /\ aborted' = aborted \cup {sup.conn}
         /\ UNCHANGED <<connects, outcome, shutdown, conn, loop, sessions, backlog>>
         /\ sup'.conn = sup.conn
         /\ \/ sup'.pc = "done" /\ sup'.attempt = sup.attempt
            \/ /\ sup'.pc = "reconnecting" /\ sup'.attempt = 1
               /\ conn[sup.conn] \notin {"open", "rejected"}
         /\ sup' \in Sups
<1>1. sup \in Sups
  BY DEF TypeOK, Sups, Pcs
<1>2. 1 \in 0 .. MaxAttempts + InitialRetries
  BY BoundsAssumption, ConfigAssumption
<1>3. CASE ConnectionClosed
  BY <1>1, <1>2, <1>3
     DEF ConnectionClosed, AbortLoop, Exit, IsPermanentRejection, Sups, Pcs, Outage
<1>4. CASE ShutdownServing
  BY <1>1, <1>4 DEF ShutdownServing, AbortLoop, Exit, Sups, Pcs
<1> QED BY <1>3, <1>4

-----------------------------------------------------------------------------
(* Types *)

\* Attempts are counted within their bounds.
LEMMA WaitsTyped ==
  ASSUME TypeOK, AttemptsCounted, Waits
  PROVE  /\ sup' \in Sups
         /\ connects' \in 0 .. MaxAttempts + InitialRetries + 1
         /\ outcome' \in {"pending", "connected", "retry", "rejected"}
         /\ tick' \in BOOLEAN
         /\ AttemptsCounted'
<1>1. sup \in Sups /\ connects \in Nat /\ MaxAttempts \in Nat /\ InitialRetries \in Nat
  BY BoundsAssumption, ConfigAssumption DEF TypeOK, Sups, Pcs
<1> USE DEF AttemptsCounted, Outage
<1>2. CASE InitialConnectFails
  <2>1. /\ sup.pc = "joining" /\ connects' = connects + 1
        /\ sup' = IF sup.attempt < InitialRetries
                  THEN [sup EXCEPT !.pc = "backoff", !.attempt = sup.attempt + 1]
                  ELSE [sup EXCEPT !.pc = "done"]
        /\ outcome' = outcome /\ tick' = tick
    BY <1>2 DEF InitialConnectFails, timers
  <2>2. CASE sup.attempt < InitialRetries
    <3>1. sup'.pc = "backoff" /\ sup'.attempt = sup.attempt + 1
      BY <1>1, <2>1, <2>2 DEF Sups
    <3>2. sup.attempt + 1 \in 0 .. MaxAttempts + InitialRetries
      BY <1>1, <2>2 DEF Sups
    <3>3. sup' \in Sups
      BY <1>1, <2>1, <2>2, <3>2 DEF Sups, Pcs
    <3> QED BY <1>1, <2>1, <2>2, <3>1, <3>3 DEF TypeOK, Sups
  <2>3. CASE ~(sup.attempt < InitialRetries)
    BY <1>1, <2>1, <2>3 DEF TypeOK, Sups, Pcs
  <2> QED BY <2>2, <2>3
<1>3. CASE InitialJoinFails \/ GiveUp \/ ReconnectRejected
  BY <1>1, <1>3 DEF InitialJoinFails, GiveUp, ReconnectRejected, Exit, timers, TypeOK, Sups, Pcs
<1>4. CASE BackoffEnds
  BY <1>1, <1>4 DEF BackoffEnds, timers, TypeOK, Sups, Pcs
<1>5. CASE Connect
  BY <1>1, <1>5 DEF Connect, timers, TypeOK, Sups, Pcs
<1>6. CASE Retry
  BY <1>1, <1>6 DEF Retry, timers, TypeOK, Sups, Pcs
<1>7. CASE Progress \/ ProgressAndRetry
  <2>1. /\ sup.pc \in {"connecting", "waiting"} /\ sup.attempt < MaxAttempts
        /\ sup' = [sup EXCEPT !.pc = IF sup.pc = "waiting" THEN "reconnecting"
                                                          ELSE "connecting",
                             !.attempt = sup.attempt + 1]
        /\ tick' = FALSE /\ connects' = connects /\ outcome' = outcome
    <3>1. CASE Progress
      BY <1>1, <3>1 DEF Progress, Sups
    <3>2. CASE ProgressAndRetry
      BY <1>1, <3>2 DEF ProgressAndRetry, Sups
    <3> QED BY <1>7, <3>1, <3>2
  <2>2. /\ sup'.pc \in {"reconnecting", "connecting"}
        /\ sup'.attempt = sup.attempt + 1
    BY <1>1, <2>1 DEF Sups
  <2>3. sup.attempt + 1 \in 0 .. MaxAttempts + InitialRetries
    BY <1>1, <2>1 DEF Sups
  <2>4. sup' \in Sups
    BY <1>1, <2>1, <2>3 DEF Sups, Pcs
  <2>5. /\ connects \in 0 .. MaxAttempts + InitialRetries + 1
        /\ outcome \in {"pending", "connected", "retry", "rejected"}
    BY DEF TypeOK
  <2>6. connects <= sup.attempt /\ sup.attempt \in Nat
    BY <1>1, <2>1 DEF Sups
  <2>7. connects' < sup'.attempt /\ sup'.attempt <= MaxAttempts
    BY <1>1, <2>1, <2>2, <2>6
  <2>8. connects' <= sup'.attempt
    BY <1>1, <2>1, <2>2, <2>6
  <2>9. AttemptsCounted'
    BY <2>2, <2>7, <2>8
  <2> QED BY <2>1, <2>4, <2>5, <2>9
<1> QED BY <1>2, <1>3, <1>4, <1>5, <1>6, <1>7 DEF Waits

\* Accept loops stay within their permits.
LEMMA LoopStepsTyped ==
  ASSUME TypeOK, NEW n \in ConnIds, LoopSteps(n)
  PROVE  /\ loop' \in [ConnIds -> {"none", "acquire", "accept", "over"}]
         /\ sessions' \in [ConnIds -> 0 .. SessionsMax]
         /\ \A m \in ConnIds : loop'[m] = "accept" => sessions'[m] < SessionsMax
         /\ backlog' \in 0 .. MaxClients
         /\ \A m \in ConnIds :
              loop'[m] \in {"acquire", "accept"} => loop[m] \in {"acquire", "accept"}
<1>1. /\ SessionsMax \in Nat /\ MaxClients \in Nat
      /\ loop \in [ConnIds -> {"none", "acquire", "accept", "over"}]
      /\ sessions \in [ConnIds -> 0 .. SessionsMax]
      /\ \A m \in ConnIds : loop[m] = "accept" => sessions[m] < SessionsMax
      /\ backlog \in 0 .. MaxClients
  BY BoundsAssumption, ConfigAssumption DEF TypeOK
<1>2. CASE Acquire(n)
  BY <1>1, <1>2 DEF Acquire
<1>3. CASE Accept(n)
  BY <1>1, <1>3 DEF Accept
<1>4. CASE LoopEnds(n)
  BY <1>1, <1>4 DEF LoopEnds
<1>5. CASE SessionEnds(n)
  BY <1>1, <1>5 DEF SessionEnds
<1> QED BY <1>2, <1>3, <1>4, <1>5 DEF LoopSteps

\* Connections that have been established stay so.
LEMMA ConnStepsKeep ==
  ASSUME TypeOK, NEW n \in ConnIds, ConnSteps(n)
  PROVE  /\ conn' \in [ConnIds -> {"none", "open", "lost", "rejected", "closed"}]
         /\ Established' = Established
         /\ conn[n] = "open" /\ \A m \in ConnIds \ {n} : conn'[m] = conn[m]
         /\ UNCHANGED <<sup, connects, outcome, tick, timedOut, shutdown>>
         /\ UNCHANGED <<loop, aborted, sessions, backlog>>
<1>1. \E kind \in {"lost", "rejected", "closed"} : conn' = [conn EXCEPT ![n] = kind]
  BY DEF ConnSteps, ConnectionEnds, EndpointCloses
<1>2. /\ conn[n] = "open"
      /\ UNCHANGED <<sup, connects, outcome, tick, timedOut, shutdown>>
      /\ UNCHANGED <<loop, aborted, sessions, backlog>>
  BY DEF ConnSteps, ConnectionEnds, EndpointCloses, timers, local
<1> QED BY <1>1, <1>2 DEF TypeOK, Established

\* Signals come and go without touching anything else.
LEMMA SignalsKeep ==
  ASSUME TypeOK, Signals
  PROVE  /\ UNCHANGED <<sup, connects, conn, loop, aborted, sessions, backlog>>
         /\ outcome' \in {"pending", "connected", "retry", "rejected"}
         /\ tick' \in BOOLEAN /\ timedOut' \in BOOLEAN /\ shutdown' \in BOOLEAN
<1>1. CASE TickReady \/ TimeoutPasses \/ Shutdown
  BY <1>1 DEF TickReady, TimeoutPasses, Shutdown, local, timers, TypeOK
<1>2. CASE \E o \in {"connected", "retry", "rejected"} : OutcomeReady(o)
  BY <1>2 DEF OutcomeReady, local, timers, TypeOK
<1> QED BY <1>1, <1>2 DEF Signals

\* Type correctness is inductive, given how connections are numbered and attempts
\* counted.
LEMMA TypeStep ==
  TypeOK /\ ConnsNumbered /\ PlaceExplained /\ AttemptsCounted /\ [Next]_vars => TypeOK'
<1> SUFFICES ASSUME TypeOK, ConnsNumbered, PlaceExplained, AttemptsCounted, [Next]_vars
             PROVE  TypeOK'
  OBVIOUS
<1>1. CASE InitialConnected \/ Reconnected
  <2>1. /\ sup.conn + 1 \in ConnIds
        /\ sup' = [pc |-> "serving", conn |-> sup.conn + 1, attempt |-> 0]
        /\ connects' = 0
        /\ conn' = [conn EXCEPT ![sup.conn + 1] = "open"]
        /\ loop' = [loop EXCEPT ![sup.conn + 1] = "acquire"]
        /\ UNCHANGED <<outcome, tick, timedOut, shutdown, aborted, sessions, backlog>>
    BY <1>1, ServingBegins
  <2>2. sup' \in Sups
    BY <2>1, BoundsAssumption, ConfigAssumption DEF Sups, Pcs, ConnIds
  <2>3. Established \subseteq Established'
    BY <2>1 DEF Established, TypeOK
  <2>4. connects' \in 0 .. MaxAttempts + InitialRetries + 1
    BY <2>1, BoundsAssumption, ConfigAssumption
  <2>5. /\ conn' \in [ConnIds -> {"none", "open", "lost", "rejected", "closed"}]
        /\ loop' \in [ConnIds -> {"none", "acquire", "accept", "over"}]
        /\ \A n \in ConnIds : loop'[n] = "accept" => sessions'[n] < SessionsMax
    BY <2>1 DEF TypeOK
  <2> QED BY <2>1, <2>2, <2>3, <2>4, <2>5 DEF TypeOK, Sups, Pcs
<1>2. CASE ConnectionClosed \/ ShutdownServing
  <2>1. /\ sup.pc = "serving"
        /\ aborted' = aborted \cup {sup.conn}
        /\ UNCHANGED <<connects, outcome, shutdown, conn, loop, sessions, backlog>>
        /\ sup' \in Sups
    BY <1>2, ServingEnds
  <2>2. sup.conn \in Established
    BY <2>1 DEF ConnsNumbered, PlaceExplained, TypeOK
  <2>3. tick' \in BOOLEAN /\ timedOut' \in BOOLEAN
    BY <1>2 DEF ConnectionClosed, ShutdownServing, timers, TypeOK
  <2> QED BY <2>1, <2>2, <2>3 DEF TypeOK, Established, Sups, Pcs
<1>3. CASE Waits
  BY <1>3, WaitsKeep, WaitsTyped DEF TypeOK, Established, Sups, Pcs
<1>4. CASE Signals
  BY <1>4, SignalsKeep DEF TypeOK, Established
<1>5. CASE ClientArrives
  BY <1>5, BoundsAssumption DEF ClientArrives, timers, TypeOK, Established
<1>6. ASSUME NEW n \in ConnIds, LoopSteps(n) PROVE TypeOK'
  BY <1>6, LoopStepsKeep, LoopStepsTyped DEF TypeOK, Established
<1>7. ASSUME NEW n \in ConnIds, ConnSteps(n) PROVE TypeOK'
  BY <1>7, ConnStepsKeep DEF TypeOK
<1>8. CASE UNCHANGED vars
  BY <1>8 DEF vars, TypeOK, Established
<1> QED BY <1>1, <1>2, <1>3, <1>4, <1>5, <1>6, <1>7, <1>8, NextCases

-----------------------------------------------------------------------------
(* The other parts of the invariant *)

\* Connections are numbered in order.
LEMMA NumberingStep ==
  TypeOK /\ ConnsNumbered /\ PlaceExplained /\ [Next]_vars => ConnsNumbered'
<1> SUFFICES ASSUME TypeOK, ConnsNumbered, PlaceExplained, [Next]_vars
             PROVE  ConnsNumbered'
  OBVIOUS
<1> USE DEF ConnsNumbered
<1>1. CASE InitialConnected \/ Reconnected
  <2>1. /\ sup.conn + 1 \in ConnIds /\ sup.conn \in Nat
        /\ sup'.conn = sup.conn + 1
        /\ conn' = [conn EXCEPT ![sup.conn + 1] = "open"]
    BY <1>1, ServingBegins, NextConnNumber, BoundsAssumption
  <2>2. Established' = Established \cup {sup.conn + 1}
    BY <2>1 DEF Established, TypeOK
  <2> QED BY <2>1, <2>2
<1>2. CASE ConnectionClosed \/ ShutdownServing
  BY <1>2, ServingEnds DEF Established
<1>3. CASE Waits
  BY <1>3, WaitsKeep DEF Established
<1>4. CASE Signals
  BY <1>4, SignalsKeep DEF Established
<1>5. CASE ClientArrives
  BY <1>5 DEF ClientArrives, Established
<1>6. ASSUME NEW n \in ConnIds, LoopSteps(n) PROVE ConnsNumbered'
  BY <1>6, LoopStepsKeep DEF Established
<1>7. ASSUME NEW n \in ConnIds, ConnSteps(n) PROVE ConnsNumbered'
  BY <1>7, ConnStepsKeep
<1>8. CASE UNCHANGED vars
  BY <1>8 DEF vars, Established
<1> QED BY <1>1, <1>2, <1>3, <1>4, <1>5, <1>6, <1>7, <1>8, NextCases

\* Signals are raised where there is somebody to hear them.
LEMMA SignalsHeard ==
  ASSUME TypeOK, ConnsNumbered, PlaceExplained, Signals
  PROVE  PlaceExplained'
<1> USE DEF PlaceExplained
<1>1. CASE TickReady
  BY <1>1 DEF TickReady, local
<1>2. CASE TimeoutPasses
  BY <1>2 DEF TimeoutPasses, local, Outage
<1>3. CASE Shutdown
  <2>1. sup.conn # 0
    BY <1>3, BoundsAssumption DEF Shutdown, ConnsNumbered, TypeOK
  <2> QED BY <1>3, <2>1 DEF Shutdown, local, timers
<1>4. ASSUME NEW o \in {"connected", "retry", "rejected"}, OutcomeReady(o)
      PROVE  PlaceExplained'
  <2>1. o = "connected" => sup.conn < MaxConns
    BY <1>4, NextConnNumber, BoundsAssumption DEF OutcomeReady, ConnIds
  <2> QED BY <1>4, <2>1 DEF OutcomeReady, local, timers
<1> QED BY <1>1, <1>2, <1>3, <1>4 DEF Signals

\* The place of the supervisor stays explained.
LEMMA PlaceStep ==
  TypeOK /\ ConnsNumbered /\ PlaceExplained /\ [Next]_vars => PlaceExplained'
<1> SUFFICES ASSUME TypeOK, ConnsNumbered, PlaceExplained, [Next]_vars
             PROVE  PlaceExplained'
  OBVIOUS
<1>1. CASE InitialConnected \/ Reconnected
  <2>1. sup'.pc = "serving" /\ sup'.conn = sup.conn + 1 /\ sup.conn \in Nat
    BY <1>1, ServingBegins, NextConnNumber, BoundsAssumption
  <2> QED BY <2>1 DEF PlaceExplained, Outage
<1>2. CASE ConnectionClosed \/ ShutdownServing
  BY <1>2, ServingEnds DEF PlaceExplained, Outage
<1>3. CASE Waits
  <2>1. /\ timedOut' = timedOut /\ shutdown' = shutdown /\ sup'.conn = sup.conn
        /\ sup'.pc \in {"joining", "backoff", "done"} \cup Outage
    BY <1>3, WaitsKeep
  <2>2. /\ sup'.pc \in {"joining", "backoff"} => sup.pc \in {"joining", "backoff"}
        /\ sup'.pc \in Outage => sup.pc \in Outage
        /\ sup'.pc = "connecting" /\ outcome' = "connected" =>
             sup.pc = "connecting" /\ outcome = "connected"
    <3>1. sup \in Sups
      BY DEF TypeOK, Sups, Pcs
    <3> USE DEF Outage
    <3>2. CASE InitialConnectFails \/ InitialJoinFails \/ BackoffEnds
      BY <3>1, <3>2 DEF InitialConnectFails, InitialJoinFails, BackoffEnds, Exit, Sups
    <3>3. CASE Connect \/ GiveUp \/ ReconnectRejected \/ Retry
      BY <3>1, <3>3 DEF Connect, GiveUp, ReconnectRejected, Retry, Exit, Sups
    <3>4. CASE Progress \/ ProgressAndRetry
      BY <3>1, <3>4 DEF Progress, ProgressAndRetry, Sups
    <3> QED BY <1>3, <3>2, <3>3, <3>4 DEF Waits
  <2> QED BY <2>1, <2>2 DEF PlaceExplained, Outage
<1>4. CASE Signals
  BY <1>4, SignalsHeard
<1>5. CASE ClientArrives
  BY <1>5 DEF ClientArrives, timers, PlaceExplained
<1>6. ASSUME NEW n \in ConnIds, LoopSteps(n) PROVE PlaceExplained'
  BY <1>6, LoopStepsKeep DEF PlaceExplained
<1>7. ASSUME NEW n \in ConnIds, ConnSteps(n) PROVE PlaceExplained'
  BY <1>7, ConnStepsKeep DEF PlaceExplained
<1>8. CASE UNCHANGED vars
  BY <1>8 DEF vars, PlaceExplained
<1> QED BY <1>1, <1>2, <1>3, <1>4, <1>5, <1>6, <1>7, <1>8, NextCases

\* Attempts stay counted.
LEMMA CountingStep ==
  TypeOK /\ ConnsNumbered /\ PlaceExplained /\ AttemptsCounted /\ [Next]_vars
    => AttemptsCounted'
<1> SUFFICES ASSUME TypeOK, ConnsNumbered, PlaceExplained, AttemptsCounted, [Next]_vars
             PROVE  AttemptsCounted'
  OBVIOUS
<1>1. CASE InitialConnected \/ Reconnected
  <2>1. sup'.pc = "serving" /\ connects' = 0
    BY <1>1, ServingBegins
  <2> QED BY <2>1 DEF AttemptsCounted, Outage
<1>2. CASE ConnectionClosed \/ ShutdownServing
  <2>1. /\ sup.pc = "serving" /\ connects' = connects
        /\ sup'.pc = "done" \/ (sup'.pc = "reconnecting" /\ sup'.attempt = 1)
    BY <1>2, ServingEnds
  <2> QED BY <2>1, BoundsAssumption DEF AttemptsCounted, Outage
<1>3. CASE Waits
  BY <1>3, WaitsTyped
<1>4. CASE Signals
  BY <1>4, SignalsKeep DEF AttemptsCounted
<1>5. CASE ClientArrives
  BY <1>5 DEF ClientArrives, AttemptsCounted
<1>6. ASSUME NEW n \in ConnIds, LoopSteps(n) PROVE AttemptsCounted'
  BY <1>6, LoopStepsKeep DEF AttemptsCounted
<1>7. ASSUME NEW n \in ConnIds, ConnSteps(n) PROVE AttemptsCounted'
  BY <1>7, ConnStepsKeep DEF AttemptsCounted
<1>8. CASE UNCHANGED vars
  BY <1>8 DEF vars, AttemptsCounted
<1> QED BY <1>1, <1>2, <1>3, <1>4, <1>5, <1>6, <1>7, <1>8, NextCases

\* A connection that is not served any more is not open.
LEMMA OthersLostStep ==
  TypeOK /\ ConnsNumbered /\ PlaceExplained /\ OthersLost /\ [Next]_vars => OthersLost'
<1> SUFFICES ASSUME TypeOK, ConnsNumbered, PlaceExplained, OthersLost, [Next]_vars
             PROVE  OthersLost'
  OBVIOUS
<1>1. CASE InitialConnected \/ Reconnected
  <2>1. /\ sup.pc \in {"joining", "connecting"}
        /\ sup'.pc = "serving" /\ sup'.conn = sup.conn + 1
        /\ conn' = [conn EXCEPT ![sup.conn + 1] = "open"]
    BY <1>1, ServingBegins
  <2> QED BY <2>1 DEF OthersLost, TypeOK
<1>2. CASE ConnectionClosed \/ ShutdownServing
  <2>1. /\ sup.pc = "serving" /\ conn' = conn /\ sup'.conn = sup.conn
        /\ \/ sup'.pc = "done"
           \/ conn[sup.conn] \notin {"open", "rejected"}
    BY <1>2, ServingEnds
  <2> QED BY <2>1 DEF OthersLost
<1>3. CASE Waits
  <2>1. /\ conn' = conn /\ sup.pc \in {"joining", "backoff"} \cup Outage
    BY <1>3, WaitsKeep
  <2> QED BY <2>1 DEF OthersLost, Outage
<1>4. CASE Signals
  BY <1>4, SignalsKeep DEF OthersLost
<1>5. CASE ClientArrives
  BY <1>5 DEF ClientArrives, OthersLost
<1>6. ASSUME NEW n \in ConnIds, LoopSteps(n) PROVE OthersLost'
  BY <1>6, LoopStepsKeep DEF OthersLost
<1>7. ASSUME NEW n \in ConnIds, ConnSteps(n) PROVE OthersLost'
  BY <1>7, ConnStepsKeep DEF OthersLost
<1>8. CASE UNCHANGED vars
  BY <1>8 DEF vars, OthersLost
<1> QED BY <1>1, <1>2, <1>3, <1>4, <1>5, <1>6, <1>7, <1>8, NextCases

\* There stays one acceptor.
LEMMA AcceptorStep ==
  TypeOK /\ ConnsNumbered /\ PlaceExplained /\ OneAcceptor /\ [Next]_vars => OneAcceptor'
<1> SUFFICES ASSUME TypeOK, ConnsNumbered, PlaceExplained, OneAcceptor, [Next]_vars
             PROVE  OneAcceptor'
  OBVIOUS
<1>1. CASE InitialConnected \/ Reconnected
  <2>1. /\ sup.pc \in {"joining", "connecting"}
        /\ sup'.pc = "serving" /\ sup'.conn = sup.conn + 1
        /\ loop' = [loop EXCEPT ![sup.conn + 1] = "acquire"]
        /\ aborted' = aborted
    BY <1>1, ServingBegins
  <2> QED BY <2>1 DEF OneAcceptor, TypeOK
<1>2. CASE ConnectionClosed \/ ShutdownServing
  BY <1>2, ServingEnds DEF OneAcceptor
<1>3. CASE Waits
  <2>1. /\ loop' = loop /\ aborted' = aborted
        /\ sup.pc \in {"joining", "backoff"} \cup Outage
    BY <1>3, WaitsKeep
  <2> QED BY <2>1 DEF OneAcceptor, Outage
<1>4. CASE Signals
  BY <1>4, SignalsKeep DEF OneAcceptor
<1>5. CASE ClientArrives
  BY <1>5 DEF ClientArrives, OneAcceptor
<1>6. ASSUME NEW n \in ConnIds, LoopSteps(n) PROVE OneAcceptor'
  BY <1>6, LoopStepsKeep, LoopStepsTyped DEF OneAcceptor
<1>7. ASSUME NEW n \in ConnIds, ConnSteps(n) PROVE OneAcceptor'
  BY <1>7, ConnStepsKeep DEF OneAcceptor
<1>8. CASE UNCHANGED vars
  BY <1>8 DEF vars, OneAcceptor
<1> QED BY <1>1, <1>2, <1>3, <1>4, <1>5, <1>6, <1>7, <1>8, NextCases

-----------------------------------------------------------------------------
(* Theorems *)

\* The invariant holds in every reachable state.
LEMMA Invariance == Spec => []IInv
<1>1. Init => IInv
  <2> SUFFICES ASSUME Init PROVE IInv
    OBVIOUS
  <2>1. Established = {}
    BY DEF Init, Established
  <2>2. TypeOK
    <3>1. /\ sup \in Sups /\ connects \in 0 .. MaxAttempts + InitialRetries + 1
          /\ backlog \in 0 .. MaxClients
      BY BoundsAssumption, ConfigAssumption DEF Init, Sups, Pcs
    <3>2. /\ sessions \in [ConnIds -> 0 .. SessionsMax]
          /\ conn \in [ConnIds -> {"none", "open", "lost", "rejected", "closed"}]
          /\ loop \in [ConnIds -> {"none", "acquire", "accept", "over"}]
          /\ \A n \in ConnIds : loop[n] # "accept"
      BY ConfigAssumption DEF Init
    <3>3. /\ outcome = "pending" /\ tick = FALSE /\ timedOut = FALSE /\ shutdown = FALSE
          /\ aborted = {}
      BY DEF Init
    <3> QED BY <3>1, <3>2, <3>3 DEF TypeOK, Sups, Pcs
  <2>3. ConnsNumbered
    BY <2>1 DEF Init, ConnsNumbered
  <2>4. PlaceExplained /\ AttemptsCounted
    BY ConfigAssumption DEF Init, PlaceExplained, AttemptsCounted, Outage
  <2>5. OthersLost /\ OneAcceptor
    BY DEF Init, OthersLost, OneAcceptor
  <2> QED BY <2>2, <2>3, <2>4, <2>5 DEF IInv
<1>2. IInv /\ [Next]_vars => IInv'
  BY TypeStep, NumberingStep, PlaceStep, CountingStep, OthersLostStep, AcceptorStep DEF IInv
<1> QED BY <1>1, <1>2, PTL DEF Spec

\* The state of the supervisor, its connections and its accept loops stays well typed;
\* a loop that waits for a client has a permit for it.
THEOREM TypeCorrect == Spec => []TypeOK
<1>1. IInv => TypeOK
  BY DEF IInv
<1> QED BY <1>1, Invariance, PTL

\* At most one accept loop that has not been aborted takes local clients, and it is the
\* loop of the connection being served (reconnect_supervisor, join_accept_loop).
THEOREM OneAcceptorOnly == Spec => []OneAcceptor
<1>1. IInv => OneAcceptor
  BY DEF IInv
<1> QED BY <1>1, Invariance, PTL

\* In an outage endpoint.connect is called at most once for every attempt announced
\* (reconnect_supervisor, advance_reconnect_progress).
THEOREM AttemptsArePaced == Spec => []ConnectsPaced
<1>1. IInv => ConnectsPaced
  BY DEF IInv, AttemptsCounted, ConnectsPaced
<1> QED BY <1>1, Invariance, PTL

\* Nothing of the join is left but sessions whose clients are yet to end: neither the
\* supervisor nor an accept loop nor a connection.
Over ==
  /\ sup.pc = "done"
  /\ \A n \in ConnIds : loop[n] \in {"none", "over"} /\ conn[n] # "open"

\* What a tunnel that is shut down does on its own: the supervisor ends its wait, the
\* endpoint its connections, and an aborted accept loop itself.
ShutdownProceeds ==
  \/ sup.pc \in {"serving"} \cup Outage
  \/ \E n \in ConnIds :
       \/ conn[n] = "open"
       \/ n \in aborted /\ loop[n] \in {"acquire", "accept"}

\* A tunnel that is shut down is never stuck: until it is over, its supervisor, its
\* endpoint or an accept loop has a step that no client, host or attempt to reconnect
\* has to allow, although clients may keep every session and every permit (close and
\* drop in iroh/mod.rs, reconnect_supervisor, join_accept_loop).  This is the safety
\* part of ShutdownEnds.
THEOREM ShutdownIsNeverStuck == Spec => [](shutdown => Over \/ ShutdownProceeds)
<1>1. IInv => (shutdown => Over \/ ShutdownProceeds)
  <2> SUFFICES ASSUME IInv, shutdown, ~ShutdownProceeds PROVE Over
    OBVIOUS
  <2>1. sup.pc = "done"
    BY DEF IInv, TypeOK, PlaceExplained, ShutdownProceeds
  <2>2. ASSUME NEW n \in ConnIds PROVE loop[n] \in {"none", "over"} /\ conn[n] # "open"
    <3>1. n \in aborted \/ loop[n] \notin {"acquire", "accept"}
      BY <2>1 DEF IInv, OneAcceptor
    <3> QED BY <3>1 DEF IInv, TypeOK, ShutdownProceeds
  <2> QED BY <2>1, <2>2 DEF Over
<1> QED BY <1>1, Invariance, PTL

\* How many places a supervisor that is shut down still passes through at most.
StagesLeft(pc) ==
  CASE pc = "serving" -> 3
    [] pc = "waiting" -> 2
    [] pc \in {"reconnecting", "connecting"} -> 1
    [] OTHER -> 0

Accepting(n) == loop[n] \in {"acquire", "accept"}

\* Nothing begins in a tunnel that is shut down, but for the sessions of local clients
\* that an accept loop takes before it ends.
NothingBegins ==
  [][shutdown =>
       /\ shutdown'
       /\ sup' = sup \/ StagesLeft(sup'.pc) < StagesLeft(sup.pc)
       /\ aborted \subseteq aborted'
       /\ \A n \in ConnIds :
            /\ conn'[n] = "open" => conn[n] = "open"
            /\ Accepting(n)' => Accepting(n)
            /\ sessions'[n] > sessions[n] => loop[n] = "accept"]_vars

\* A shutdown is final: the supervisor goes one way, through three places at most,
\* whatever outcome, tick or end of a connection comes about beside the signal; no
\* connection is established, and no accept loop begins or is let off (close and drop in
\* iroh/mod.rs, reconnect_supervisor).  With ShutdownIsNeverStuck: all but sessions ends.
THEOREM ShutdownIsFinal == Spec => NothingBegins
<1> DEFINE Final ==
             shutdown =>
               /\ shutdown'
               /\ sup' = sup \/ StagesLeft(sup'.pc) < StagesLeft(sup.pc)
               /\ aborted \subseteq aborted'
               /\ \A n \in ConnIds :
                    /\ conn'[n] = "open" => conn[n] = "open"
                    /\ Accepting(n)' => Accepting(n)
                    /\ sessions'[n] > sessions[n] => loop[n] = "accept"
<1>1. ASSUME IInv, [Next]_vars PROVE [Final]_vars
  <2> SUFFICES ASSUME shutdown PROVE Final
    OBVIOUS
  <2>0. TypeOK /\ ConnsNumbered /\ PlaceExplained /\ sup \in Sups
    BY <1>1 DEF IInv, TypeOK, Sups, Pcs
  <2>a. \A n \in ConnIds : sessions[n] \in Nat /\ ~(sessions[n] > sessions[n])
    BY <2>0, ConfigAssumption DEF TypeOK
  <2> USE DEF Outage, Accepting
  <2>1. ~InitialConnected /\ ~Reconnected
    <3>1. sup.pc # "joining"
      BY <2>0 DEF PlaceExplained
    <3> QED BY <3>1 DEF InitialConnected, Reconnected
  <2>2. CASE ConnectionClosed \/ ShutdownServing
    <3>1. UNCHANGED <<shutdown, conn, loop, sessions>> /\ aborted \subseteq aborted'
      BY <2>0, <2>2, ServingEnds
    <3>2. sup.pc = "serving" /\ sup'.pc \in {"done", "reconnecting"}
      BY <2>0, <2>2, ServingEnds
    <3>3. StagesLeft(sup'.pc) < StagesLeft(sup.pc)
      BY <3>2 DEF StagesLeft
    <3> QED BY <2>a, <3>1, <3>3
  <2>3. CASE Waits
    <3>1. UNCHANGED <<shutdown, conn, loop, aborted, sessions>>
      BY <2>0, <2>3, WaitsKeep
    <3>2. sup' = sup \/ StagesLeft(sup'.pc) < StagesLeft(sup.pc)
      <4>1. CASE InitialConnectFails \/ InitialJoinFails \/ BackoffEnds
        BY <2>0, <4>1 DEF InitialConnectFails, InitialJoinFails, BackoffEnds, PlaceExplained
      <4>2. CASE Connect \/ ReconnectRejected \/ Retry \/ Progress
        BY <4>2 DEF Connect, ReconnectRejected, Retry, Progress
      <4>3. CASE GiveUp
        BY <2>0, <4>3 DEF GiveUp, Exit, Sups, StagesLeft
      <4>4. CASE ProgressAndRetry
        BY <2>0, <4>4 DEF ProgressAndRetry, Sups, StagesLeft
      <4> QED BY <2>3, <4>1, <4>2, <4>3, <4>4 DEF Waits
    <3> QED BY <2>a, <3>1, <3>2
  <2>4. CASE Signals \/ ClientArrives \/ UNCHANGED vars
    <3>1. UNCHANGED <<sup, conn, loop, aborted, sessions>> /\ shutdown'
      BY <2>0, <2>4 DEF Signals, TickReady, TimeoutPasses, Shutdown, OutcomeReady, ClientArrives,
         timers, local, vars
    <3> QED BY <2>a, <3>1
  <2>5. ASSUME NEW m \in ConnIds, LoopSteps(m) PROVE Final
    <3>1. UNCHANGED <<sup, shutdown, conn, aborted>>
      BY <2>5, LoopStepsKeep
    <3>2. \A n \in ConnIds : Accepting(n)' => Accepting(n)
      BY <2>0, <2>5, LoopStepsTyped
    <3>3. ASSUME NEW n \in ConnIds, sessions'[n] > sessions[n] PROVE loop[n] = "accept"
      <4>1. CASE Acquire(m) \/ LoopEnds(m)
        <5>1. sessions' = sessions
          BY <4>1 DEF Acquire, LoopEnds
        <5> QED BY <2>a, <3>3, <5>1
      <4>2. CASE Accept(m)
        BY <2>0, <2>a, <3>3, <4>2 DEF Accept, TypeOK
      <4>3. CASE SessionEnds(m)
        BY <2>0, <2>a, <3>3, <4>3 DEF SessionEnds, TypeOK
      <4> QED BY <2>5, <4>1, <4>2, <4>3 DEF LoopSteps
    <3> QED BY <3>1, <3>2, <3>3
  <2>6. ASSUME NEW m \in ConnIds, ConnSteps(m) PROVE Final
    BY <2>0, <2>6, <2>a, ConnStepsKeep
  <2> QED BY <1>1, <2>1, <2>2, <2>3, <2>4, <2>5, <2>6, NextCases
<1> QED BY <1>1, Invariance, PTL DEF Spec, NothingBegins

\* The steps that call endpoint.connect.
LEMMA WhoConnects ==
  ASSUME TypeOK, ConnsNumbered, PlaceExplained, [Next]_vars, connects' > connects
  PROVE  InitialConnectFails \/ Connect
<1>1. connects \in Nat
  BY BoundsAssumption, ConfigAssumption DEF TypeOK
<1>2. CASE InitialConnected \/ Reconnected
  BY <1>1, <1>2, ServingBegins
<1>3. CASE ConnectionClosed \/ ShutdownServing
  BY <1>1, <1>3, ServingEnds
<1>4. CASE Waits
  <2>1. CASE InitialJoinFails \/ BackoffEnds
    BY <1>1, <2>1 DEF InitialJoinFails, BackoffEnds
  <2>2. CASE GiveUp \/ ReconnectRejected \/ Retry
    BY <1>1, <2>2 DEF GiveUp, ReconnectRejected, Retry
  <2>3. CASE Progress \/ ProgressAndRetry
    BY <1>1, <2>3 DEF Progress, ProgressAndRetry
  <2> QED BY <1>4, <2>1, <2>2, <2>3 DEF Waits
<1>5. CASE Signals
  BY <1>1, <1>5, SignalsKeep
<1>6. CASE ClientArrives
  BY <1>1, <1>6 DEF ClientArrives
<1>7. ASSUME NEW n \in ConnIds, LoopSteps(n) PROVE FALSE
  BY <1>1, <1>7, LoopStepsKeep
<1>8. ASSUME NEW n \in ConnIds, ConnSteps(n) PROVE FALSE
  BY <1>1, <1>8, ConnStepsKeep
<1>9. CASE UNCHANGED vars
  BY <1>1, <1>9 DEF vars
<1> QED BY <1>2, <1>3, <1>4, <1>5, <1>6, <1>7, <1>8, <1>9, NextCases

\* endpoint.connect is not called once the tunnel is shut down, the outage has timed out
\* or the host has rejected the player for good (reconnect_supervisor).
THEOREM NoneAfterEnd == Spec => NoConnectAfterEnd
<1>1. IInv /\ [Next]_vars =>
        [connects' > connects =>
           ~shutdown /\ ~timedOut /\ \A n \in ConnIds : conn[n] # "rejected"]_vars
  <2> SUFFICES ASSUME IInv, [Next]_vars, connects' > connects
               PROVE  ~shutdown /\ ~timedOut /\ \A n \in ConnIds : conn[n] # "rejected"
    OBVIOUS
  <2>1. CASE InitialConnectFails
    BY <2>1 DEF InitialConnectFails, IInv, PlaceExplained, OthersLost
  <2>2. CASE Connect
    BY <2>2 DEF Connect, IInv, OthersLost
  <2> QED BY <2>1, <2>2, WhoConnects DEF IInv
<1> QED BY <1>1, Invariance, PTL DEF Spec, NoConnectAfterEnd

\* An outage that has timed out, or whose tunnel is shut down, can only end.
OutageRunsOut ==
  [][sup.pc \in Outage /\ (timedOut \/ shutdown) =>
       \/ sup'.pc = "done"
       \/ /\ sup' = sup \/ (sup.pc = "waiting" /\ sup'.pc = "reconnecting")
          /\ timedOut => timedOut'
          /\ shutdown => shutdown']_vars

\* Once the timeout has passed or the signal is given, neither goes away again, and the
\* supervisor ends or stays where it is, except that the select! that waits for the next
\* attempt, which is not biased, may take its tick first.  So the branch that ends the
\* outage stays ready until it is taken (reconnect_supervisor).  This is the safety part
\* of OutagesEnd.
THEOREM OutagesRunOut == Spec => OutageRunsOut
<1> DEFINE RunsOut ==
             sup.pc \in Outage /\ (timedOut \/ shutdown) =>
               \/ sup'.pc = "done"
               \/ /\ sup' = sup \/ (sup.pc = "waiting" /\ sup'.pc = "reconnecting")
                  /\ timedOut => timedOut'
                  /\ shutdown => shutdown'
<1>1. ASSUME IInv, [Next]_vars PROVE [RunsOut]_vars
  <2> SUFFICES ASSUME sup.pc \in Outage, timedOut \/ shutdown
               PROVE  \/ sup'.pc = "done"
                      \/ /\ sup' = sup \/ (sup.pc = "waiting" /\ sup'.pc = "reconnecting")
                         /\ timedOut => timedOut'
                         /\ shutdown => shutdown'
    OBVIOUS
  <2> USE DEF Outage
  <2>0. TypeOK /\ ConnsNumbered /\ PlaceExplained /\ sup \in Sups
    BY <1>1 DEF IInv, TypeOK, Sups, Pcs
  <2>1. CASE InitialConnected \/ Reconnected
    BY <2>1 DEF InitialConnected, Reconnected
  <2>2. CASE ConnectionClosed \/ ShutdownServing
    BY <2>2 DEF ConnectionClosed, ShutdownServing
  <2>3. CASE Waits
    <3>1. UNCHANGED <<timedOut, shutdown>>
      BY <2>0, <2>3, WaitsKeep
    <3>2. CASE InitialConnectFails \/ InitialJoinFails \/ BackoffEnds
      BY <3>2 DEF InitialConnectFails, InitialJoinFails, BackoffEnds
    <3>3. CASE Connect \/ ReconnectRejected \/ Retry \/ Progress
      BY <3>3 DEF Connect, ReconnectRejected, Retry, Progress
    <3>4. CASE GiveUp
      BY <2>0, <3>4 DEF GiveUp, Exit, Sups
    <3>5. CASE ProgressAndRetry
      BY <2>0, <3>1, <3>5 DEF ProgressAndRetry, Sups
    <3> QED BY <2>3, <3>2, <3>3, <3>4, <3>5 DEF Waits
  <2>4. CASE Signals
    <3>1. sup' = sup /\ (timedOut => timedOut') /\ (shutdown => shutdown')
      BY <2>4 DEF Signals, TickReady, TimeoutPasses, Shutdown, OutcomeReady, timers
    <3> QED BY <3>1
  <2>5. CASE ClientArrives \/ UNCHANGED vars
    BY <2>5 DEF ClientArrives, timers, vars
  <2>6. ASSUME NEW n \in ConnIds, LoopSteps(n)
        PROVE  UNCHANGED <<sup, timedOut, shutdown>>
    BY <2>6, LoopStepsKeep
  <2>7. ASSUME NEW n \in ConnIds, ConnSteps(n)
        PROVE  UNCHANGED <<sup, timedOut, shutdown>>
    BY <2>7 DEF ConnSteps, ConnectionEnds, EndpointCloses, timers
  <2> QED BY <1>1, <2>1, <2>2, <2>3, <2>4, <2>5, <2>6, <2>7, NextCases
<1> QED BY <1>1, Invariance, PTL DEF Spec, OutageRunsOut

-----------------------------------------------------------------------------
(***************************************************************************)
(* A session of the join: Bridge.  What an app writes passes the           *)
(* connection of its app, its bridge, the stream, the other bridge and the *)
(* connection to the other app.  The units on the way are runs of numbers, *)
(* each of which goes on where the one ahead of it stops.                  *)
(***************************************************************************)

\* What the variables of a session are.
Channels == {"written", "stream", "readable"} \X Sides
ChannelStates == [data : Seq(Nat), end : {"open", "finished", "broken"}, read : BOOLEAN]

SessionTypeOK ==
  /\ chan \in [Channels -> ChannelStates]
  /\ buffer \in [Sides -> [Directions -> Seq(Nat)]]
  /\ bridge \in [Sides -> {"waiting", "both", "drainIn", "drainOut", "over"}]
  /\ wrote \in [Sides -> Nat]
  /\ got \in [Sides -> Seq(Nat)]
  /\ cut \subseteq Sides
  /\ gaveUp \subseteq Sides

\* A sequence of the units after unit a, none of them missing.
Run(q, a) == \A i \in 1 .. Len(q) : q[i] = a + i

\* The head of a run may follow the run before it.
LEMMA RunMoves ==
  ASSUME NEW q \in Seq(Nat), NEW r \in Seq(Nat), NEW a \in Nat,
         Run(q, a), Run(r, a + Len(q)), r # <<>>
  PROVE  /\ Run(Append(q, Head(r)), a)
         /\ Run(Tail(r), a + Len(q) + 1)
<1>1. Len(q) \in Nat /\ Len(r) \in Nat \ {0}
  BY EmptySeq, LenProperties
<1>2. Head(r) = r[1] /\ Head(r) \in Nat
  BY HeadTailProperties
<1> DEFINE p == Append(q, Head(r))
<1>3. /\ Len(p) = Len(q) + 1
      /\ \A i \in 1 .. Len(q) : p[i] = q[i]
      /\ p[Len(q) + 1] = Head(r)
  BY <1>2, AppendProperties
<1> HIDE DEF p
<1>4. ASSUME NEW i \in 1 .. Len(p)
      PROVE  p[i] = a + i
  <2>1. CASE i \in 1 .. Len(q)
    BY <2>1, <1>3 DEF Run
  <2>2. CASE i = Len(q) + 1
    BY <2>2, <1>1, <1>2, <1>3 DEF Run
  <2> QED BY <1>1, <1>3, <2>1, <2>2
<1>5. /\ Len(Tail(r)) = Len(r) - 1
      /\ \A i \in 1 .. Len(Tail(r)) : Tail(r)[i] = r[i + 1]
  BY HeadTailProperties
<1>6. Run(Tail(r), a + Len(q) + 1)
  BY <1>1, <1>5 DEF Run
<1> QED BY <1>4, <1>6 DEF Run, p

\* Two runs that follow each other make one.
LEMMA RunJoins ==
  ASSUME NEW q \in Seq(Nat), NEW r \in Seq(Nat), NEW a \in Nat,
         Run(q, a), Run(r, a + Len(q))
  PROVE  Run(q \o r, a)
<1> DEFINE p == q \o r
<1>1. Len(q) \in Nat /\ Len(r) \in Nat
  BY LenProperties
<1>2. /\ Len(p) = Len(q) + Len(r)
      /\ \A i \in 1 .. Len(q) + Len(r) : p[i] = IF i <= Len(q) THEN q[i] ELSE r[i - Len(q)]
  BY ConcatProperties
<1> HIDE DEF p
<1>3. ASSUME NEW i \in 1 .. Len(p)
      PROVE  p[i] = a + i
  <2>1. CASE i \in 1 .. Len(q)
    BY <2>1, <1>1, <1>2 DEF Run
  <2>2. CASE i \notin 1 .. Len(q)
    <3>1. i - Len(q) \in 1 .. Len(r) /\ p[i] = r[i - Len(q)]
      BY <2>2, <1>1, <1>2
    <3> QED BY <3>1, <1>1 DEF Run
  <2> QED BY <2>1, <2>2
<1> QED BY <1>3 DEF Run, p

-----------------------------------------------------------------------------
(* The data of an app on its way, from the app that reads it back to the app that
   writes it *)

Arrived(s) == chan[Readable(Other(s))].data
CopiedIn(s) == buffer[Other(s)]["in"]
OnStream(s) == chan[Stream(s)].data
CopiedOut(s) == buffer[s]["out"]
Waiting(s) == chan[Written(s)].data

\* How many units each of them is.
GotLen(s) == Len(got[s])
ArrivedLen(s) == Len(Arrived(s))
CopiedInLen(s) == Len(CopiedIn(s))
OnStreamLen(s) == Len(OnStream(s))
CopiedOutLen(s) == Len(CopiedOut(s))
WaitingLen(s) == Len(Waiting(s))

\* A bridge may yet carry data in that direction.
TakesIn(s) == bridge[s] \in {"waiting", "both", "drainIn"}
TakesOut(s) == bridge[s] \in {"waiting", "both", "drainOut"}

\* Units of s up to and with those on its stream.
Received(s) == GotLen(s) + ArrivedLen(s)
Streamed(s) == Received(s) + CopiedInLen(s) + OnStreamLen(s)

\* What is on its way are the next units in order, for as long as nothing on the way
\* to them was dropped.
InOrder(s) ==
  s \notin cut =>
    /\ Run(got[s], 0) /\ Run(Arrived(s), GotLen(s))
    /\ TakesIn(Other(s)) =>
         /\ Run(CopiedIn(s), Received(s))
         /\ Run(OnStream(s), Received(s) + CopiedInLen(s))
         /\ TakesOut(s) =>
              /\ Run(CopiedOut(s), Streamed(s))
              /\ Run(Waiting(s), Streamed(s) + CopiedOutLen(s))
              /\ Streamed(s) + CopiedOutLen(s) + WaitingLen(s) = wrote[s]

\* A bridge that carries no more of the data of s has left none behind it, unless it
\* gave up.
Accounted(s) ==
  s \notin cut \cup gaveUp =>
    /\ ~TakesOut(s) /\ TakesIn(Other(s)) => Streamed(s) = wrote[s]
    /\ ~TakesIn(Other(s)) => Received(s) = wrote[s]
    /\ ~TakesOut(s) \/ ~TakesIn(Other(s)) => chan[Written(s)].end # "open"

\* Only a bridge ends its stream cleanly, and its connection at all.
EndedByBridge(s) ==
  /\ chan[Stream(s)].end = "finished" => ~TakesOut(s)
  /\ chan[Readable(s)].end # "open" => bridge[s] = "over"

\* The inductive invariant of a session.
SessionInv ==
  /\ SessionTypeOK
  /\ \A s \in Sides : InOrder(s) /\ Accounted(s) /\ EndedByBridge(s)

-----------------------------------------------------------------------------
\* Each channel of a session is one of its own.
LEMMA ChannelsDiffer ==
  ASSUME NEW s \in Sides, NEW t \in Sides
  PROVE  /\ Written(s) \in Channels /\ Stream(s) \in Channels
         /\ Readable(s) \in Channels
         /\ Written(s) # Stream(t) /\ Written(s) # Readable(t)
         /\ Stream(s) # Readable(t)
         /\ Written(s) = Written(t) <=> s = t
         /\ Stream(s) = Stream(t) <=> s = t
         /\ Readable(s) = Readable(t) <=> s = t
  BY DEF Sides, Written, Stream, Readable, Channels

\* There are two sides.
LEMMA OtherSide ==
  ASSUME NEW s \in Sides, NEW t \in Sides
  PROVE  /\ Other(s) \in Sides /\ Other(s) # s
         /\ Other(Other(s)) = s
         /\ t = s \/ t = Other(s)
  BY DEF Sides, Other

\* What the type invariant says of the data of one app.
LEMMA DataTyped ==
  ASSUME SessionTypeOK, NEW s \in Sides
  PROVE  /\ got[s] \in Seq(Nat) /\ Arrived(s) \in Seq(Nat) /\ CopiedIn(s) \in Seq(Nat)
         /\ OnStream(s) \in Seq(Nat) /\ CopiedOut(s) \in Seq(Nat) /\ Waiting(s) \in Seq(Nat)
         /\ wrote[s] \in Nat
         /\ GotLen(s) \in Nat /\ ArrivedLen(s) \in Nat /\ CopiedInLen(s) \in Nat
         /\ OnStreamLen(s) \in Nat /\ CopiedOutLen(s) \in Nat /\ WaitingLen(s) \in Nat
<1>1. \A ch \in Channels : chan[ch].data \in Seq(Nat)
  BY DEF SessionTypeOK, ChannelStates
<1>2. \A t \in Sides :
        buffer[t]["in"] \in Seq(Nat) /\ buffer[t]["out"] \in Seq(Nat)
  BY DEF SessionTypeOK, Directions
<1>3. /\ Arrived(s) \in Seq(Nat) /\ OnStream(s) \in Seq(Nat) /\ Waiting(s) \in Seq(Nat)
      /\ CopiedIn(s) \in Seq(Nat) /\ CopiedOut(s) \in Seq(Nat)
  BY <1>1, <1>2, ChannelsDiffer, OtherSide
     DEF Arrived, CopiedIn, OnStream, CopiedOut, Waiting
<1>4. got[s] \in Seq(Nat) /\ wrote[s] \in Nat
  BY DEF SessionTypeOK
<1>5. \A q \in Seq(Nat) : Len(q) \in Nat
  BY LenProperties
<1> QED BY <1>3, <1>4, <1>5
     DEF GotLen, ArrivedLen, CopiedInLen, OnStreamLen, CopiedOutLen, WaitingLen

\* The session starts with nothing on its way.
LEMMA InitialSession ==
  ASSUME SessionInit
  PROVE  SessionInv
<1>1. SessionTypeOK
  BY DEF SessionInit, SessionTypeOK, Sides, Directions, Channels, ChannelStates
<1>2. ASSUME NEW s \in Sides
      PROVE  InOrder(s) /\ Accounted(s) /\ EndedByBridge(s)
  <2>1. /\ got[s] = <<>> /\ Arrived(s) = <<>> /\ CopiedIn(s) = <<>> /\ OnStream(s) = <<>>
        /\ CopiedOut(s) = <<>> /\ Waiting(s) = <<>> /\ wrote[s] = 0
    BY ChannelsDiffer, OtherSide
       DEF SessionInit, Directions, Channels,
           Arrived, CopiedIn, OnStream, CopiedOut, Waiting
  <2>2. TakesIn(s) /\ TakesOut(s) /\ TakesIn(Other(s))
    BY DEF SessionInit, Sides, Other, TakesIn, TakesOut
  <2>3. chan[Stream(s)].end = "open" /\ chan[Readable(s)].end = "open"
    BY ChannelsDiffer DEF SessionInit, Channels
  <2>4. Len(<<>>) = 0
    BY EmptySeq
  <2>5. InOrder(s)
    BY <2>1, <2>4 DEF InOrder, Run, Received, Streamed,
         GotLen, ArrivedLen, CopiedInLen, OnStreamLen, CopiedOutLen, WaitingLen
  <2> QED BY <2>2, <2>3, <2>5 DEF Accounted, EndedByBridge
<1> QED BY <1>1, <1>2 DEF SessionInv

-----------------------------------------------------------------------------
(* Data that move *)

\* Lengths of the sequences that a move makes.
LEMMA MoveLengths ==
  ASSUME NEW q \in Seq(Nat), NEW r \in Seq(Nat), NEW x \in Nat
  PROVE  /\ Len(<<>>) = 0 /\ Len(<<x>>) = 1
         /\ Len(Append(q, x)) = Len(q) + 1
         /\ Len(q \o r) = Len(q) + Len(r)
         /\ r # <<>> => Head(r) \in Nat /\ Len(Tail(r)) = Len(r) - 1
  BY EmptySeq, AppendProperties, ConcatProperties, HeadTailProperties

\* A run starts with the unit after its offset.
LEMMA RunHead ==
  ASSUME NEW r \in Seq(Nat), NEW a \in Nat, Run(r, a), r # <<>>
  PROVE  Head(r) = a + 1 /\ Run(<<Head(r)>>, a) /\ Run(<<>>, a + 1)
<1>1. Len(r) \in Nat \ {0} /\ Head(r) = r[1]
  BY EmptySeq, LenProperties, HeadTailProperties
<1>2. Head(r) = a + 1
  BY <1>1 DEF Run
<1>3. Len(<<a + 1>>) = 1 /\ <<a + 1>>[1] = a + 1 /\ Len(<<>>) = 0
  OBVIOUS
<1> QED BY <1>2, <1>3 DEF Run

\* The app writes a unit, the other app reads one, and what the copy into the reader's
\* connection and the copy onto the stream do with one.
WritesUnit(s) ==
  /\ chan[Written(s)].end = "open"
  /\ Waiting(s)' = Append(Waiting(s), wrote[s] + 1)
  /\ wrote'[s] = wrote[s] + 1
  /\ UNCHANGED <<got[s], Arrived(s), CopiedIn(s), OnStream(s), CopiedOut(s)>>

ReadsUnit(s) ==
  /\ Arrived(s) # <<>>
  /\ got'[s] = Append(got[s], Head(Arrived(s)))
  /\ Arrived(s)' = Tail(Arrived(s))
  /\ UNCHANGED <<CopiedIn(s), OnStream(s), CopiedOut(s), Waiting(s), wrote[s]>>

InPasses(s) ==
  /\ TakesIn(Other(s))
  /\ CopiedIn(s) = <<>> /\ OnStream(s) # <<>>
  /\ OnStream(s)' = Tail(OnStream(s))
  /\ Arrived(s)' = Append(Arrived(s), Head(OnStream(s)))
  /\ UNCHANGED <<got[s], CopiedIn(s), CopiedOut(s), Waiting(s), wrote[s]>>

InHolds(s) ==
  /\ TakesIn(Other(s))
  /\ CopiedIn(s) = <<>> /\ OnStream(s) # <<>>
  /\ OnStream(s)' = Tail(OnStream(s))
  /\ CopiedIn(s)' = <<Head(OnStream(s))>>
  /\ UNCHANGED <<got[s], Arrived(s), CopiedOut(s), Waiting(s), wrote[s]>>

InWrites(s) ==
  /\ TakesIn(Other(s))
  /\ Arrived(s)' = Arrived(s) \o CopiedIn(s) /\ CopiedIn(s)' = <<>>
  /\ UNCHANGED <<got[s], OnStream(s), CopiedOut(s), Waiting(s), wrote[s]>>

OutPasses(s) ==
  /\ TakesOut(s)
  /\ CopiedOut(s) = <<>> /\ Waiting(s) # <<>>
  /\ Waiting(s)' = Tail(Waiting(s))
  /\ OnStream(s)' = Append(OnStream(s), Head(Waiting(s)))
  /\ UNCHANGED <<got[s], Arrived(s), CopiedIn(s), CopiedOut(s), wrote[s]>>

OutHolds(s) ==
  /\ TakesOut(s)
  /\ CopiedOut(s) = <<>> /\ Waiting(s) # <<>>
  /\ Waiting(s)' = Tail(Waiting(s))
  /\ CopiedOut(s)' = <<Head(Waiting(s))>>
  /\ UNCHANGED <<got[s], Arrived(s), CopiedIn(s), OnStream(s), wrote[s]>>

OutWrites(s) ==
  /\ TakesOut(s)
  /\ OnStream(s)' = OnStream(s) \o CopiedOut(s) /\ CopiedOut(s)' = <<>>
  /\ UNCHANGED <<got[s], Arrived(s), CopiedIn(s), Waiting(s), wrote[s]>>

\* The step leaves the data of s where they are.
Keeps(s) ==
  UNCHANGED <<got[s], Arrived(s), CopiedIn(s), OnStream(s), CopiedOut(s), Waiting(s), wrote[s]>>

Moves(s) ==
  \/ WritesUnit(s) \/ ReadsUnit(s)
  \/ InPasses(s) \/ InHolds(s) \/ InWrites(s)
  \/ OutPasses(s) \/ OutHolds(s) \/ OutWrites(s)

\* No bridge goes on, no channel ends and nothing is lost.
Quiet ==
  /\ UNCHANGED <<bridge, cut, gaveUp>>
  /\ \A ch \in Channels : chan'[ch].end = chan[ch].end

\* A unit of the stream passes through to the reader's connection.
LEMMA InPassesSizes ==
  ASSUME SessionTypeOK, NEW s \in Sides, InPasses(s)
  PROVE  /\ CopiedInLen(s) = 0 /\ OnStreamLen(s)' = OnStreamLen(s) - 1
         /\ Received(s)' = Received(s) + 1 /\ Streamed(s)' = Streamed(s)
<1>1. /\ Arrived(s) \in Seq(Nat) /\ CopiedIn(s) \in Seq(Nat) /\ OnStream(s) \in Seq(Nat)
      /\ CopiedOut(s) \in Seq(Nat) /\ Waiting(s) \in Seq(Nat) /\ got[s] \in Seq(Nat)
  BY DataTyped
<1>n. /\ GotLen(s) \in Nat /\ ArrivedLen(s) \in Nat /\ CopiedInLen(s) \in Nat
      /\ OnStreamLen(s) \in Nat /\ CopiedOutLen(s) \in Nat /\ WaitingLen(s) \in Nat
  BY DataTyped
<1>2. OnStreamLen(s)' = OnStreamLen(s) - 1 /\ Head(OnStream(s)) \in Nat
  BY <1>1, HeadTailProperties DEF InPasses,
         GotLen, ArrivedLen, CopiedInLen, OnStreamLen, CopiedOutLen, WaitingLen
<1>3. ArrivedLen(s)' = ArrivedLen(s) + 1
  BY <1>1, <1>2, AppendProperties DEF InPasses,
         GotLen, ArrivedLen, CopiedInLen, OnStreamLen, CopiedOutLen, WaitingLen
<1>4. CopiedInLen(s) = 0
  BY EmptySeq DEF InPasses,
         GotLen, ArrivedLen, CopiedInLen, OnStreamLen, CopiedOutLen, WaitingLen
<1>5. /\ GotLen(s)' = GotLen(s)
      /\ CopiedInLen(s)' = CopiedInLen(s)
  BY DEF InPasses,
         GotLen, ArrivedLen, CopiedInLen, OnStreamLen, CopiedOutLen, WaitingLen
<1> QED BY <1>n, <1>2, <1>3, <1>4, <1>5 DEF Received, Streamed

\* A unit of the stream is held by the copy.
LEMMA InHoldsSizes ==
  ASSUME SessionTypeOK, NEW s \in Sides, InHolds(s)
  PROVE  /\ CopiedInLen(s) = 0 /\ CopiedInLen(s)' = 1
         /\ OnStreamLen(s)' = OnStreamLen(s) - 1
         /\ Received(s)' = Received(s) /\ Streamed(s)' = Streamed(s)
<1>1. /\ Arrived(s) \in Seq(Nat) /\ CopiedIn(s) \in Seq(Nat) /\ OnStream(s) \in Seq(Nat)
      /\ CopiedOut(s) \in Seq(Nat) /\ Waiting(s) \in Seq(Nat) /\ got[s] \in Seq(Nat)
  BY DataTyped
<1>n. /\ GotLen(s) \in Nat /\ ArrivedLen(s) \in Nat /\ CopiedInLen(s) \in Nat
      /\ OnStreamLen(s) \in Nat /\ CopiedOutLen(s) \in Nat /\ WaitingLen(s) \in Nat
  BY DataTyped
<1>2. OnStreamLen(s)' = OnStreamLen(s) - 1
  BY <1>1, HeadTailProperties DEF InHolds,
         GotLen, ArrivedLen, CopiedInLen, OnStreamLen, CopiedOutLen, WaitingLen
<1>3. CopiedInLen(s) = 0 /\ CopiedInLen(s)' = 1
  <2>1. Len(<<>>) = 0 /\ Len(<<Head(OnStream(s))>>) = 1
    OBVIOUS
  <2> QED BY <2>1 DEF InHolds,
         GotLen, ArrivedLen, CopiedInLen, OnStreamLen, CopiedOutLen, WaitingLen
<1>4. /\ GotLen(s)' = GotLen(s)
      /\ ArrivedLen(s)' = ArrivedLen(s)
  BY DEF InHolds,
         GotLen, ArrivedLen, CopiedInLen, OnStreamLen, CopiedOutLen, WaitingLen
<1> QED BY <1>n, <1>2, <1>3, <1>4 DEF Received, Streamed

\* The copy writes what it held to the reader's connection.
LEMMA InWritesSizes ==
  ASSUME SessionTypeOK, NEW s \in Sides, InWrites(s)
  PROVE  /\ CopiedInLen(s)' = 0
         /\ Received(s)' = Received(s) + CopiedInLen(s) /\ Streamed(s)' = Streamed(s)
<1>1. /\ Arrived(s) \in Seq(Nat) /\ CopiedIn(s) \in Seq(Nat) /\ OnStream(s) \in Seq(Nat)
      /\ CopiedOut(s) \in Seq(Nat) /\ Waiting(s) \in Seq(Nat) /\ got[s] \in Seq(Nat)
  BY DataTyped
<1>n. /\ GotLen(s) \in Nat /\ ArrivedLen(s) \in Nat /\ CopiedInLen(s) \in Nat
      /\ OnStreamLen(s) \in Nat /\ CopiedOutLen(s) \in Nat /\ WaitingLen(s) \in Nat
  BY DataTyped
<1>2. ArrivedLen(s)' = ArrivedLen(s) + CopiedInLen(s)
  BY <1>1, ConcatProperties DEF InWrites,
         GotLen, ArrivedLen, CopiedInLen, OnStreamLen, CopiedOutLen, WaitingLen
<1>3. CopiedInLen(s)' = 0
  BY EmptySeq DEF InWrites,
         GotLen, ArrivedLen, CopiedInLen, OnStreamLen, CopiedOutLen, WaitingLen
<1>4. /\ GotLen(s)' = GotLen(s)
      /\ OnStreamLen(s)' = OnStreamLen(s)
  BY DEF InWrites,
         GotLen, ArrivedLen, CopiedInLen, OnStreamLen, CopiedOutLen, WaitingLen
<1> QED BY <1>n, <1>2, <1>3, <1>4 DEF Received, Streamed

\* A unit passes through to the stream.
LEMMA OutPassesSizes ==
  ASSUME SessionTypeOK, NEW s \in Sides, OutPasses(s)
  PROVE  /\ CopiedOutLen(s) = 0 /\ WaitingLen(s)' = WaitingLen(s) - 1
         /\ Streamed(s)' = Streamed(s) + 1 /\ Received(s)' = Received(s)
<1>1. /\ Arrived(s) \in Seq(Nat) /\ CopiedIn(s) \in Seq(Nat) /\ OnStream(s) \in Seq(Nat)
      /\ CopiedOut(s) \in Seq(Nat) /\ Waiting(s) \in Seq(Nat) /\ got[s] \in Seq(Nat)
  BY DataTyped
<1>n. /\ GotLen(s) \in Nat /\ ArrivedLen(s) \in Nat /\ CopiedInLen(s) \in Nat
      /\ OnStreamLen(s) \in Nat /\ CopiedOutLen(s) \in Nat /\ WaitingLen(s) \in Nat
  BY DataTyped
<1>2. WaitingLen(s)' = WaitingLen(s) - 1 /\ Head(Waiting(s)) \in Nat
  BY <1>1, HeadTailProperties DEF OutPasses,
         GotLen, ArrivedLen, CopiedInLen, OnStreamLen, CopiedOutLen, WaitingLen
<1>3. OnStreamLen(s)' = OnStreamLen(s) + 1
  BY <1>1, <1>2, AppendProperties DEF OutPasses,
         GotLen, ArrivedLen, CopiedInLen, OnStreamLen, CopiedOutLen, WaitingLen
<1>4. CopiedOutLen(s) = 0
  BY EmptySeq DEF OutPasses,
         GotLen, ArrivedLen, CopiedInLen, OnStreamLen, CopiedOutLen, WaitingLen
<1>5. /\ GotLen(s)' = GotLen(s)
      /\ ArrivedLen(s)' = ArrivedLen(s)
      /\ CopiedInLen(s)' = CopiedInLen(s)
  BY DEF OutPasses,
         GotLen, ArrivedLen, CopiedInLen, OnStreamLen, CopiedOutLen, WaitingLen
<1> QED BY <1>n, <1>2, <1>3, <1>4, <1>5 DEF Received, Streamed

\* A unit for the stream is held by the copy.
LEMMA OutHoldsSizes ==
  ASSUME SessionTypeOK, NEW s \in Sides, OutHolds(s)
  PROVE  /\ CopiedOutLen(s) = 0 /\ CopiedOutLen(s)' = 1
         /\ WaitingLen(s)' = WaitingLen(s) - 1
         /\ Streamed(s)' = Streamed(s) /\ Received(s)' = Received(s)
<1>1. /\ Arrived(s) \in Seq(Nat) /\ CopiedIn(s) \in Seq(Nat) /\ OnStream(s) \in Seq(Nat)
      /\ CopiedOut(s) \in Seq(Nat) /\ Waiting(s) \in Seq(Nat) /\ got[s] \in Seq(Nat)
  BY DataTyped
<1>n. /\ GotLen(s) \in Nat /\ ArrivedLen(s) \in Nat /\ CopiedInLen(s) \in Nat
      /\ OnStreamLen(s) \in Nat /\ CopiedOutLen(s) \in Nat /\ WaitingLen(s) \in Nat
  BY DataTyped
<1>2. WaitingLen(s)' = WaitingLen(s) - 1
  BY <1>1, HeadTailProperties DEF OutHolds,
         GotLen, ArrivedLen, CopiedInLen, OnStreamLen, CopiedOutLen, WaitingLen
<1>3. CopiedOutLen(s) = 0 /\ CopiedOutLen(s)' = 1
  <2>1. Len(<<>>) = 0 /\ Len(<<Head(Waiting(s))>>) = 1
    OBVIOUS
  <2> QED BY <2>1 DEF OutHolds,
         GotLen, ArrivedLen, CopiedInLen, OnStreamLen, CopiedOutLen, WaitingLen
<1>4. /\ GotLen(s)' = GotLen(s)
      /\ ArrivedLen(s)' = ArrivedLen(s)
      /\ CopiedInLen(s)' = CopiedInLen(s)
      /\ OnStreamLen(s)' = OnStreamLen(s)
  BY DEF OutHolds,
         GotLen, ArrivedLen, CopiedInLen, OnStreamLen, CopiedOutLen, WaitingLen
<1> QED BY <1>n, <1>2, <1>3, <1>4 DEF Received, Streamed

\* The copy writes what it held to the stream.
LEMMA OutWritesSizes ==
  ASSUME SessionTypeOK, NEW s \in Sides, OutWrites(s)
  PROVE  /\ CopiedOutLen(s)' = 0
         /\ Streamed(s)' = Streamed(s) + CopiedOutLen(s) /\ Received(s)' = Received(s)
<1>1. /\ Arrived(s) \in Seq(Nat) /\ CopiedIn(s) \in Seq(Nat) /\ OnStream(s) \in Seq(Nat)
      /\ CopiedOut(s) \in Seq(Nat) /\ Waiting(s) \in Seq(Nat) /\ got[s] \in Seq(Nat)
  BY DataTyped
<1>n. /\ GotLen(s) \in Nat /\ ArrivedLen(s) \in Nat /\ CopiedInLen(s) \in Nat
      /\ OnStreamLen(s) \in Nat /\ CopiedOutLen(s) \in Nat /\ WaitingLen(s) \in Nat
  BY DataTyped
<1>2. OnStreamLen(s)' = OnStreamLen(s) + CopiedOutLen(s)
  BY <1>1, ConcatProperties DEF OutWrites,
         GotLen, ArrivedLen, CopiedInLen, OnStreamLen, CopiedOutLen, WaitingLen
<1>3. CopiedOutLen(s)' = 0
  BY EmptySeq DEF OutWrites,
         GotLen, ArrivedLen, CopiedInLen, OnStreamLen, CopiedOutLen, WaitingLen
<1>4. /\ GotLen(s)' = GotLen(s)
      /\ ArrivedLen(s)' = ArrivedLen(s)
      /\ CopiedInLen(s)' = CopiedInLen(s)
  BY DEF OutWrites,
         GotLen, ArrivedLen, CopiedInLen, OnStreamLen, CopiedOutLen, WaitingLen
<1> QED BY <1>n, <1>2, <1>3, <1>4 DEF Received, Streamed

\* An app reads on in order.
LEMMA ReadsSizes ==
  ASSUME SessionTypeOK, NEW s \in Sides, ReadsUnit(s)
  PROVE  Received(s)' = Received(s) /\ Streamed(s)' = Streamed(s)
<1>1. /\ GotLen(s) \in Nat /\ ArrivedLen(s) \in Nat
      /\ got[s] \in Seq(Nat) /\ Arrived(s) \in Seq(Nat)
  BY DataTyped
<1>2. ArrivedLen(s)' = ArrivedLen(s) - 1 /\ Head(Arrived(s)) \in Nat
  BY <1>1, HeadTailProperties DEF ReadsUnit, ArrivedLen
<1>3. GotLen(s)' = GotLen(s) + 1
  BY <1>1, <1>2, AppendProperties DEF ReadsUnit, GotLen
<1>4. CopiedInLen(s)' = CopiedInLen(s) /\ OnStreamLen(s)' = OnStreamLen(s)
  BY DEF ReadsUnit, CopiedInLen, OnStreamLen
<1>5. Received(s)' = Received(s)
  BY <1>1, <1>2, <1>3 DEF Received
<1> QED BY <1>4, <1>5 DEF Streamed

\* What the connection and the bridges say of the units of an app that have arrived.
LEMMA ArrivedInOrder ==
  ASSUME SessionInv, NEW s \in Sides, UNCHANGED <<bridge, cut, gaveUp>>,
         Moves(s) \/ Keeps(s), s \notin cut
  PROVE  Run(got'[s], 0) /\ Run(Arrived(s)', GotLen(s)')
<1>1. Run(got[s], 0) /\ Run(Arrived(s), GotLen(s))
  BY DEF SessionInv, InOrder
<1>2. /\ got[s] \in Seq(Nat) /\ Arrived(s) \in Seq(Nat) /\ CopiedIn(s) \in Seq(Nat)
      /\ OnStream(s) \in Seq(Nat) /\ GotLen(s) \in Nat /\ ArrivedLen(s) \in Nat
  BY DataTyped DEF SessionInv
<1>3. CASE ReadsUnit(s)
  <2>1. GotLen(s)' = GotLen(s) + 1
    BY <1>2, <1>3, HeadTailProperties, AppendProperties DEF ReadsUnit, GotLen
  <2>2. /\ Run(Append(got[s], Head(Arrived(s))), 0)
        /\ Run(Tail(Arrived(s)), GotLen(s) + 1)
    BY <1>1, <1>2, <1>3, RunMoves DEF ReadsUnit, GotLen
  <2> QED BY <1>3, <2>1, <2>2 DEF ReadsUnit
<1>4. CASE InPasses(s)
  <2>1. Run(OnStream(s), GotLen(s) + ArrivedLen(s))
    <3>1. CopiedInLen(s) = 0 /\ Run(OnStream(s), Received(s) + CopiedInLen(s))
      BY <1>4, InPassesSizes DEF SessionInv, InOrder, InPasses
    <3> QED BY <1>2, <3>1 DEF Received
  <2>2. Run(Append(Arrived(s), Head(OnStream(s))), GotLen(s))
    BY <1>1, <1>2, <1>4, <2>1, RunMoves DEF InPasses, ArrivedLen
  <2> QED BY <1>1, <1>4, <2>2 DEF InPasses, GotLen
<1>5. CASE InWrites(s)
  <2>1. Run(CopiedIn(s), GotLen(s) + ArrivedLen(s))
    BY <1>5 DEF SessionInv, InOrder, InWrites, Received
  <2>2. Run(Arrived(s) \o CopiedIn(s), GotLen(s))
    BY <1>1, <1>2, <2>1, RunJoins DEF ArrivedLen
  <2> QED BY <1>1, <1>5, <2>2 DEF InWrites, GotLen
<1>6. CASE WritesUnit(s) \/ InHolds(s) \/ OutPasses(s) \/ OutHolds(s) \/ OutWrites(s) \/ Keeps(s)
  BY <1>1, <1>6 DEF WritesUnit, InHolds, OutPasses, OutHolds, OutWrites, Keeps, GotLen
<1> QED BY <1>3, <1>4, <1>5, <1>6 DEF Moves

\* The same of the units that the reader's bridge and the stream hold.
LEMMA StreamedInOrder ==
  ASSUME SessionInv, NEW s \in Sides, UNCHANGED <<bridge, cut, gaveUp>>,
         Moves(s) \/ Keeps(s), s \notin cut, TakesIn(Other(s))
  PROVE  /\ Run(CopiedIn(s)', Received(s)')
         /\ Run(OnStream(s)', Received(s)' + CopiedInLen(s)')
<1>1. /\ Run(CopiedIn(s), Received(s))
      /\ Run(OnStream(s), Received(s) + CopiedInLen(s))
  BY DEF SessionInv, InOrder
<1>2. /\ GotLen(s) \in Nat /\ ArrivedLen(s) \in Nat /\ CopiedInLen(s) \in Nat
      /\ OnStreamLen(s) \in Nat /\ CopiedOutLen(s) \in Nat
      /\ OnStream(s) \in Seq(Nat) /\ CopiedOut(s) \in Seq(Nat) /\ Waiting(s) \in Seq(Nat)
      /\ SessionTypeOK
  BY DataTyped DEF SessionInv
<1>3. Received(s) \in Nat /\ Received(s) + CopiedInLen(s) \in Nat
  BY <1>2 DEF Received
<1>4. CASE ReadsUnit(s)
  BY <1>1, <1>2, <1>4, ReadsSizes DEF ReadsUnit, CopiedInLen
<1>5. CASE InPasses(s) \/ InHolds(s)
  <2> DEFINE a == Received(s)
  <2>1. a \in Nat /\ CopiedInLen(s) = 0 /\ OnStream(s) # <<>> /\ Run(OnStream(s), a)
    <3>1. CopiedInLen(s) = 0
      BY <1>2, <1>5, InPassesSizes, InHoldsSizes
    <3>2. a + CopiedInLen(s) = a
      BY <1>3, <3>1
    <3>3. OnStream(s) # <<>>
      BY <1>5 DEF InPasses, InHolds
    <3> QED BY <1>1, <1>3, <3>1, <3>2, <3>3
  <2> HIDE DEF a
  <2>2. Run(<<Head(OnStream(s))>>, a) /\ Run(<<>>, a + 1) /\ Run(Tail(OnStream(s)), a + 1)
    <3>1. Run(<<>>, a) /\ Len(<<>>) = 0 /\ <<>> \in Seq(Nat)
      BY <2>1 DEF Run
    <3>2. a + Len(<<>>) = a /\ a + Len(<<>>) + 1 = a + 1
      BY <2>1, <3>1
    <3>3. Run(Tail(OnStream(s)), a + 1)
      BY <1>2, <2>1, <3>1, <3>2, RunMoves
    <3> QED BY <1>2, <2>1, <3>3, RunHead
  <2>3. CASE InPasses(s)
    <3>1. Received(s)' = a + 1 /\ CopiedInLen(s)' = 0
      BY <1>2, <2>1, <2>3, InPassesSizes DEF InPasses, CopiedInLen, a
    <3>2. Received(s)' + CopiedInLen(s)' = a + 1
      BY <2>1, <3>1
    <3> QED BY <2>2, <2>3, <3>1, <3>2 DEF InPasses
  <2>4. CASE InHolds(s)
    <3>1. Received(s)' = a /\ CopiedInLen(s)' = 1
      BY <1>2, <2>4, InHoldsSizes DEF a
    <3>2. Received(s)' + CopiedInLen(s)' = a + 1
      BY <2>1, <3>1
    <3> QED BY <2>2, <2>4, <3>1, <3>2 DEF InHolds
  <2> QED BY <1>5, <2>3, <2>4
<1>6. CASE InWrites(s)
  <2>1. CopiedInLen(s)' = 0 /\ Received(s)' = Received(s) + CopiedInLen(s)
    BY <1>2, <1>6, InWritesSizes
  <2>2. Received(s)' + CopiedInLen(s)' = Received(s) + CopiedInLen(s)
    BY <1>2, <1>3, <2>1
  <2>3. Run(CopiedIn(s)', Received(s)')
    BY <2>1 DEF CopiedInLen, Run
  <2> QED BY <1>1, <1>6, <2>2, <2>3 DEF InWrites
<1>7. CASE OutPasses(s)
  <2>1. TakesOut(s) /\ Run(Waiting(s), Streamed(s) + CopiedOutLen(s)) /\ CopiedOutLen(s) = 0
    BY <1>2, <1>7, OutPassesSizes DEF SessionInv, InOrder, OutPasses
  <2>2. Run(Waiting(s), Received(s) + CopiedInLen(s) + OnStreamLen(s))
    <3>1. Streamed(s) + CopiedOutLen(s) = Received(s) + CopiedInLen(s) + OnStreamLen(s)
      BY <1>2, <1>3, <2>1 DEF Streamed
    <3> QED BY <2>1, <3>1
  <2>3. Run(Append(OnStream(s), Head(Waiting(s))), Received(s) + CopiedInLen(s))
    BY <1>1, <1>2, <1>3, <1>7, <2>2, RunMoves DEF OutPasses, OnStreamLen
  <2> QED BY <1>1, <1>7, <2>3 DEF OutPasses, CopiedInLen, Received, GotLen, ArrivedLen
<1>8. CASE OutWrites(s)
  <2>1. TakesOut(s) /\ Run(CopiedOut(s), Received(s) + CopiedInLen(s) + OnStreamLen(s))
    BY <1>8 DEF SessionInv, InOrder, OutWrites, Streamed
  <2>2. Run(OnStream(s) \o CopiedOut(s), Received(s) + CopiedInLen(s))
    BY <1>1, <1>2, <1>3, <2>1, RunJoins DEF OnStreamLen
  <2> QED BY <1>1, <1>8, <2>2 DEF OutWrites, CopiedInLen, Received, GotLen, ArrivedLen
<1>9. CASE WritesUnit(s) \/ OutHolds(s) \/ Keeps(s)
  BY <1>1, <1>9
     DEF WritesUnit, OutHolds, Keeps, CopiedInLen, Received, GotLen, ArrivedLen
<1> QED BY <1>4, <1>5, <1>6, <1>7, <1>8, <1>9 DEF Moves

\* The same of the units that the writer's bridge and its connection hold, the last of
\* which is the one the app wrote last.
LEMMA WaitingInOrder ==
  ASSUME SessionInv, NEW s \in Sides, UNCHANGED <<bridge, cut, gaveUp>>,
         Moves(s) \/ Keeps(s), s \notin cut, TakesIn(Other(s)), TakesOut(s)
  PROVE  /\ Run(CopiedOut(s)', Streamed(s)')
         /\ Run(Waiting(s)', Streamed(s)' + CopiedOutLen(s)')
         /\ Streamed(s)' + CopiedOutLen(s)' + WaitingLen(s)' = wrote'[s]
<1>1. /\ Run(CopiedOut(s), Streamed(s))
      /\ Run(Waiting(s), Streamed(s) + CopiedOutLen(s))
      /\ Streamed(s) + CopiedOutLen(s) + WaitingLen(s) = wrote[s]
  BY DEF SessionInv, InOrder
<1>2. /\ GotLen(s) \in Nat /\ ArrivedLen(s) \in Nat /\ CopiedInLen(s) \in Nat
      /\ OnStreamLen(s) \in Nat /\ CopiedOutLen(s) \in Nat /\ WaitingLen(s) \in Nat
      /\ wrote[s] \in Nat /\ Waiting(s) \in Seq(Nat) /\ SessionTypeOK
  BY DataTyped DEF SessionInv
<1>3. Streamed(s) \in Nat /\ Streamed(s) + CopiedOutLen(s) \in Nat
  <2>1. Received(s) \in Nat
    BY <1>2 DEF Received
  <2> QED BY <1>2, <2>1 DEF Streamed
<1>4. CASE ReadsUnit(s) \/ InPasses(s) \/ InHolds(s) \/ InWrites(s)
  <2>1. Streamed(s)' = Streamed(s)
    BY <1>2, <1>4, ReadsSizes, InPassesSizes, InHoldsSizes, InWritesSizes
  <2>2. UNCHANGED <<CopiedOut(s), Waiting(s), wrote[s]>>
    BY <1>4 DEF ReadsUnit, InPasses, InHolds, InWrites
  <2> QED BY <1>1, <2>1, <2>2 DEF CopiedOutLen, WaitingLen
<1>5. CASE WritesUnit(s)
  <2> DEFINE a == Streamed(s) + CopiedOutLen(s)
             x == wrote[s] + 1
  <2>1. a \in Nat /\ Run(Waiting(s), a) /\ a + WaitingLen(s) + 1 = x /\ x \in Nat
    <3>1. a \in Nat /\ Run(Waiting(s), a) /\ a + WaitingLen(s) = wrote[s]
      BY <1>1, <1>3
    <3>2. WaitingLen(s) \in Nat /\ wrote[s] \in Nat
      BY <1>2
    <3> HIDE DEF a
    <3> QED BY <3>1, <3>2
  <2>2. UNCHANGED <<CopiedOut(s), Streamed(s)>> /\ CopiedOutLen(s)' = CopiedOutLen(s)
    BY <1>5 DEF WritesUnit, Streamed, Received, GotLen, ArrivedLen, CopiedInLen, OnStreamLen,
                CopiedOutLen
  <2>3. Waiting(s)' = Append(Waiting(s), x) /\ wrote'[s] = x
    BY <1>5 DEF WritesUnit
  <2>4. Streamed(s)' + CopiedOutLen(s)' = a
    BY <2>2
  <2> HIDE DEF a, x
  <2>5. WaitingLen(s)' = WaitingLen(s) + 1
    BY <1>2, <2>1, <2>3, AppendProperties DEF WaitingLen
  <2>6. Append(Waiting(s), x) = Waiting(s) \o <<x>>
    BY <1>2, <2>1, AppendIsConcat
  <2>7. Run(Waiting(s) \o <<x>>, a)
    <3> DEFINE q == <<x>>
    <3>1. q \in Seq(Nat) /\ Len(q) = 1 /\ q[1] = x
      BY <2>1
    <3> HIDE DEF q
    <3>2. Run(q, a + WaitingLen(s))
      BY <1>2, <2>1, <3>1 DEF Run
    <3>3. Run(Waiting(s) \o q, a)
      BY <1>2, <2>1, <3>1, <3>2, RunJoins DEF WaitingLen
    <3> QED BY <3>3 DEF q
  <2>8. a + WaitingLen(s)' = x
    BY <1>2, <2>1, <2>5
  <2> QED BY <1>1, <2>2, <2>3, <2>4, <2>6, <2>7, <2>8
<1>6. CASE OutPasses(s) \/ OutHolds(s)
  <2> DEFINE b == Streamed(s)
  <2>1. /\ b \in Nat /\ CopiedOutLen(s) = 0 /\ Waiting(s) # <<>> /\ Run(Waiting(s), b)
        /\ b + WaitingLen(s) = wrote[s]
    <3>1. CopiedOutLen(s) = 0
      BY <1>2, <1>6, OutPassesSizes, OutHoldsSizes
    <3>2. b + CopiedOutLen(s) = b
      BY <1>3, <3>1
    <3>3. Waiting(s) # <<>>
      BY <1>6 DEF OutPasses, OutHolds
    <3> QED BY <1>1, <1>3, <3>1, <3>2, <3>3
  <2> HIDE DEF b
  <2>2. Run(<<Head(Waiting(s))>>, b) /\ Run(<<>>, b + 1) /\ Run(Tail(Waiting(s)), b + 1)
    <3>1. Run(<<>>, b) /\ Len(<<>>) = 0 /\ <<>> \in Seq(Nat)
      BY <2>1 DEF Run
    <3>2. b + Len(<<>>) = b /\ b + Len(<<>>) + 1 = b + 1
      BY <2>1, <3>1
    <3>3. Run(Tail(Waiting(s)), b + 1)
      BY <1>2, <2>1, <3>1, <3>2, RunMoves
    <3> QED BY <1>2, <2>1, <3>3, RunHead
  <2>3. /\ Waiting(s)' = Tail(Waiting(s)) /\ WaitingLen(s)' = WaitingLen(s) - 1
        /\ wrote'[s] = wrote[s]
    BY <1>2, <1>6, OutPassesSizes, OutHoldsSizes DEF OutPasses, OutHolds
  <2>4. /\ Run(CopiedOut(s)', Streamed(s)')
        /\ Streamed(s)' + CopiedOutLen(s)' = b + 1
    <3>1. CASE OutPasses(s)
      <4>1. Streamed(s)' = b + 1 /\ CopiedOutLen(s)' = 0
        BY <1>2, <2>1, <3>1, OutPassesSizes DEF OutPasses, CopiedOutLen, b
      <4> QED BY <2>1, <2>2, <3>1, <4>1 DEF OutPasses
    <3>2. CASE OutHolds(s)
      <4>1. Streamed(s)' = b /\ CopiedOutLen(s)' = 1
        BY <1>2, <3>2, OutHoldsSizes DEF b
      <4> QED BY <2>1, <2>2, <3>2, <4>1 DEF OutHolds
    <3> QED BY <1>6, <3>1, <3>2
  <2>5. (b + 1) + (WaitingLen(s) - 1) = wrote[s]
    BY <1>2, <2>1
  <2> QED BY <2>2, <2>3, <2>4, <2>5
<1>7. CASE OutWrites(s)
  <2>1. CopiedOutLen(s)' = 0 /\ Streamed(s)' = Streamed(s) + CopiedOutLen(s)
    BY <1>2, <1>7, OutWritesSizes
  <2>2. Streamed(s)' + CopiedOutLen(s)' = Streamed(s) + CopiedOutLen(s)
    BY <1>2, <1>3, <2>1
  <2>3. Run(CopiedOut(s)', Streamed(s)')
    BY <2>1 DEF CopiedOutLen, Run
  <2> QED BY <1>1, <1>7, <2>2, <2>3 DEF OutWrites, WaitingLen
<1>8. CASE Keeps(s)
  BY <1>1, <1>8
     DEF Keeps, Streamed, Received, GotLen, ArrivedLen, CopiedInLen, OnStreamLen,
         CopiedOutLen, WaitingLen
<1> QED BY <1>4, <1>5, <1>6, <1>7, <1>8 DEF Moves

\* Moves keep the units of an app in order.
LEMMA MovesInOrder ==
  ASSUME SessionInv, NEW s \in Sides, UNCHANGED <<bridge, cut, gaveUp>>,
         Moves(s) \/ Keeps(s)
  PROVE  InOrder(s)'
<1>1. /\ TakesIn(Other(s))' <=> TakesIn(Other(s))
      /\ TakesOut(s)' <=> TakesOut(s)
  BY DEF TakesIn, TakesOut
<1> SUFFICES ASSUME s \notin cut
             PROVE  InOrder(s)'
  BY DEF InOrder
<1>2. Run(got'[s], 0) /\ Run(Arrived(s)', GotLen(s)')
  BY ArrivedInOrder
<1>3. TakesIn(Other(s)) =>
        /\ Run(CopiedIn(s)', Received(s)')
        /\ Run(OnStream(s)', Received(s)' + CopiedInLen(s)')
  BY StreamedInOrder
<1>4. TakesIn(Other(s)) /\ TakesOut(s) =>
        /\ Run(CopiedOut(s)', Streamed(s)')
        /\ Run(Waiting(s)', Streamed(s)' + CopiedOutLen(s)')
        /\ Streamed(s)' + CopiedOutLen(s)' + WaitingLen(s)' = wrote'[s]
  BY WaitingInOrder
<1> QED BY <1>1, <1>2, <1>3, <1>4 DEF InOrder

\* Moves lose none of the units of an app.
LEMMA MovesAccounted ==
  ASSUME SessionInv, NEW s \in Sides, Quiet, Moves(s) \/ Keeps(s)
  PROVE  Accounted(s)' /\ EndedByBridge(s)'
<1>1. Accounted(s) /\ EndedByBridge(s) /\ SessionTypeOK
  BY DEF SessionInv
<1>2. /\ TakesIn(Other(s))' <=> TakesIn(Other(s))
      /\ TakesOut(s)' <=> TakesOut(s)
      /\ chan'[Written(s)].end = chan[Written(s)].end
      /\ chan'[Stream(s)].end = chan[Stream(s)].end
      /\ chan'[Readable(s)].end = chan[Readable(s)].end
  BY ChannelsDiffer DEF Quiet, TakesIn, TakesOut
<1>3. EndedByBridge(s)'
  BY <1>1, <1>2 DEF EndedByBridge, Quiet
<1>4. ASSUME s \notin cut \cup gaveUp
      PROVE  /\ ~TakesOut(s) /\ TakesIn(Other(s)) => Streamed(s)' = wrote'[s]
             /\ ~TakesIn(Other(s)) => Received(s)' = wrote'[s]
  <2>1. /\ ~TakesOut(s) /\ TakesIn(Other(s)) => Streamed(s) = wrote[s]
        /\ ~TakesIn(Other(s)) => Received(s) = wrote[s]
        /\ ~TakesOut(s) \/ ~TakesIn(Other(s)) => chan[Written(s)].end # "open"
    BY <1>1, <1>4 DEF Accounted
  <2>2. CASE ReadsUnit(s)
    <3>1. Received(s)' = Received(s) /\ Streamed(s)' = Streamed(s) /\ wrote'[s] = wrote[s]
      BY <1>1, <2>2, ReadsSizes DEF ReadsUnit
    <3> QED BY <2>1, <3>1
  <2>3. CASE WritesUnit(s)
    BY <2>1, <2>3 DEF WritesUnit
  <2>4. CASE InPasses(s) \/ InHolds(s) \/ InWrites(s)
    <3>1. Streamed(s)' = Streamed(s) /\ TakesIn(Other(s)) /\ wrote'[s] = wrote[s]
      BY <1>1, <2>4, InPassesSizes, InHoldsSizes, InWritesSizes DEF InPasses, InHolds, InWrites
    <3> QED BY <2>1, <3>1
  <2>5. CASE OutPasses(s) \/ OutHolds(s) \/ OutWrites(s)
    <3>1. Received(s)' = Received(s) /\ TakesOut(s) /\ wrote'[s] = wrote[s]
      BY <1>1, <2>5, OutPassesSizes, OutHoldsSizes, OutWritesSizes
         DEF OutPasses, OutHolds, OutWrites
    <3> QED BY <2>1, <3>1
  <2>6. CASE Keeps(s)
    BY <2>1, <2>6
       DEF Keeps, Streamed, Received, GotLen, ArrivedLen, CopiedInLen, OnStreamLen
  <2> QED BY <2>2, <2>3, <2>4, <2>5, <2>6 DEF Moves
<1>5. CASE s \in cut \cup gaveUp
  BY <1>3, <1>5 DEF Accounted, Quiet
<1>6. CASE s \notin cut \cup gaveUp
  <2>1. ~TakesOut(s) \/ ~TakesIn(Other(s)) => chan[Written(s)].end # "open"
    BY <1>1, <1>6 DEF Accounted
  <2> QED BY <1>2, <1>3, <1>4, <1>6, <2>1 DEF Accounted
<1> QED BY <1>5, <1>6

-----------------------------------------------------------------------------
(* The steps of a session *)

\* A channel stays one whatever is set in it.
LEMMA ChannelUpdate ==
  ASSUME NEW f \in [Channels -> ChannelStates], NEW c \in Channels
  PROVE  /\ \A q \in Seq(Nat) : [f EXCEPT ![c].data = q] \in [Channels -> ChannelStates]
         /\ \A e \in {"open", "finished", "broken"} :
              [f EXCEPT ![c].end = e] \in [Channels -> ChannelStates]
         /\ \A b \in BOOLEAN : [f EXCEPT ![c].read = b] \in [Channels -> ChannelStates]
  BY DEF ChannelStates

\* Ending a channel or its reading leaves what it holds.
LEMMA ChannelKept ==
  ASSUME NEW f \in [Channels -> ChannelStates], NEW c \in Channels, NEW x, NEW ch \in Channels
  PROVE  /\ [f EXCEPT ![c].end = x][ch].data = f[ch].data
         /\ [f EXCEPT ![c].read = x][ch].data = f[ch].data
         /\ [f EXCEPT ![c].read = x][ch].end = f[ch].end
         /\ ch # c => [f EXCEPT ![c].end = x][ch].end = f[ch].end
  BY DEF ChannelStates

\* What the copies hold stays so.
LEMMA BufferUpdate ==
  ASSUME NEW f \in [Sides -> [Directions -> Seq(Nat)]],
         NEW t \in Sides, NEW d \in Directions, NEW q \in Seq(Nat)
  PROVE  [f EXCEPT ![t][d] = q] \in [Sides -> [Directions -> Seq(Nat)]]
  OBVIOUS

\* A bridge that returns drops what it holds and changes how channels end, not what
\* they hold.
LEMMA ReturnEffect ==
  ASSUME SessionTypeOK, NEW t \in Sides, Return(t)
  PROVE  /\ chan' \in [Channels -> ChannelStates]
         /\ \A ch \in Channels : chan'[ch].data = chan[ch].data
         /\ bridge' = [bridge EXCEPT ![t] = "over"]
         /\ buffer' = [buffer EXCEPT ![t] = [d \in Directions |-> <<>>]]
         /\ buffer' \in [Sides -> [Directions -> Seq(Nat)]]
         /\ \A u \in Sides :
              /\ chan'[Written(u)].end = chan[Written(u)].end
              /\ chan'[Stream(u)].end # chan[Stream(u)].end => u = t
              /\ chan'[Readable(u)].end # chan[Readable(u)].end => u = t
         /\ chan'[Stream(t)].end # "open"
<1> DEFINE c1 == Stream(t)
           c2 == Stream(Other(t))
           c3 == Written(t)
           c4 == Readable(t)
<1>1. Other(t) \in Sides
  BY OtherSide
<1>2. c1 \in Channels /\ c2 \in Channels /\ c3 \in Channels /\ c4 \in Channels
      /\ c1 # c4
  BY <1>1, ChannelsDiffer
<1>3. PICK e1 \in {"finished", "broken"}, e4 \in {"open", "finished", "broken"} :
        chan' = [chan EXCEPT ![c1].end = e1, ![c2].read = FALSE, ![c3].read = FALSE,
                             ![c4].end = e4]
  <2> DEFINE x1 == EndOf(c1, "finished")
             x4 == EndOf(c4, IF chan[c3].data = <<>> THEN "finished" ELSE "broken")
  <2>1. x1 \in {"finished", "broken"} /\ x4 \in {"open", "finished", "broken"}
    BY <1>2 DEF SessionTypeOK, ChannelStates, EndOf
  <2>2. chan' = [chan EXCEPT ![c1].end = x1, ![c2].read = FALSE, ![c3].read = FALSE,
                             ![c4].end = x4]
    BY DEF Return
  <2> QED BY <2>1, <2>2
<1> HIDE DEF c1, c2, c3, c4
<1>4. chan \in [Channels -> ChannelStates]
  BY DEF SessionTypeOK
<1>5. /\ chan' \in [Channels -> ChannelStates]
      /\ \A ch \in Channels : /\ chan'[ch].data = chan[ch].data
                              /\ chan'[ch].end # chan[ch].end => ch \in {c1, c4}
      /\ chan'[c1].end # "open"
  <2> DEFINE f1 == [chan EXCEPT ![c1].end = e1]
             f2 == [f1 EXCEPT ![c2].read = FALSE]
             f3 == [f2 EXCEPT ![c3].read = FALSE]
             f4 == [f3 EXCEPT ![c4].end = e4]
  <2>1. chan' = f4
    BY <1>3
  <2>2. f1 \in [Channels -> ChannelStates]
    BY <1>2, <1>4, ChannelUpdate
  <2>3. \A ch \in Channels : f1[ch].data = chan[ch].data /\ (ch # c1 => f1[ch].end = chan[ch].end)
    BY <1>2, <1>4, ChannelKept
  <2>10. f1[c1].end = e1
    BY <1>2, <1>4 DEF ChannelStates
  <2> HIDE DEF f1
  <2>4. f2 \in [Channels -> ChannelStates]
    BY <1>2, <2>2, ChannelUpdate
  <2>5. \A ch \in Channels : f2[ch].data = f1[ch].data /\ f2[ch].end = f1[ch].end
    BY <1>2, <2>2, ChannelKept
  <2> HIDE DEF f2
  <2>6. f3 \in [Channels -> ChannelStates]
    BY <1>2, <2>4, ChannelUpdate
  <2>7. \A ch \in Channels : f3[ch].data = f2[ch].data /\ f3[ch].end = f2[ch].end
    BY <1>2, <2>4, ChannelKept
  <2> HIDE DEF f3
  <2>8. f4 \in [Channels -> ChannelStates]
    BY <1>2, <2>6, ChannelUpdate
  <2>9. \A ch \in Channels : f4[ch].data = f3[ch].data /\ (ch # c4 => f4[ch].end = f3[ch].end)
    BY <1>2, <2>6, ChannelKept
  <2> HIDE DEF f4
  <2> QED BY <1>2, <2>1, <2>3, <2>5, <2>7, <2>8, <2>9, <2>10
<1>7. \A u \in Sides :
        /\ chan'[Written(u)].end = chan[Written(u)].end
        /\ chan'[Stream(u)].end # chan[Stream(u)].end => u = t
        /\ chan'[Readable(u)].end # chan[Readable(u)].end => u = t
  BY <1>5, ChannelsDiffer DEF c1, c4
<1>8. /\ bridge' = [bridge EXCEPT ![t] = "over"]
      /\ buffer' = [buffer EXCEPT ![t] = [d \in Directions |-> <<>>]]
  BY DEF Return
<1>9. buffer' \in [Sides -> [Directions -> Seq(Nat)]]
  BY <1>8, EmptySeq DEF SessionTypeOK
<1> QED BY <1>5, <1>7, <1>8, <1>9 DEF c1

\* A copy works on two channels of its own.
LEMMA CopyEnds ==
  ASSUME NEW t \in Sides, NEW d \in Directions
  PROVE  /\ Source(t, d) \in Channels /\ Target(t, d) \in Channels
         /\ Source(t, d) # Target(t, d)
  BY ChannelsDiffer, OtherSide DEF Source, Target

\* Steps of the apps, the connection and the copies keep the types.
LEMMA SessionTyped ==
  ASSUME SessionTypeOK, [SessionNext]_sessionVars
  PROVE  SessionTypeOK'
<1>1. chan \in [Channels -> ChannelStates]
  BY DEF SessionTypeOK
<1>2. ASSUME NEW t \in Sides, AppWrites(t)
      PROVE  SessionTypeOK'
  <2> DEFINE c == Written(t)
             q == Append(chan[c].data, wrote'[t])
  <2>1. c \in Channels /\ chan[c].data \in Seq(Nat)
    BY <1>1, ChannelsDiffer DEF ChannelStates
  <2>2. wrote' \in [Sides -> Nat] /\ q \in Seq(Nat)
    BY <1>2, <2>1, AppendProperties DEF AppWrites, SessionTypeOK
  <2>3. chan' = [chan EXCEPT ![c].data = q]
    BY <1>2 DEF AppWrites
  <2> HIDE DEF c, q
  <2>4. chan' \in [Channels -> ChannelStates]
    BY <1>1, <2>1, <2>2, <2>3 DEF ChannelStates
  <2> QED BY <1>2, <2>2, <2>4 DEF AppWrites, SessionTypeOK
<1>3. ASSUME NEW t \in Sides, AppReads(t)
      PROVE  SessionTypeOK'
  <2> DEFINE c == Readable(t)
             q == Tail(chan[c].data)
             x == Head(chan[c].data)
  <2>1. c \in Channels /\ chan[c].data \in Seq(Nat) /\ chan[c].data # <<>>
    BY <1>1, <1>3, ChannelsDiffer DEF ChannelStates, AppReads
  <2>2. q \in Seq(Nat) /\ x \in Nat
    BY <2>1, HeadTailProperties
  <2>3. chan' = [chan EXCEPT ![c].data = q]
    BY <1>3 DEF AppReads
  <2>4. got' = [got EXCEPT ![Other(t)] = Append(@, x)]
    BY <1>3 DEF AppReads
  <2> HIDE DEF c, q, x
  <2>5. chan' \in [Channels -> ChannelStates]
    BY <1>1, <2>1, <2>2, <2>3 DEF ChannelStates
  <2>6. got' \in [Sides -> Seq(Nat)]
    BY <2>2, <2>4, OtherSide, AppendProperties DEF SessionTypeOK
  <2> QED BY <1>3, <2>5, <2>6 DEF AppReads, SessionTypeOK
<1>4. ASSUME NEW t \in Sides, AppEnds(t)
      PROVE  SessionTypeOK'
  <2> DEFINE c1 == Written(t)
             c2 == Readable(t)
  <2>1. c1 \in Channels /\ c2 \in Channels
    BY ChannelsDiffer
  <2>2. PICK how \in {"finished", "broken"}, stays \in BOOLEAN :
          chan' = [chan EXCEPT ![c1].end = how, ![c2].read = stays]
    BY <1>4 DEF AppEnds
  <2> HIDE DEF c1, c2
  <2>3. chan' \in [Channels -> ChannelStates]
    <3> DEFINE f1 == [chan EXCEPT ![c1].end = how]
               f2 == [f1 EXCEPT ![c2].read = stays]
    <3>1. chan' = f2
      BY <2>2
    <3>2. f1 \in [Channels -> ChannelStates]
      BY <1>1, <2>1, ChannelUpdate
    <3> HIDE DEF f1
    <3>3. f2 \in [Channels -> ChannelStates]
      BY <2>1, <3>2, ChannelUpdate
    <3> QED BY <3>1, <3>3
  <2> QED BY <1>4, <2>3 DEF AppEnds, SessionTypeOK
<1>5. CASE ConnectionLost
  <2>1. chan' \in [Channels -> ChannelStates]
    BY <1>1, <1>5 DEF ConnectionLost, ChannelStates
  <2> QED BY <1>5, <2>1 DEF ConnectionLost, SessionTypeOK
<1>6. CASE HostConnects
  BY <1>6 DEF HostConnects, SessionTypeOK, Sides
<1>7. ASSUME NEW t \in Sides, Return(t), UNCHANGED <<wrote, got>>,
             cut' \subseteq Sides, gaveUp' \subseteq Sides
      PROVE  SessionTypeOK'
  <2>1. bridge' \in [Sides -> {"waiting", "both", "drainIn", "drainOut", "over"}]
    BY <1>7, ReturnEffect DEF SessionTypeOK
  <2> QED BY <1>7, <2>1, ReturnEffect DEF SessionTypeOK
<1>8. CASE HostFails
  BY <1>7, <1>8 DEF HostFails, SessionTypeOK, Sides
<1>9. ASSUME NEW t \in Sides, NEW d \in Directions,
             \/ DrainEnds(t, d) \/ DrainTimesOut(t, d) \/ CopyFails(t, d)
      PROVE  SessionTypeOK'
  <2>1. Origin(t, d) \in Sides
    BY OtherSide DEF Origin
  <2> QED BY <1>7, <1>9, <2>1
             DEF DrainEnds, DrainTimesOut, CopyFails, SessionTypeOK
<1>10. ASSUME NEW t \in Sides, NEW d \in Directions, CopyReads(t, d)
       PROVE  SessionTypeOK'
  <2> DEFINE c1 == Source(t, d)
             c2 == Target(t, d)
             q == Tail(chan[c1].data)
             x == Head(chan[c1].data)
             r == Append(chan[c2].data, x)
  <2>1. c1 \in Channels /\ c2 \in Channels /\ c1 # c2
    BY CopyEnds
  <2>2. chan[c1].data \in Seq(Nat) /\ chan[c1].data # <<>> /\ chan[c2].data \in Seq(Nat)
    BY <1>1, <1>10, <2>1 DEF ChannelStates, CopyReads
  <2>3. q \in Seq(Nat) /\ x \in Nat /\ r \in Seq(Nat)
    BY <2>2, HeadTailProperties, AppendProperties
  <2>4. \/ /\ chan' = [[chan EXCEPT ![c1].data = Tail(@)] EXCEPT ![c2].data = Append(@, x)]
           /\ buffer' = buffer
        \/ /\ chan' = [chan EXCEPT ![c1].data = Tail(@)]
           /\ buffer' = [buffer EXCEPT ![t][d] = <<x>>]
    BY <1>10 DEF CopyReads
  <2>5. [[chan EXCEPT ![c1].data = Tail(@)] EXCEPT ![c2].data = Append(@, x)]
          = [chan EXCEPT ![c1].data = q, ![c2].data = r]
    BY <1>1, <2>1
  <2>6. [chan EXCEPT ![c1].data = Tail(@)] = [chan EXCEPT ![c1].data = q]
    OBVIOUS
  <2> HIDE DEF c1, c2, q, x, r
  <2>7. chan' \in [Channels -> ChannelStates]
    <3> DEFINE f1 == [chan EXCEPT ![c1].data = q]
               f2 == [f1 EXCEPT ![c2].data = r]
    <3>1. chan' = f1 \/ chan' = f2
      BY <2>4, <2>5, <2>6
    <3>2. f1 \in [Channels -> ChannelStates]
      BY <1>1, <2>1, <2>3, ChannelUpdate
    <3> HIDE DEF f1
    <3>3. f2 \in [Channels -> ChannelStates]
      BY <2>1, <2>3, <3>2, ChannelUpdate
    <3> HIDE DEF f2
    <3> QED BY <3>1, <3>2, <3>3
  <2>8. buffer' \in [Sides -> [Directions -> Seq(Nat)]]
    <3> DEFINE h == <<x>>
    <3>1. h \in Seq(Nat)
      BY <2>3
    <3>2. buffer' = buffer \/ buffer' = [buffer EXCEPT ![t][d] = h]
      BY <2>4
    <3> HIDE DEF h
    <3>3. buffer \in [Sides -> [Directions -> Seq(Nat)]]
      BY DEF SessionTypeOK
    <3>4. [buffer EXCEPT ![t][d] = h] \in [Sides -> [Directions -> Seq(Nat)]]
      BY <3>1, <3>3, BufferUpdate
    <3> QED BY <3>2, <3>3, <3>4
  <2> QED BY <1>10, <2>7, <2>8 DEF CopyReads, SessionTypeOK
<1>11. ASSUME NEW t \in Sides, NEW d \in Directions, CopyWrites(t, d)
       PROVE  SessionTypeOK'
  <2> DEFINE c == Target(t, d)
             q == chan[c].data \o buffer[t][d]
  <2>1. c \in Channels /\ chan[c].data \in Seq(Nat) /\ buffer[t][d] \in Seq(Nat)
    BY <1>1, CopyEnds DEF ChannelStates, SessionTypeOK
  <2>2. q \in Seq(Nat)
    BY <2>1, ConcatProperties
  <2>3. /\ chan' = [chan EXCEPT ![c].data = q]
        /\ buffer' = [buffer EXCEPT ![t][d] = <<>>]
    BY <1>11 DEF CopyWrites
  <2> HIDE DEF c, q
  <2>4. chan' \in [Channels -> ChannelStates]
    BY <1>1, <2>1, <2>2, <2>3 DEF ChannelStates
  <2>5. buffer' \in [Sides -> [Directions -> Seq(Nat)]]
    BY <2>3, EmptySeq DEF SessionTypeOK
  <2> QED BY <1>11, <2>4, <2>5 DEF CopyWrites, SessionTypeOK
<1>12. ASSUME NEW t \in Sides, NEW d \in Directions, FirstEnds(t, d)
       PROVE  SessionTypeOK'
  <2>1. chan' \in [Channels -> ChannelStates]
    <3> DEFINE c == Stream(t)
               e == EndOf(c, "finished")
    <3>1. c \in Channels
      BY ChannelsDiffer
    <3>2. e \in {"open", "finished", "broken"}
      BY <1>1, <3>1 DEF ChannelStates, EndOf
    <3>3. chan' = [chan EXCEPT ![c].end = e] \/ chan' = chan
      BY <1>12 DEF FirstEnds
    <3> HIDE DEF c, e
    <3> QED BY <1>1, <3>1, <3>2, <3>3 DEF ChannelStates
  <2>2. bridge' \in [Sides -> {"waiting", "both", "drainIn", "drainOut", "over"}]
    BY <1>12 DEF FirstEnds, SessionTypeOK
  <2>3. buffer' \in [Sides -> [Directions -> Seq(Nat)]]
    <3>1. Opposite(d) \in Directions
      BY DEF Opposite, Directions
    <3> QED BY <1>12, <3>1, EmptySeq DEF FirstEnds, SessionTypeOK
  <2>4. cut' \subseteq Sides
    BY <1>12, OtherSide DEF FirstEnds, SessionTypeOK, Origin
  <2> QED BY <1>12, <2>1, <2>2, <2>3, <2>4 DEF FirstEnds, SessionTypeOK
<1>13. CASE UNCHANGED sessionVars
  BY <1>13 DEF sessionVars, SessionTypeOK
<1> QED BY <1>2, <1>3, <1>4, <1>5, <1>6, <1>8, <1>9, <1>10, <1>11, <1>12, <1>13
        DEF SessionNext, BridgeNext

\* Where the channels and the copies keep what they hold, so do the parts of the way.
LEMMA DataKept ==
  ASSUME NEW s \in Sides, UNCHANGED <<got, wrote, buffer>>,
         \A ch \in Channels : chan'[ch].data = chan[ch].data
  PROVE  Keeps(s)
  BY ChannelsDiffer, OtherSide
     DEF Keeps, Arrived, CopiedIn, OnStream, CopiedOut, Waiting

\* An app writes to its own connection.
LEMMA AppWritesEffect ==
  ASSUME SessionTypeOK, NEW t \in Sides, AppWrites(t), NEW s \in Sides
  PROVE  Quiet /\ (Moves(s) \/ Keeps(s))
<1> DEFINE c == Written(t)
<1>1. chan \in [Channels -> ChannelStates] /\ c \in Channels /\ wrote[t] \in Nat
  BY ChannelsDiffer DEF SessionTypeOK
<1>2. /\ chan' = [chan EXCEPT ![c].data = Append(@, wrote[t] + 1)]
      /\ wrote' = [wrote EXCEPT ![t] = @ + 1]
      /\ UNCHANGED <<buffer, bridge, got, cut, gaveUp>>
      /\ chan[c].end = "open"
  BY DEF AppWrites, SessionTypeOK
<1>3. /\ \A ch \in Channels : chan'[ch].end = chan[ch].end
      /\ \A ch \in Channels \ {c} : chan'[ch].data = chan[ch].data
      /\ chan'[c].data = Append(chan[c].data, wrote[t] + 1)
  <2> HIDE DEF c
  <2> QED BY <1>1, <1>2 DEF ChannelStates
<1>4. wrote'[t] = wrote[t] + 1 /\ \A u \in Sides \ {t} : wrote'[u] = wrote[u]
  BY <1>2 DEF SessionTypeOK
<1>5. /\ Readable(Other(s)) \in Channels \ {c}
      /\ Stream(s) \in Channels \ {c}
      /\ s # t => Written(s) \in Channels \ {c}
  BY ChannelsDiffer, OtherSide
<1>6. UNCHANGED <<got[s], Arrived(s), CopiedIn(s), OnStream(s), CopiedOut(s)>>
  BY <1>2, <1>3, <1>5 DEF Arrived, CopiedIn, OnStream, CopiedOut
<1>7. CASE s = t
  BY <1>2, <1>3, <1>4, <1>6, <1>7 DEF Moves, WritesUnit, Waiting, Quiet
<1>8. CASE s # t
  BY <1>2, <1>3, <1>4, <1>5, <1>6, <1>8 DEF Keeps, Waiting, Quiet
<1> QED BY <1>7, <1>8

\* An app reads what the other wrote.
LEMMA AppReadsEffect ==
  ASSUME SessionTypeOK, NEW t \in Sides, AppReads(t), NEW s \in Sides
  PROVE  Quiet /\ (Moves(s) \/ Keeps(s))
<1> DEFINE c == Readable(t)
           o == Other(t)
<1>1. chan \in [Channels -> ChannelStates] /\ c \in Channels /\ o \in Sides
  BY ChannelsDiffer, OtherSide DEF SessionTypeOK
<1>2. /\ chan' = [chan EXCEPT ![c].data = Tail(@)]
      /\ got' = [got EXCEPT ![o] = Append(@, Head(chan[c].data))]
      /\ UNCHANGED <<buffer, bridge, wrote, cut, gaveUp>>
      /\ chan[c].data # <<>>
  BY DEF AppReads
<1>3. /\ \A ch \in Channels : chan'[ch].end = chan[ch].end
      /\ \A ch \in Channels \ {c} : chan'[ch].data = chan[ch].data
      /\ chan'[c].data = Tail(chan[c].data)
  <2> HIDE DEF c
  <2> QED BY <1>1, <1>2 DEF ChannelStates
<1>4. /\ got'[o] = Append(got[o], Head(chan[c].data))
      /\ \A u \in Sides \ {o} : got'[u] = got[u]
  <2> HIDE DEF c, o
  <2> QED BY <1>1, <1>2 DEF SessionTypeOK
<1>5. /\ Written(s) \in Channels \ {c}
      /\ Stream(s) \in Channels \ {c}
      /\ s # o => Readable(Other(s)) \in Channels \ {c}
      /\ s = o => Other(s) = t
  BY ChannelsDiffer, OtherSide
<1>6. UNCHANGED <<CopiedIn(s), OnStream(s), CopiedOut(s), Waiting(s), wrote[s]>>
  BY <1>2, <1>3, <1>5 DEF Waiting, CopiedIn, OnStream, CopiedOut
<1>7. CASE s = o
  BY <1>2, <1>3, <1>4, <1>5, <1>6, <1>7 DEF Moves, ReadsUnit, Arrived, Quiet
<1>8. CASE s # o
  BY <1>2, <1>3, <1>4, <1>5, <1>6, <1>8 DEF Keeps, Arrived, Quiet
<1> QED BY <1>7, <1>8

\* A copy passes a unit on, or holds it.
LEMMA CopyReadsEffect ==
  ASSUME SessionTypeOK, NEW t \in Sides, NEW d \in Directions,
         CopyReads(t, d), NEW s \in Sides
  PROVE  Quiet /\ (Moves(s) \/ Keeps(s))
<1> DEFINE c1 == Source(t, d)
           c2 == Target(t, d)
           x == Head(chan[c1].data)
<1>1. chan \in [Channels -> ChannelStates] /\ c1 \in Channels /\ c2 \in Channels /\ c1 # c2
  BY CopyEnds DEF SessionTypeOK
<1>2. /\ Copying(t, d) /\ buffer[t][d] = <<>> /\ chan[c1].data # <<>>
      /\ UNCHANGED <<bridge, wrote, got, cut, gaveUp>>
  BY DEF CopyReads
<1>3. \/ /\ chan' = [[chan EXCEPT ![c1].data = Tail(@)] EXCEPT ![c2].data = Append(@, x)]
         /\ buffer' = buffer
      \/ /\ chan' = [chan EXCEPT ![c1].data = Tail(@)]
         /\ buffer' = [buffer EXCEPT ![t][d] = <<x>>]
  BY DEF CopyReads
<1>4. /\ \A ch \in Channels : chan'[ch].end = chan[ch].end
      /\ \A ch \in Channels \ {c1, c2} : chan'[ch].data = chan[ch].data
      /\ chan'[c1].data = Tail(chan[c1].data)
      /\ \/ chan'[c2].data = Append(chan[c2].data, x) /\ buffer' = buffer
         \/ chan'[c2].data = chan[c2].data /\ buffer' = [buffer EXCEPT ![t][d] = <<x>>]
  <2> DEFINE f == [chan EXCEPT ![c1].data = Tail(@)]
             g == [f EXCEPT ![c2].data = Append(@, x)]
  <2>1. \/ chan' = g /\ buffer' = buffer
        \/ chan' = f /\ buffer' = [buffer EXCEPT ![t][d] = <<x>>]
    BY <1>3
  <2> HIDE DEF c1, c2, x
  <2>2. /\ DOMAIN f = Channels
        /\ \A ch \in Channels : f[ch].end = chan[ch].end
        /\ \A ch \in Channels : DOMAIN f[ch] = {"data", "end", "read"}
        /\ \A ch \in Channels \ {c1} : f[ch].data = chan[ch].data
        /\ f[c1].data = Tail(chan[c1].data)
    BY <1>1 DEF ChannelStates
  <2> HIDE DEF f
  <2>3. /\ \A ch \in Channels : g[ch].end = chan[ch].end
        /\ \A ch \in Channels \ {c1, c2} : g[ch].data = chan[ch].data
        /\ g[c1].data = Tail(chan[c1].data)
        /\ g[c2].data = Append(chan[c2].data, x)
    BY <1>1, <2>2
  <2> HIDE DEF g
  <2> QED BY <1>1, <2>1, <2>2, <2>3
<1>5. /\ Quiet
      /\ \A u \in Sides, e \in Directions :
           <<u, e>> # <<t, d>> => buffer'[u][e] = buffer[u][e]
      /\ \/ chan'[c2].data = Append(chan[c2].data, x) /\ buffer'[t][d] = buffer[t][d]
         \/ chan'[c2].data = chan[c2].data /\ buffer'[t][d] = <<x>>
  <2> HIDE DEF c1, c2, x
  <2> QED BY <1>2, <1>4 DEF SessionTypeOK, Quiet
<1>6. CASE d = "out" /\ s = t
  <2>1. c1 = Written(s) /\ c2 = Stream(s)
    BY <1>6 DEF Source, Target
  <2>2. Readable(Other(s)) \in Channels \ {c1, c2}
    BY <2>1, ChannelsDiffer, OtherSide
  <2>3. UNCHANGED <<got[s], Arrived(s), CopiedIn(s), wrote[s]>>
    BY <1>2, <1>4, <1>5, <1>6, <2>2, OtherSide DEF Arrived, CopiedIn, Directions
  <2>4. TakesOut(s)
    BY <1>2, <1>6 DEF Copying, TakesOut
  <2> QED BY <1>2, <1>4, <1>5, <1>6, <2>1, <2>3, <2>4
             DEF Moves, OutPasses, OutHolds, OnStream, Waiting, CopiedOut
<1>7. CASE d = "in" /\ s = Other(t)
  <2>1. c1 = Stream(s) /\ c2 = Readable(t) /\ t = Other(s)
    BY <1>7, OtherSide DEF Source, Target
  <2>2. Written(s) \in Channels \ {c1, c2}
    BY <2>1, ChannelsDiffer
  <2>3. UNCHANGED <<got[s], Waiting(s), CopiedOut(s), wrote[s]>>
    BY <1>2, <1>4, <1>5, <1>7, <2>2 DEF Waiting, CopiedOut, Directions
  <2>4. TakesIn(Other(s))
    BY <1>2, <1>7, <2>1 DEF Copying, TakesIn
  <2> QED BY <1>2, <1>4, <1>5, <1>7, <2>1, <2>3, <2>4
             DEF Moves, InPasses, InHolds, OnStream, Arrived, CopiedIn
<1>8. CASE (d = "out" /\ s # t) \/ (d = "in" /\ s # Other(t))
  <2>1. /\ Written(s) \in Channels \ {c1, c2}
        /\ Stream(s) \in Channels \ {c1, c2}
        /\ Readable(Other(s)) \in Channels \ {c1, c2}
    BY <1>8, ChannelsDiffer, OtherSide DEF Source, Target
  <2>2. buffer'[s]["out"] = buffer[s]["out"]
    BY <1>5, <1>8 DEF Directions
  <2>3. buffer'[Other(s)]["in"] = buffer[Other(s)]["in"]
    BY <1>5, <1>8, OtherSide DEF Directions
  <2> QED BY <1>2, <1>4, <1>5, <2>1, <2>2, <2>3
             DEF Keeps, Arrived, CopiedIn, OnStream, CopiedOut, Waiting
<1>9. Quiet /\ (d = "out" \/ d = "in")
  BY <1>5 DEF Directions
<1> QED BY <1>6, <1>7, <1>8, <1>9

\* A copy writes what it held.
LEMMA CopyWritesEffect ==
  ASSUME SessionTypeOK, NEW t \in Sides, NEW d \in Directions,
         CopyWrites(t, d), NEW s \in Sides
  PROVE  Quiet /\ (Moves(s) \/ Keeps(s))
<1> DEFINE c == Target(t, d)
<1>1. chan \in [Channels -> ChannelStates] /\ c \in Channels
  BY CopyEnds DEF SessionTypeOK
<1>2. /\ Copying(t, d)
      /\ chan' = [chan EXCEPT ![c].data = @ \o buffer[t][d]]
      /\ buffer' = [buffer EXCEPT ![t][d] = <<>>]
      /\ UNCHANGED <<bridge, wrote, got, cut, gaveUp>>
  BY DEF CopyWrites
<1>3. /\ \A ch \in Channels : chan'[ch].end = chan[ch].end
      /\ \A ch \in Channels \ {c} : chan'[ch].data = chan[ch].data
      /\ chan'[c].data = chan[c].data \o buffer[t][d]
  <2> HIDE DEF c
  <2> QED BY <1>1, <1>2 DEF ChannelStates
<1>4. /\ Quiet
      /\ \A u \in Sides, e \in Directions :
           <<u, e>> # <<t, d>> => buffer'[u][e] = buffer[u][e]
      /\ buffer'[t][d] = <<>>
  BY <1>2, <1>3 DEF SessionTypeOK, Quiet
<1>5. CASE d = "out" /\ s = t
  <2>1. c = Stream(s)
    BY <1>5 DEF Target
  <2>2. /\ Readable(Other(s)) \in Channels \ {c}
        /\ Written(s) \in Channels \ {c}
    BY <2>1, ChannelsDiffer, OtherSide
  <2>3. UNCHANGED <<got[s], Arrived(s), CopiedIn(s), Waiting(s), wrote[s]>>
    BY <1>2, <1>3, <1>4, <1>5, <2>2, OtherSide DEF Arrived, CopiedIn, Waiting, Directions
  <2>4. TakesOut(s)
    BY <1>2, <1>5 DEF Copying, TakesOut
  <2> QED BY <1>3, <1>4, <1>5, <2>1, <2>3, <2>4 DEF Moves, OutWrites, OnStream, CopiedOut
<1>6. CASE d = "in" /\ s = Other(t)
  <2>1. c = Readable(t) /\ t = Other(s)
    BY <1>6, OtherSide DEF Target
  <2>2. Written(s) \in Channels \ {c} /\ Stream(s) \in Channels \ {c}
    BY <2>1, ChannelsDiffer, OtherSide
  <2>3. UNCHANGED <<got[s], OnStream(s), Waiting(s), CopiedOut(s), wrote[s]>>
    BY <1>2, <1>3, <1>4, <1>6, <2>2 DEF OnStream, Waiting, CopiedOut, Directions
  <2>4. TakesIn(Other(s))
    BY <1>2, <1>6, <2>1 DEF Copying, TakesIn
  <2> QED BY <1>3, <1>4, <1>6, <2>1, <2>3, <2>4 DEF Moves, InWrites, Arrived, CopiedIn
<1>7. CASE (d = "out" /\ s # t) \/ (d = "in" /\ s # Other(t))
  <2>1. /\ Written(s) \in Channels \ {c}
        /\ Stream(s) \in Channels \ {c}
        /\ Readable(Other(s)) \in Channels \ {c}
    BY <1>7, ChannelsDiffer, OtherSide DEF Target
  <2>2. buffer'[s]["out"] = buffer[s]["out"]
    BY <1>4, <1>7 DEF Directions
  <2>3. buffer'[Other(s)]["in"] = buffer[Other(s)]["in"]
    BY <1>4, <1>7, OtherSide DEF Directions
  <2> QED BY <1>2, <1>3, <1>4, <2>1, <2>2, <2>3
             DEF Keeps, Arrived, CopiedIn, OnStream, CopiedOut, Waiting
<1>8. Quiet /\ (d = "out" \/ d = "in")
  BY <1>4 DEF Directions
<1> QED BY <1>5, <1>6, <1>7, <1>8

-----------------------------------------------------------------------------
(* The invariant *)

\* Where the data of an app stay where they are and no bridge goes on, what may have
\* changed is how channels end: of a stream not for the better, and what an app has
\* ended stays so.
LEMMA EndsKeep ==
  ASSUME SessionInv, NEW s \in Sides, Keeps(s), UNCHANGED <<cut, gaveUp>>,
         \A u \in Sides : /\ TakesIn(u)' <=> TakesIn(u)
                          /\ TakesOut(u)' <=> TakesOut(u)
                          /\ bridge[u] = "over" => bridge'[u] = "over",
         chan[Written(s)].end # "open" => chan'[Written(s)].end # "open",
         chan'[Stream(s)].end = "finished" => chan[Stream(s)].end = "finished",
         chan'[Readable(s)].end # "open" => chan[Readable(s)].end # "open"
  PROVE  InOrder(s)' /\ Accounted(s)' /\ EndedByBridge(s)'
<1>1. InOrder(s) /\ Accounted(s) /\ EndedByBridge(s)
  BY DEF SessionInv
<1>2. Other(s) \in Sides
  BY OtherSide
<1>3. /\ Received(s)' = Received(s) /\ Streamed(s)' = Streamed(s)
      /\ GotLen(s)' = GotLen(s) /\ CopiedInLen(s)' = CopiedInLen(s)
      /\ CopiedOutLen(s)' = CopiedOutLen(s) /\ WaitingLen(s)' = WaitingLen(s)
  BY DEF Keeps, Streamed, Received, GotLen, ArrivedLen, CopiedInLen, OnStreamLen,
         CopiedOutLen, WaitingLen
<1>4. InOrder(s)'
  BY <1>1, <1>2, <1>3 DEF Keeps, InOrder
<1>5. Accounted(s)'
  BY <1>1, <1>2, <1>3 DEF Keeps, Accounted
<1>6. EndedByBridge(s)'
  BY <1>1, <1>2 DEF EndedByBridge
<1> QED BY <1>4, <1>5, <1>6

\* Steps of the apps, the connection and the copies, and the host that connects.
LEMMA QuietSteps ==
  ASSUME SessionInv, NEW s \in Sides,
         \/ \E t \in Sides :
              AppWrites(t) \/ AppReads(t) \/ AppEnds(t)
         \/ ConnectionLost \/ HostConnects
         \/ \E t \in Sides, d \in Directions :
              CopyReads(t, d) \/ CopyWrites(t, d)
         \/ UNCHANGED sessionVars
  PROVE  InOrder(s)' /\ Accounted(s)' /\ EndedByBridge(s)'
<1>1. SessionTypeOK /\ chan \in [Channels -> ChannelStates]
  BY DEF SessionInv, SessionTypeOK
<1>2. CASE \/ \E t \in Sides : AppWrites(t) \/ AppReads(t)
           \/ \E t \in Sides, d \in Directions :
                CopyReads(t, d) \/ CopyWrites(t, d)
  <2>1. Quiet /\ (Moves(s) \/ Keeps(s))
    BY <1>1, <1>2, AppWritesEffect, AppReadsEffect, CopyReadsEffect, CopyWritesEffect
  <2> QED BY <2>1, MovesInOrder, MovesAccounted DEF Quiet
<1>3. ASSUME NEW t \in Sides, AppEnds(t)
      PROVE  InOrder(s)' /\ Accounted(s)' /\ EndedByBridge(s)'
  <2> DEFINE c1 == Written(t)
             c2 == Readable(t)
  <2>1. c1 \in Channels /\ c2 \in Channels /\ c1 # c2
    BY ChannelsDiffer
  <2>2. PICK how \in {"finished", "broken"}, stays \in BOOLEAN :
          chan' = [chan EXCEPT ![c1].end = how, ![c2].read = stays]
    BY <1>3 DEF AppEnds
  <2>3. /\ \A ch \in Channels : chan'[ch].data = chan[ch].data
        /\ \A ch \in Channels \ {c1} : chan'[ch].end = chan[ch].end
        /\ chan'[c1].end # "open"
    <3> HIDE DEF c1, c2
    <3> QED BY <1>1, <2>1, <2>2 DEF ChannelStates
  <2>4. UNCHANGED <<buffer, bridge, wrote, got, cut, gaveUp>>
    BY <1>3 DEF AppEnds
  <2>5. Keeps(s)
    BY <2>3, <2>4, DataKept
  <2>6. /\ chan[Written(s)].end # "open" => chan'[Written(s)].end # "open"
        /\ chan'[Stream(s)].end = chan[Stream(s)].end
        /\ chan'[Readable(s)].end = chan[Readable(s)].end
    BY <2>3, ChannelsDiffer
  <2> QED BY <2>4, <2>5, <2>6, EndsKeep DEF TakesIn, TakesOut
<1>4. CASE ConnectionLost
  <2>1. UNCHANGED <<buffer, bridge, wrote, got, cut, gaveUp>>
    BY <1>4 DEF ConnectionLost
  <2>2. /\ \A ch \in Channels : chan'[ch].data = chan[ch].data
        /\ \A ch \in Channels : chan'[ch].end = IF ch[1] = "stream" THEN "broken" ELSE chan[ch].end
    BY <1>1, <1>4 DEF ConnectionLost, ChannelStates
  <2>3. Keeps(s)
    BY <2>1, <2>2, DataKept
  <2>4. /\ chan'[Written(s)].end = chan[Written(s)].end
        /\ chan'[Stream(s)].end = "broken"
        /\ chan'[Readable(s)].end = chan[Readable(s)].end
    BY <2>2, ChannelsDiffer DEF Written, Stream, Readable
  <2> QED BY <2>1, <2>3, <2>4, EndsKeep DEF TakesIn, TakesOut
<1>5. CASE HostConnects
  <2>1. UNCHANGED <<chan, buffer, wrote, got, cut, gaveUp>>
    BY <1>5 DEF HostConnects
  <2>2. Keeps(s)
    BY <2>1 DEF Keeps, Arrived, CopiedIn, OnStream, CopiedOut, Waiting
  <2>3. \A u \in Sides : /\ TakesIn(u)' <=> TakesIn(u)
                         /\ TakesOut(u)' <=> TakesOut(u)
                         /\ bridge[u] = "over" => bridge'[u] = "over"
    BY <1>1, <1>5 DEF HostConnects, SessionTypeOK, Sides, TakesIn, TakesOut
  <2> QED BY <2>1, <2>2, <2>3, EndsKeep
<1>6. CASE UNCHANGED sessionVars
  <2>1. UNCHANGED <<chan, buffer, bridge, wrote, got, cut, gaveUp>>
    BY <1>6 DEF sessionVars
  <2>2. Keeps(s)
    BY <2>1 DEF Keeps, Arrived, CopiedIn, OnStream, CopiedOut, Waiting
  <2> QED BY <2>1, <2>2, EndsKeep DEF TakesIn, TakesOut
<1> QED BY <1>2, <1>3, <1>4, <1>5, <1>6

\* What a step may do to the data of s on the way when a bridge carries less: drop what
\* a copy holds only if the bridge is done with that direction or the loss is recorded.
Drops(s) ==
  /\ UNCHANGED <<got[s], Arrived(s), OnStream(s), Waiting(s), wrote[s]>>
  /\ cut \subseteq cut' /\ gaveUp \subseteq gaveUp'
  /\ TakesIn(Other(s))' => TakesIn(Other(s))
  /\ TakesOut(s)' => TakesOut(s)
  /\ s \notin cut' /\ TakesIn(Other(s))' => CopiedIn(s)' = CopiedIn(s)
  /\ s \notin cut' /\ TakesOut(s)' => CopiedOut(s)' = CopiedOut(s)

\* When a bridge is done with the data of s for good, what it read from has ended and
\* it has written all of it, unless it gave up.
Finishes(s) ==
  s \notin cut' \cup gaveUp' =>
    /\ TakesIn(Other(s)) /\ ~TakesIn(Other(s))' =>
         /\ CopiedIn(s) = <<>> /\ OnStream(s) = <<>>
         /\ chan[Stream(s)].end = "finished"
    /\ TakesOut(s) /\ ~TakesOut(s)' =>
         /\ CopiedOut(s) = <<>> /\ Waiting(s) = <<>>
         /\ chan[Written(s)].end = "finished"

\* Channels end with the bridge that writes them.
EndsWithBridge(s) ==
  /\ chan'[Written(s)].end = chan[Written(s)].end
  /\ chan'[Stream(s)].end = "finished" =>
       chan[Stream(s)].end = "finished" \/ ~TakesOut(s)'
  /\ chan'[Readable(s)].end # "open" =>
       chan[Readable(s)].end # "open" \/ bridge'[s] = "over"
  /\ bridge[s] = "over" => bridge'[s] = "over"

\* A bridge that carries less leaves the invariant.
LEMMA BridgeStops ==
  ASSUME SessionInv, NEW s \in Sides, Drops(s), Finishes(s), EndsWithBridge(s)
  PROVE  InOrder(s)' /\ Accounted(s)' /\ EndedByBridge(s)'
<1>1. InOrder(s) /\ Accounted(s) /\ EndedByBridge(s) /\ SessionTypeOK
  BY DEF SessionInv
<1>2. /\ GotLen(s) \in Nat /\ ArrivedLen(s) \in Nat /\ CopiedInLen(s) \in Nat
      /\ OnStreamLen(s) \in Nat /\ CopiedOutLen(s) \in Nat /\ WaitingLen(s) \in Nat
  BY <1>1, DataTyped
<1>3. /\ GotLen(s)' = GotLen(s) /\ ArrivedLen(s)' = ArrivedLen(s)
      /\ OnStreamLen(s)' = OnStreamLen(s) /\ WaitingLen(s)' = WaitingLen(s)
      /\ Received(s)' = Received(s)
  BY DEF Drops, GotLen, ArrivedLen, OnStreamLen, WaitingLen, Received
<1>4. s \notin cut' /\ TakesIn(Other(s))' =>
        CopiedInLen(s)' = CopiedInLen(s) /\ Streamed(s)' = Streamed(s)
  BY <1>3 DEF Drops, CopiedInLen, Streamed
<1>5. s \notin cut' /\ TakesOut(s)' => CopiedOutLen(s)' = CopiedOutLen(s)
  BY DEF Drops, CopiedOutLen
<1>6. InOrder(s)'
  <2> SUFFICES ASSUME s \notin cut'
               PROVE  InOrder(s)'
    BY DEF InOrder
  <2>1. s \notin cut /\ Run(got'[s], 0) /\ Run(Arrived(s)', GotLen(s)')
    BY <1>1, <1>3 DEF Drops, InOrder
  <2>2. TakesIn(Other(s))' =>
          /\ Run(CopiedIn(s)', Received(s)')
          /\ Run(OnStream(s)', Received(s)' + CopiedInLen(s)')
    BY <1>1, <1>3, <1>4, <2>1 DEF Drops, InOrder
  <2>3. TakesIn(Other(s))' /\ TakesOut(s)' =>
          /\ Run(CopiedOut(s)', Streamed(s)')
          /\ Run(Waiting(s)', Streamed(s)' + CopiedOutLen(s)')
          /\ Streamed(s)' + CopiedOutLen(s)' + WaitingLen(s)' = wrote'[s]
    BY <1>1, <1>3, <1>4, <1>5, <2>1 DEF Drops, InOrder
  <2> QED BY <2>1, <2>2, <2>3 DEF InOrder
<1>7. Accounted(s)'
  <2> SUFFICES ASSUME s \notin cut' \cup gaveUp'
               PROVE  Accounted(s)'
    BY DEF Accounted
  <2>1. s \notin cut \cup gaveUp /\ wrote'[s] = wrote[s]
    BY DEF Drops
  <2>2. TakesOut(s) /\ ~TakesOut(s)' /\ TakesIn(Other(s)) => Streamed(s) = wrote[s]
    <3> SUFFICES ASSUME TakesOut(s), ~TakesOut(s)', TakesIn(Other(s))
                 PROVE  Streamed(s) = wrote[s]
      OBVIOUS
    <3>1. CopiedOutLen(s) = 0 /\ WaitingLen(s) = 0
      BY EmptySeq DEF Finishes, CopiedOutLen, WaitingLen
    <3>2. Streamed(s) + CopiedOutLen(s) + WaitingLen(s) = wrote[s]
      BY <1>1, <2>1 DEF InOrder
    <3>3. Received(s) \in Nat
      BY <1>2 DEF Received
    <3>4. Streamed(s) \in Nat
      BY <1>2, <3>3 DEF Streamed
    <3> QED BY <3>1, <3>2, <3>4
  <2>3. TakesIn(Other(s)) /\ ~TakesIn(Other(s))' =>
          ~TakesOut(s) /\ Received(s) = wrote[s]
    <3> SUFFICES ASSUME TakesIn(Other(s)), ~TakesIn(Other(s))'
                 PROVE  ~TakesOut(s) /\ Received(s) = wrote[s]
      OBVIOUS
    <3>1. CopiedInLen(s) = 0 /\ OnStreamLen(s) = 0
      BY EmptySeq DEF Finishes, CopiedInLen, OnStreamLen
    <3>2. ~TakesOut(s)
      BY <1>1 DEF Finishes, EndedByBridge
    <3>3. Streamed(s) = wrote[s]
      BY <1>1, <2>1, <3>2 DEF Accounted
    <3>4. Received(s) \in Nat
      BY <1>2 DEF Received
    <3> QED BY <3>1, <3>2, <3>3, <3>4 DEF Streamed
  <2>4. ~TakesOut(s)' /\ TakesIn(Other(s))' => Streamed(s)' = wrote'[s]
    BY <1>1, <1>4, <2>1, <2>2 DEF Accounted, Drops
  <2>5. ~TakesIn(Other(s))' => Received(s)' = wrote'[s]
    BY <1>1, <1>3, <2>1, <2>3 DEF Accounted
  <2>6. ~TakesOut(s)' \/ ~TakesIn(Other(s))' => chan'[Written(s)].end # "open"
    BY <1>1, <2>1, <2>3 DEF Accounted, Finishes, EndsWithBridge
  <2> QED BY <2>4, <2>5, <2>6 DEF Accounted
<1>8. EndedByBridge(s)'
  BY <1>1 DEF EndedByBridge, EndsWithBridge, Drops
<1> QED BY <1>6, <1>7, <1>8

\* A bridge that returns has written all it read, or gave up what it carried.
LEMMA ReturnSteps ==
  ASSUME SessionInv, NEW s \in Sides,
         NEW t \in Sides, Return(t), UNCHANGED <<wrote, got, cut>>,
         gaveUp \subseteq gaveUp',
         \A u \in Sides \ gaveUp' :
           /\ u = Other(t) /\ TakesIn(t) =>
                /\ CopiedIn(u) = <<>> /\ OnStream(u) = <<>>
                /\ chan[Stream(u)].end = "finished"
           /\ u = t /\ TakesOut(t) =>
                /\ CopiedOut(u) = <<>> /\ Waiting(u) = <<>>
                /\ chan[Written(u)].end = "finished"
  PROVE  InOrder(s)' /\ Accounted(s)' /\ EndedByBridge(s)'
<1>1. SessionTypeOK
  BY DEF SessionInv
<1>2. /\ \A ch \in Channels : chan'[ch].data = chan[ch].data
      /\ bridge' = [bridge EXCEPT ![t] = "over"]
      /\ buffer' = [buffer EXCEPT ![t] = [d \in Directions |-> <<>>]]
  BY <1>1, ReturnEffect
<1>3. /\ bridge'[t] = "over" /\ \A u \in Sides \ {t} : bridge'[u] = bridge[u]
      /\ \A u \in Sides \ {t} : buffer'[u] = buffer[u]
  BY <1>1, <1>2 DEF SessionTypeOK
<1>4. /\ ~TakesIn(t)' /\ ~TakesOut(t)'
      /\ \A u \in Sides \ {t} : /\ TakesIn(u)' <=> TakesIn(u)
                                /\ TakesOut(u)' <=> TakesOut(u)
  BY <1>3 DEF TakesIn, TakesOut
<1>5. Other(s) \in Sides /\ (Other(s) = t <=> s = Other(t))
  BY OtherSide
<1>6. Drops(s)
  <2>1. UNCHANGED <<got[s], Arrived(s), OnStream(s), Waiting(s), wrote[s]>>
    BY <1>2, <1>5, ChannelsDiffer DEF Arrived, OnStream, Waiting
  <2>2. TakesIn(Other(s))' => CopiedIn(s)' = CopiedIn(s)
    BY <1>3, <1>4, <1>5 DEF CopiedIn
  <2>3. TakesOut(s)' => CopiedOut(s)' = CopiedOut(s)
    BY <1>3, <1>4 DEF CopiedOut
  <2> QED BY <1>4, <1>5, <2>1, <2>2, <2>3 DEF Drops
<1>7. Finishes(s)
  BY <1>4, <1>5 DEF Finishes
<1>8. EndsWithBridge(s)
  BY <1>1, <1>3, <1>4, ReturnEffect DEF EndsWithBridge
<1> QED BY <1>6, <1>7, <1>8, BridgeStops

\* When the first direction ends, the copy of the other goes, and what it held is
\* recorded as lost.
LEMMA FirstEndsStep ==
  ASSUME SessionInv, NEW s \in Sides,
         NEW t \in Sides, NEW d \in Directions, FirstEnds(t, d)
  PROVE  InOrder(s)' /\ Accounted(s)' /\ EndedByBridge(s)'
<1> DEFINE o == Other(t)
           e == Opposite(d)
<1>1. SessionTypeOK /\ chan \in [Channels -> ChannelStates]
  BY DEF SessionInv, SessionTypeOK
<1>2. /\ o \in Sides /\ o # t /\ Other(o) = t /\ (s = t \/ s = o)
      /\ e \in Directions /\ e # d /\ (d = "out" \/ d = "in")
  BY OtherSide DEF Opposite, Directions
<1>3. /\ \A ch \in Channels : chan'[ch].data = chan[ch].data
      /\ \A ch \in Channels :
           chan'[ch].end # chan[ch].end => d = "out" /\ ch = Stream(t)
  <2> DEFINE c == Stream(t)
             x == EndOf(c, "finished")
             f == [chan EXCEPT ![c].end = x]
  <2>1. c \in Channels
    BY ChannelsDiffer
  <2>2. (d = "out" /\ chan' = f) \/ chan' = chan
    BY DEF FirstEnds
  <2>3. \A ch \in Channels : f[ch].data = chan[ch].data /\ (ch # c => f[ch] = chan[ch])
    <3> HIDE DEF c, x
    <3> QED BY <1>1, <2>1 DEF ChannelStates
  <2> HIDE DEF f
  <2> QED BY <2>2, <2>3
<1>4. /\ bridge[t] = "both"
      /\ bridge'[t] = IF d = "out" THEN "drainIn" ELSE "drainOut"
      /\ bridge'[o] = bridge[o]
      /\ UNCHANGED <<wrote, got, gaveUp>>
  BY <1>1, <1>2 DEF FirstEnds, SessionTypeOK
<1>5. /\ TakesIn(t) /\ TakesOut(t)
      /\ d = "out" => TakesIn(t)' /\ ~TakesOut(t)'
      /\ d = "in" => ~TakesIn(t)' /\ TakesOut(t)'
      /\ TakesIn(o)' <=> TakesIn(o)
      /\ TakesOut(o)' <=> TakesOut(o)
  BY <1>4 DEF TakesIn, TakesOut
<1>6. /\ buffer'[o] = buffer[o] /\ buffer'[t][d] = buffer[t][d] /\ buffer'[t][e] = <<>>
      /\ buffer[t][d] = <<>>
      /\ cut \subseteq cut'
      /\ buffer[t][e] # <<>> => Origin(t, e) \in cut'
  BY <1>1, <1>2 DEF FirstEnds, Copied, SessionTypeOK
<1>7. /\ chan[Source(t, d)].data = <<>>
      /\ chan[Source(t, d)].end = "finished"
  BY DEF FirstEnds, Copied
<1>8. UNCHANGED <<got[s], Arrived(s), OnStream(s), Waiting(s), wrote[s]>>
  BY <1>3, <1>4, ChannelsDiffer, OtherSide DEF Arrived, OnStream, Waiting
<1>9. /\ d = "out" => e = "in" /\ Origin(t, e) = o
      /\ d = "in" => e = "out" /\ Origin(t, e) = t
  BY DEF Opposite, Origin
<1> HIDE DEF o, e
<1>10. CASE s = t
  <2>1. Other(s) = o
    BY <1>10 DEF o
  <2>2. CopiedIn(s)' = CopiedIn(s)
    BY <1>6, <2>1 DEF CopiedIn
  <2>3. s \notin cut' /\ TakesOut(s)' => CopiedOut(s)' = CopiedOut(s)
    BY <1>2, <1>5, <1>6, <1>9, <1>10 DEF CopiedOut
  <2>4. Drops(s)
    BY <1>4, <1>5, <1>6, <1>8, <1>10, <2>1, <2>2, <2>3 DEF Drops
  <2>5. d = "out" => Source(t, d) = Written(s)
    BY <1>10 DEF Source
  <2>6. Finishes(s)
    BY <1>2, <1>5, <1>6, <1>7, <1>10, <2>1, <2>5 DEF Finishes, CopiedOut, Waiting
  <2>7. EndsWithBridge(s)
    BY <1>2, <1>3, <1>4, <1>5, <1>10, ChannelsDiffer DEF EndsWithBridge
  <2> QED BY <2>4, <2>6, <2>7, BridgeStops
<1>11. CASE s = o
  <2>1. Other(s) = t
    BY <1>2, <1>11
  <2>2. s \notin cut' /\ TakesIn(t)' => CopiedIn(s)' = CopiedIn(s)
    BY <1>2, <1>5, <1>6, <1>9, <1>11, <2>1 DEF CopiedIn
  <2>3. CopiedOut(s)' = CopiedOut(s)
    BY <1>6, <1>11 DEF CopiedOut
  <2>4. Drops(s)
    BY <1>4, <1>5, <1>6, <1>8, <1>11, <2>1, <2>2, <2>3 DEF Drops
  <2>5. d = "in" => Source(t, d) = Stream(s)
    BY <1>11 DEF Source, o
  <2>6. Finishes(s)
    BY <1>2, <1>5, <1>6, <1>7, <1>11, <2>1, <2>5 DEF Finishes, CopiedIn, OnStream
  <2>7. EndsWithBridge(s)
    BY <1>2, <1>3, <1>4, <1>5, <1>11, ChannelsDiffer DEF EndsWithBridge
  <2> QED BY <2>4, <2>6, <2>7, BridgeStops
<1> QED BY <1>2, <1>10, <1>11

\* Every step of a session keeps the invariant.
LEMMA SessionStep ==
  ASSUME SessionInv, [SessionNext]_sessionVars
  PROVE  SessionInv'
<1>1. SessionTypeOK
  BY DEF SessionInv
<1> SUFFICES ASSUME NEW s \in Sides
             PROVE  InOrder(s)' /\ Accounted(s)' /\ EndedByBridge(s)'
  BY <1>1, SessionTyped DEF SessionInv
<1>2. CASE HostFails
  BY <1>2, ReturnSteps DEF HostFails, Sides, SessionInv, SessionTypeOK
<1>3. ASSUME NEW t \in Sides, NEW d \in Directions, CopyFails(t, d)
      PROVE  InOrder(s)' /\ Accounted(s)' /\ EndedByBridge(s)'
  BY <1>1, <1>3, ReturnSteps DEF CopyFails, SessionTypeOK
<1>4. ASSUME NEW t \in Sides, NEW d \in Directions, bridge[t] # "both",
             Copying(t, d), \/ DrainTimesOut(t, d) \/ DrainEnds(t, d)
      PROVE  InOrder(s)' /\ Accounted(s)' /\ EndedByBridge(s)'
  <2>1. /\ Return(t) /\ UNCHANGED <<wrote, got, cut>> /\ gaveUp \subseteq gaveUp'
        /\ Origin(t, d) \in gaveUp' \/ Copied(t, d)
    BY <1>4 DEF DrainTimesOut, DrainEnds
  <2>2. /\ d = "out" => TakesOut(t) /\ ~TakesIn(t) /\ Origin(t, d) = t
        /\ d = "in" => TakesIn(t) /\ ~TakesOut(t) /\ Origin(t, d) = Other(t)
        /\ d = "out" \/ d = "in"
    BY <1>4 DEF Copying, TakesIn, TakesOut, Origin, Directions
  <2>3. Copied(t, d) =>
          /\ d = "out" => /\ CopiedOut(t) = <<>> /\ Waiting(t) = <<>>
                          /\ chan[Written(t)].end = "finished"
          /\ d = "in" => LET u == Other(t) IN
                           /\ CopiedIn(u) = <<>> /\ OnStream(u) = <<>>
                           /\ chan[Stream(u)].end = "finished"
    BY OtherSide DEF Copied, Source, CopiedOut, Waiting, CopiedIn, OnStream
  <2> QED BY <2>1, <2>2, <2>3, ReturnSteps
<1> QED BY <1>2, <1>3, <1>4, QuietSteps, FirstEndsStep
        DEF SessionNext, BridgeNext, DrainEnds, DrainTimesOut

\* The invariant explains what was lost.
LEMMA SessionInvExplains ==
  ASSUME SessionInv
  PROVE  LossesExplained
<1> SUFFICES ASSUME NEW s \in Sides
             PROVE  /\ s \notin cut => \A n \in DOMAIN got[s] : got[s][n] = n
                    /\ s \notin cut \cup gaveUp /\ ReadToEnd(Other(s)) =>
                         Len(got[s]) = wrote[s]
  BY DEF LossesExplained
<1>1. /\ InOrder(s) /\ Accounted(s) /\ SessionTypeOK
      /\ Other(s) \in Sides
  BY OtherSide DEF SessionInv
<1>2. EndedByBridge(Other(s))
  BY <1>1 DEF SessionInv
<1>3. s \notin cut => \A n \in DOMAIN got[s] : got[s][n] = n
  <2>1. got[s] \in Seq(Nat)
    BY <1>1 DEF SessionTypeOK
  <2>2. DOMAIN got[s] = 1 .. Len(got[s])
    BY <2>1, LenProperties
  <2> QED BY <1>1, <2>1, <2>2 DEF InOrder, Run
<1>4. ASSUME s \notin cut \cup gaveUp, ReadToEnd(Other(s))
      PROVE  Len(got[s]) = wrote[s]
  <2>1. ~TakesIn(Other(s))
    BY <1>2, <1>4 DEF EndedByBridge, ReadToEnd, TakesIn
  <2>2. Received(s) = wrote[s]
    BY <1>1, <1>4, <2>1 DEF Accounted
  <2>3. ArrivedLen(s) = 0 /\ GotLen(s) \in Nat
    BY <1>1, <1>4, DataTyped, EmptySeq DEF ReadToEnd, Arrived, ArrivedLen
  <2> QED BY <2>2, <2>3 DEF Received, GotLen
<1> QED BY <1>3, <1>4

\* The invariant of a session holds throughout.
LEMMA SessionInvariance == SessionSpec => []SessionInv
<1>1. SessionInv /\ [SessionNext]_sessionVars => SessionInv'
  BY SessionStep
<1>2. SessionInit => SessionInv
  BY InitialSession
<1> QED BY <1>1, <1>2, PTL DEF SessionSpec

\* Session is type correct, for any capacity of the channels and however much is written.
THEOREM SessionTypeCorrect == SessionSpec => []SessionTypeOK
<1>1. SessionInv => SessionTypeOK
  BY DEF SessionInv
<1> QED BY <1>1, SessionInvariance, PTL

\* Between what an app has read and what the other has written, every unit is on the way
\* in its place: in a channel or in a copy, in order, as long as both bridges carry that
\* direction and no copy that held a unit of it was dropped (transport.rs).
THEOREM UnitsAreOnTheWay == SessionSpec => [](\A s \in Sides : InOrder(s))
<1>1. SessionInv => \A s \in Sides : InOrder(s)
  BY DEF SessionInv
<1> QED BY <1>1, SessionInvariance, PTL

\* Whatever the capacity of the channels and however much the apps write, what an app
\* reads is what the other wrote, in order and, before a clean end, all of it, unless a
\* bridge failed, its drain timed out or select! dropped a copy that held data.
THEOREM LossesAreExplained == SessionSpec => []LossesExplained
  BY SessionInvExplains, SessionInvariance, PTL

-----------------------------------------------------------------------------
(* A session that is to end does *)

\* A bridge that is over has ended its stream, and only a host's is waited for, whose
\* app is not there yet.
EndsInPlace ==
  /\ bridge["join"] # "waiting"
  /\ bridge["host"] = "waiting" => chan[Written("host")].end = "open"
  /\ \A s \in Sides : bridge[s] = "over" => chan[Stream(s)].end # "open"

\* A copy of a bridge that copies both ways has something to read, the end or an error
\* of its source to see, something to write, or an error to return.  One that waits for
\* its target does not look at its source.
CopyProceeds(s, d) ==
  /\ bridge[s] = "both"
  /\ \/ /\ buffer[s][d] = <<>>
        /\ \/ chan[Source(s, d)].data # <<>>
           \/ chan[Source(s, d)].end # "open"
     \/ /\ buffer[s][d] # <<>>
        /\ chan[Target(s, d)].read => HasRoom(Target(s, d))

\* A bridge that drains has its timeout.
Draining(s) == bridge[s] \in {"drainIn", "drainOut"}

\* The host has a stream to accept, or to see the end of.
HostProceeds ==
  /\ bridge["host"] = "waiting"
  /\ \/ chan[Stream("join")].data # <<>>
     \/ chan[Stream("join")].end # "open"

SessionProceeds ==
  \/ HostProceeds
  \/ \E s \in Sides : Draining(s) \/ \E d \in Directions : CopyProceeds(s, d)

\* An app has ended what it writes, and a bridge is left.
HalfOver ==
  /\ \E s \in Sides : chan[Written(s)].end # "open"
  /\ \E s \in Sides : bridge[s] # "over"

\* Streams end for good, and a bridge ends its own.
LEMMA EndsInPlaceStep ==
  ASSUME SessionTypeOK, EndsInPlace, [SessionNext]_sessionVars
  PROVE  EndsInPlace'
<1>1. /\ chan \in [Channels -> ChannelStates]
      /\ bridge \in [Sides -> {"waiting", "both", "drainIn", "drainOut", "over"}]
      /\ "join" \in Sides /\ "host" \in Sides
  BY DEF SessionTypeOK, Sides
<1>2. ASSUME UNCHANGED bridge,
             \A s \in Sides :
               /\ chan'[Written(s)].end # chan[Written(s)].end =>
                    bridge[s] # "waiting"
               /\ chan[Stream(s)].end # "open" => chan'[Stream(s)].end # "open"
      PROVE  EndsInPlace'
  BY <1>1, <1>2 DEF EndsInPlace
<1>3. CASE \/ \E t \in Sides : AppWrites(t) \/ AppReads(t)
           \/ \E t \in Sides, d \in Directions :
                CopyReads(t, d) \/ CopyWrites(t, d)
  <2>1. Quiet
    BY <1>1, <1>3, AppWritesEffect, AppReadsEffect, CopyReadsEffect, CopyWritesEffect
  <2> QED BY <1>2, <2>1, ChannelsDiffer DEF Quiet
<1>4. ASSUME NEW t \in Sides, AppEnds(t)
      PROVE  EndsInPlace'
  <2> DEFINE c1 == Written(t)
             c2 == Readable(t)
  <2>1. c1 \in Channels /\ c2 \in Channels
    BY ChannelsDiffer
  <2>2. PICK how \in {"finished", "broken"}, stays \in BOOLEAN :
          chan' = [chan EXCEPT ![c1].end = how, ![c2].read = stays]
    BY <1>4 DEF AppEnds
  <2>3. \A ch \in Channels \ {c1} : chan'[ch].end = chan[ch].end
    <3> HIDE DEF c1, c2
    <3> QED BY <1>1, <2>1, <2>2 DEF ChannelStates
  <2>4. UNCHANGED bridge /\ bridge[t] # "waiting"
    BY <1>4 DEF AppEnds, Connected
  <2> QED BY <1>2, <2>3, <2>4, ChannelsDiffer
<1>5. CASE ConnectionLost
  <2>1. UNCHANGED bridge
    BY <1>5 DEF ConnectionLost
  <2>2. \A ch \in Channels : chan'[ch].end = IF ch[1] = "stream" THEN "broken" ELSE chan[ch].end
    BY <1>1, <1>5 DEF ConnectionLost, ChannelStates
  <2>3. \A s \in Sides : /\ chan'[Written(s)].end = chan[Written(s)].end
                         /\ chan'[Stream(s)].end = "broken"
    BY <2>2, ChannelsDiffer DEF Written, Stream
  <2> QED BY <1>2, <2>1, <2>3
<1>6. CASE HostConnects
  BY <1>1, <1>6 DEF HostConnects, EndsInPlace
<1>7. ASSUME NEW t \in Sides, Return(t)
      PROVE  EndsInPlace'
  <2>1. /\ bridge' = [bridge EXCEPT ![t] = "over"]
        /\ \A u \in Sides :
             /\ chan'[Written(u)].end = chan[Written(u)].end
             /\ chan'[Stream(u)].end # chan[Stream(u)].end => u = t
        /\ chan'[Stream(t)].end # "open"
    BY <1>7, ReturnEffect
  <2> QED BY <1>1, <2>1 DEF EndsInPlace
<1>8. CASE HostFails
  BY <1>1, <1>7, <1>8 DEF HostFails
<1>9. ASSUME NEW t \in Sides, NEW d \in Directions,
             \/ DrainEnds(t, d) \/ DrainTimesOut(t, d) \/ CopyFails(t, d)
      PROVE  EndsInPlace'
  BY <1>7, <1>9 DEF DrainEnds, DrainTimesOut, CopyFails
<1>10. ASSUME NEW t \in Sides, NEW d \in Directions, FirstEnds(t, d)
       PROVE  EndsInPlace'
  <2> DEFINE c == Stream(t)
             e == EndOf(c, "finished")
  <2>1. c \in Channels
    BY ChannelsDiffer
  <2>2. e # "open"
    BY <1>1, <2>1 DEF ChannelStates, EndOf
  <2>3. chan' = [chan EXCEPT ![c].end = e] \/ chan' = chan
    BY <1>10 DEF FirstEnds
  <2>4. \A ch \in Channels :
          /\ ch # c => chan'[ch].end = chan[ch].end
          /\ chan[ch].end # "open" => chan'[ch].end # "open"
    <3> HIDE DEF c, e
    <3> QED BY <1>1, <2>1, <2>2, <2>3 DEF ChannelStates
  <2>5. \A s \in Sides :
          /\ chan'[Written(s)].end = chan[Written(s)].end
          /\ chan[Stream(s)].end # "open" => chan'[Stream(s)].end # "open"
    BY <2>4, ChannelsDiffer
  <2>6. /\ bridge[t] = "both"
        /\ \/ bridge' = [bridge EXCEPT ![t] = "drainIn"]
           \/ bridge' = [bridge EXCEPT ![t] = "drainOut"]
    BY <1>10 DEF FirstEnds
  <2> QED BY <1>1, <2>5, <2>6 DEF EndsInPlace
<1>11. CASE UNCHANGED sessionVars
  BY <1>11 DEF sessionVars, EndsInPlace
<1> QED BY <1>3, <1>4, <1>5, <1>6, <1>8, <1>9, <1>10, <1>11
        DEF SessionNext, BridgeNext

\* A copy that stands still before a source that has something in it, or has ended, has
\* a full channel before it, which is read.
LEMMA StillIsFull ==
  ASSUME NEW s \in Sides, NEW d \in Directions,
         bridge[s] = "both", ~CopyProceeds(s, d),
         \/ chan[Source(s, d)].data # <<>>
         \/ chan[Source(s, d)].end # "open"
  PROVE  /\ chan[Target(s, d)].read /\ ~HasRoom(Target(s, d))
         /\ chan[Target(s, d)].data # <<>>
<1>1. chan[Target(s, d)].read /\ ~HasRoom(Target(s, d))
  BY DEF CopyProceeds
<1>2. Len(<<>>) = 0
  BY EmptySeq
<1> QED BY <1>1, <1>2, UnitsAssumption DEF HasRoom

\* A session whose app has ended leads to something that can go on, or to an app that
\* has stopped reading.
LEMMA HalfOverProceeds ==
  ASSUME SessionTypeOK, EndsInPlace, HalfOver
  PROVE  SessionProceeds \/ \E s \in Sides : Stalled(s)
<1> SUFFICES ASSUME ~SessionProceeds, \A s \in Sides : ~Stalled(s)
             PROVE  FALSE
  OBVIOUS
<1>1. /\ ~HostProceeds
      /\ \A s \in Sides :
           ~Draining(s) /\ \A d \in Directions : ~CopyProceeds(s, d)
  BY DEF SessionProceeds
<1>2. \A s \in Sides : bridge[s] \in {"waiting", "both", "over"}
  BY <1>1 DEF SessionTypeOK, Draining
<1>3. "in" \in Directions /\ "out" \in Directions
  BY DEF Directions
\* The app of a bridge that copies has room for more or is gone, so nothing holds the
\* copy from the stream up.
<1>4. ASSUME NEW s \in Sides, bridge[s] = "both"
      PROVE  /\ chan[Stream(Other(s))].data = <<>>
             /\ chan[Stream(Other(s))].end = "open"
  <2>1. /\ Target(s, "in") = Readable(s)
        /\ Source(s, "in") = Stream(Other(s))
    BY DEF Target, Source
  <2> QED BY <1>1, <1>3, <1>4, <2>1, StillIsFull DEF Stalled
\* Nor the copy to the stream.
<1>5. ASSUME NEW s \in Sides, bridge[s] = "both",
             chan[Stream(s)].data = <<>>
      PROVE  chan[Written(s)].end = "open"
  <2>1. /\ Target(s, "out") = Stream(s)
        /\ Source(s, "out") = Written(s)
    BY DEF Target, Source
  <2> QED BY <1>1, <1>3, <1>5, <2>1, StillIsFull
<1>6. /\ "join" \in Sides /\ "host" \in Sides
      /\ Other("join") = "host" /\ Other("host") = "join"
      /\ \A s \in Sides : s = "join" \/ s = "host"
  BY DEF Sides, Other
<1>7. CASE bridge["host"] = "waiting"
  <2>1. chan[Stream("join")].data = <<>> /\ chan[Stream("join")].end = "open"
    BY <1>1, <1>7 DEF HostProceeds
  <2>2. bridge["join"] = "both"
    BY <1>2, <1>6, <2>1 DEF EndsInPlace
  <2>3. chan[Written("join")].end = "open"
    BY <1>5, <1>6, <2>1, <2>2
  <2> QED BY <1>6, <1>7, <2>3 DEF EndsInPlace, HalfOver
<1>8. CASE bridge["host"] # "waiting"
  <2>1. \A s \in Sides : bridge[s] \in {"both", "over"}
    BY <1>2, <1>6, <1>8 DEF EndsInPlace
  <2>2. \A s \in Sides : bridge[s] = "both"
    BY <1>4, <1>6, <2>1 DEF EndsInPlace, HalfOver
  <2>3. \A s \in Sides : chan[Stream(s)].data = <<>>
    BY <1>4, <1>6, <2>2
  <2> QED BY <1>5, <2>2, <2>3 DEF HalfOver
<1> QED BY <1>7, <1>8

\* Once either app has ended what it writes, and until both bridges are over, a copy, a
\* timeout of a drain or the accepting host has a step, however full the channels are,
\* unless a bridge that copies both ways holds data for an app that stays and has stopped
\* reading (transport.rs).  This is the safety part of BothBridgesEnd.
THEOREM SessionIsNeverStuck ==
  SessionSpec => [](HalfOver => SessionProceeds \/ \E s \in Sides : Stalled(s))
<1>1. SessionInit => EndsInPlace
  <2> SUFFICES ASSUME SessionInit PROVE EndsInPlace
    OBVIOUS
  <2>1. bridge["join"] = "both" /\ bridge["host"] = "waiting"
    BY DEF SessionInit
  <2>2. chan[Written("host")].end = "open"
    BY ChannelsDiffer DEF SessionInit, Sides, Channels
  <2> QED BY <2>1, <2>2 DEF EndsInPlace, Sides
<1>2. SessionTypeOK /\ EndsInPlace /\ [SessionNext]_sessionVars => EndsInPlace'
  BY EndsInPlaceStep
<1>3. SessionTypeOK /\ EndsInPlace =>
        (HalfOver => SessionProceeds \/ \E s \in Sides : Stalled(s))
  BY HalfOverProceeds
<1> QED BY <1>1, <1>2, <1>3, SessionTypeCorrect, PTL DEF SessionSpec

=============================================================================
