------------------------- MODULE HostSessionsProofs -------------------------
(***************************************************************************)
(* Proofs that HostSessions is type correct, respects the capacity of the  *)
(* host, pairs every session with a closer and every join with a leave or  *)
(* a session, and has a task for every session whose connection has ended, *)
(* for any players, connections and capacity.                              *)
(***************************************************************************)
EXTENDS HostSessions, FiniteSetTheorems, TLAPS

\* A connection has a closer just when its handler is done, and its join has been
\* announced only then; its leave has been announced only when its closer is done.
TasksInOrder ==
  \A c \in Conns :
    /\ closer[c] # "none" <=> handler[c] = "done"
    /\ c \in joined => handler[c] = "done"
    /\ c \in left => closer[c] = "done"

IInv ==
  /\ TypeOK
  /\ CapacityRespected
  /\ TasksInOrder
  /\ SessionsHaveClosers
  /\ OpenIsTracked
  /\ JoinsMatchLeaves

-----------------------------------------------------------------------------
(* The session index *)

\* The players are finitely many.
LEMMA PlayersFinite ==
  ASSUME NEW S \in SUBSET Peers
  PROVE  IsFiniteSet(S) /\ Cardinality(S) \in Nat
  BY ConnsAssumption, FS_Subset, FS_CardinalityType

\* Registering a player whom there is room for keeps within the capacity.
LEMMA UpsertFits ==
  ASSUME CapacityRespected, NEW p \in Peers, HasCapacityFor(p)
  PROVE  Cardinality(ActivePlayers \cup {p}) \in 0 .. MaxPlayers
<1>1. /\ IsFiniteSet(ActivePlayers) /\ Cardinality(ActivePlayers) \in Nat
      /\ Cardinality(ActivePlayers \cup {p}) \in Nat
  <2>1. ActivePlayers \in SUBSET Peers /\ ActivePlayers \cup {p} \in SUBSET Peers
    BY DEF ActivePlayers
  <2> QED BY <2>1, PlayersFinite
<1>2. CASE HasSession(p)
  <2>1. ActivePlayers \cup {p} = ActivePlayers
    BY <1>2 DEF ActivePlayers
  <2> QED BY <1>1, <2>1, MaxPlayersAssumption DEF CapacityRespected
<1>3. CASE ~HasSession(p)
  <2>1. Cardinality(ActivePlayers) < MaxPlayers
    BY <1>3 DEF HasCapacityFor
  <2>2. Cardinality(ActivePlayers \cup {p}) <= Cardinality(ActivePlayers) + 1
    BY <1>1, FS_AddElement
  <2> QED BY <1>1, <2>1, <2>2, MaxPlayersAssumption
<1> QED BY <1>2, <1>3

\* Any players among the active ones are within the capacity, too.
LEMMA FewerFit ==
  ASSUME CapacityRespected, NEW S \in SUBSET ActivePlayers
  PROVE  Cardinality(S) \in 0 .. MaxPlayers
<1>1. ActivePlayers \in SUBSET Peers
  BY DEF ActivePlayers
<1>2. IsFiniteSet(ActivePlayers) /\ Cardinality(ActivePlayers) \in Nat
  BY <1>1, PlayersFinite
<1>3. Cardinality(S) \in Nat /\ Cardinality(S) <= Cardinality(ActivePlayers)
  <2>1. S \in SUBSET Peers
    BY <1>1
  <2> QED BY <1>2, <2>1, PlayersFinite, FS_Subset
<1> QED BY <1>2, <1>3, MaxPlayersAssumption DEF CapacityRespected

\* What registering a connection does to the index and to its handler.
LEMMA Registration ==
  ASSUME TypeOK, CapacityRespected, NEW c \in Conns, Register(c) \/ AdmitAfterWait(c)
  PROVE  /\ HasCapacityFor(PeerOf[c]) /\ PeerOf[c] \in Peers
         /\ handler[c] \in {"authenticated", "waiting"}
         /\ handler' = [handler EXCEPT ![c] = "registered"]
         /\ sessions' \in [Peers -> Sessions]
         /\ \A q \in Peers \ {PeerOf[c]} : sessions'[q] = sessions[q]
         /\ sessions'[PeerOf[c]].gen # 0 /\ sessions'[PeerOf[c]].conn = c
         /\ local' \in [Conns -> Locals]
         /\ local'[c].gen = sessions'[PeerOf[c]].gen
         /\ local'[c].fresh = ~HasSession(PeerOf[c])
         /\ \A d \in Conns \ {c} : local'[d] = local[d]
         /\ UNCHANGED <<phase, tracked, alive, closer, count, joined, left>>
<1> DEFINE p == PeerOf[c]
<1>1. HasCapacityFor(p) /\ Upsert(c)
  BY DEF Register, AdmitAfterWait
<1>2. p \in Peers
  BY ConnsAssumption
<1>3. sessions[p].gen \in Nat /\ sessions[p].conn \in Conns \cup {NoConn}
  BY <1>2 DEF TypeOK, Sessions
<1>4. Cardinality(ActivePlayers \cup {p}) \in 0 .. MaxPlayers
  BY <1>1, <1>2, UpsertFits
<1>5. sessions' = [sessions EXCEPT ![p] = [gen |-> sessions[p].gen + 1, conn |-> c]]
  BY <1>1, <1>2 DEF Upsert, TypeOK
<1>6. sessions' \in [Peers -> Sessions] /\ sessions'[p].gen # 0 /\ sessions'[p].conn = c
      /\ sessions'[p].gen = sessions[p].gen + 1
      /\ \A q \in Peers \ {p} : sessions'[q] = sessions[q]
  BY <1>2, <1>3, <1>5 DEF TypeOK, Sessions
<1>7. local' = [local EXCEPT ![c] =
                  [gen |-> sessions[p].gen + 1, fresh |-> ~HasSession(p),
                   old |-> sessions[p].conn,
                   count |-> Cardinality(ActivePlayers \cup {p}), removed |-> FALSE]]
  BY <1>1 DEF Upsert
<1>8. (~HasSession(p)) \in BOOLEAN
  BY DEF HasSession
<1>9. /\ local' \in [Conns -> Locals] /\ local'[c].gen = sessions[p].gen + 1
      /\ local'[c].fresh = ~HasSession(p)
      /\ \A d \in Conns \ {c} : local'[d] = local[d]
  BY <1>3, <1>4, <1>7, <1>8 DEF TypeOK, Locals
<1>10. /\ handler[c] \in {"authenticated", "waiting"}
       /\ handler' = [handler EXCEPT ![c] = "registered"]
       /\ UNCHANGED <<phase, tracked, alive, closer, count, joined, left>>
  BY DEF Register, AdmitAfterWait, HandlerStep
<1> QED BY <1>1, <1>2, <1>6, <1>9, <1>10

\* What the removal of a session does to the index and to its closer.
LEMMA Removal ==
  ASSUME TypeOK, CapacityRespected, NEW c \in Conns, RemoveIfCurrent(c)
  PROVE  /\ PeerOf[c] \in Peers /\ closer[c] = "watching"
         /\ closer' = [closer EXCEPT ![c] = "removing"]
         /\ sessions' = IF IsCurrentSession(c) THEN [sessions EXCEPT ![PeerOf[c]] = NoSession]
                        ELSE sessions
         /\ sessions' \in [Peers -> Sessions]
         /\ local' \in [Conns -> Locals]
         /\ \A d \in Conns : /\ local'[d].gen = local[d].gen
                             /\ local'[d].fresh = local[d].fresh
         /\ \A d \in Conns \ {c} : local'[d] = local[d]
         /\ local'[c].removed = IsCurrentSession(c)
         /\ UNCHANGED <<phase, tracked, alive, handler, count, joined, left>>
<1> DEFINE p == PeerOf[c]
           S == ActivePlayers \ (IF IsCurrentSession(c) THEN {p} ELSE {})
<1>1. p \in Peers
  BY ConnsAssumption
<1>2. Cardinality(S) \in 0 .. MaxPlayers
  <2>1. S \in SUBSET ActivePlayers
    OBVIOUS
  <2> QED BY <2>1, FewerFit
<1>3. sessions' = IF IsCurrentSession(c) THEN [sessions EXCEPT ![p] = NoSession] ELSE sessions
  BY DEF RemoveIfCurrent
<1>4. sessions' \in [Peers -> Sessions]
  BY <1>1, <1>3 DEF TypeOK, Sessions, NoSession
<1>5. local' = [local EXCEPT ![c].count = Cardinality(S), ![c].removed = IsCurrentSession(c)]
  BY DEF RemoveIfCurrent
<1>6. IsCurrentSession(c) \in BOOLEAN
  BY DEF IsCurrentSession, HasSession
<1> HIDE DEF S
<1>7. /\ local' \in [Conns -> Locals]
      /\ \A d \in Conns : /\ local'[d].gen = local[d].gen
                          /\ local'[d].fresh = local[d].fresh
      /\ \A d \in Conns \ {c} : local'[d] = local[d]
      /\ local'[c].removed = IsCurrentSession(c)
  <2>1. local \in [Conns -> Locals]
    BY DEF TypeOK
  <2>2. local[c] \in Locals
    BY <2>1
  <2> DEFINE l == [local[c] EXCEPT !.count = Cardinality(S), !.removed = IsCurrentSession(c)]
  <2>3. l \in Locals /\ l.removed = IsCurrentSession(c)
        /\ l.gen = local[c].gen /\ l.fresh = local[c].fresh
    BY <1>2, <1>6, <2>2 DEF Locals
  <2>4. local' = [local EXCEPT ![c] = l]
    BY <1>5
  <2> HIDE DEF l
  <2>5. local'[c] = l /\ \A d \in Conns \ {c} : local'[d] = local[d]
    BY <2>1, <2>4
  <2>6. local' \in [Conns -> Locals]
    BY <2>1, <2>3, <2>4
  <2> QED BY <2>3, <2>5, <2>6
<1>8. /\ closer[c] = "watching" /\ closer' = [closer EXCEPT ![c] = "removing"]
      /\ UNCHANGED <<phase, tracked, alive, handler, count, joined, left>>
  BY DEF RemoveIfCurrent
<1> QED BY <1>1, <1>3, <1>4, <1>7, <1>8

-----------------------------------------------------------------------------
(* Types and capacity *)

\* Type correctness and capacity are inductive together: a count that is kept in a
\* local variable is within the capacity because the players were.
LEMMA TypeStep == TypeOK /\ CapacityRespected /\ [Next]_vars => TypeOK'
<1> SUFFICES ASSUME TypeOK, CapacityRespected, [Next]_vars PROVE TypeOK'
  OBVIOUS
<1> USE DEF HasSession
<1>1. ASSUME NEW c \in Conns, Authenticate(c) \/ Refuse(c) \/ HandlerNext(c) PROVE TypeOK'
  <2> USE DEF HandlerStep, HandlerPcs
  <2>1. CASE Authenticate(c)
    BY <2>1 DEF Authenticate, TypeOK
  <2>2. CASE Refuse(c)
    BY <2>2 DEF Refuse, TypeOK
  <2>3. CASE Register(c) \/ AdmitAfterWait(c)
    <3>1. c # NoConn
      BY ConnsAssumption
    <3>2. \A q \in Peers : HasSession(q)' <=> sessions'[q].conn # NoConn
      <4>1. \A q \in Peers \ {PeerOf[c]} : sessions'[q] = sessions[q]
        BY <2>3, Registration
      <4>2. sessions'[PeerOf[c]].gen # 0 /\ sessions'[PeerOf[c]].conn = c
        BY <2>3, Registration
      <4> QED BY <3>1, <4>1, <4>2 DEF TypeOK
    <3> QED BY <2>3, <3>2, Registration DEF TypeOK
  <2>4. CASE WaitForRoom(c)
    BY <2>4 DEF WaitForRoom, TypeOK
  <2>5. CASE RejectFull(c)
    BY <2>5 DEF RejectFull, TypeOK
  <2>6. CASE PublishCount(c)
    <3>1. local[c].count \in 0 .. MaxPlayers
      BY DEF TypeOK, Locals
    <3> QED BY <2>6, <3>1 DEF PublishCount, TypeOK
  <2>7. CASE CloseReplaced(c)
    BY <2>7 DEF CloseReplaced, TypeOK
  <2>8. CASE Track(c)
    BY <2>8 DEF Track, TypeOK
  <2>9. CASE Announce(c)
    BY <2>9 DEF Announce, TypeOK, CloserPcs
  <2> QED BY <1>1, <2>1, <2>2, <2>3, <2>4, <2>5, <2>6, <2>7, <2>8, <2>9 DEF HandlerNext
<1>2. ASSUME NEW c \in Conns, CloserNext(c) PROVE TypeOK'
  <2> USE DEF CloserPcs
  <2>1. CASE RemoveIfCurrent(c)
    <3>1. \A q \in Peers : HasSession(q)' <=> sessions'[q].conn # NoConn
      BY <2>1, Removal DEF TypeOK, NoSession
    <3> QED BY <2>1, <3>1, Removal DEF TypeOK
  <2>2. CASE PublishCountLeft(c)
    <3>1. local[c].count \in 0 .. MaxPlayers
      BY DEF TypeOK, Locals
    <3> QED BY <2>2, <3>1 DEF PublishCountLeft, TypeOK
  <2>3. CASE AnnounceLeft(c)
    BY <2>3 DEF AnnounceLeft, TypeOK
  <2> QED BY <1>2, <2>1, <2>2, <2>3 DEF CloserNext
<1>3. ASSUME NEW c \in Conns, ConnectionEnds(c) PROVE TypeOK'
  BY <1>3 DEF ConnectionEnds, TypeOK
<1>4. CASE StopService \/ DrainConnections
  BY <1>4 DEF StopService, DrainConnections, TypeOK
<1>5. CASE UNCHANGED vars
  BY <1>5 DEF vars, TypeOK
<1> QED BY <1>1, <1>2, <1>3, <1>4, <1>5 DEF Next

\* Most steps leave the session index, and what it was registered with, alone.
LEMMA IndexUntouched ==
  ASSUME TypeOK, [Next]_vars,
         ~(\E c \in Conns : Register(c) \/ AdmitAfterWait(c) \/ RemoveIfCurrent(c))
  PROVE  sessions' = sessions /\ local' = local
  BY DEF Next, vars, HandlerNext, CloserNext, Authenticate, Refuse, WaitForRoom, RejectFull,
         PublishCount, CloseReplaced, Track, Announce, PublishCountLeft, AnnounceLeft,
         ConnectionEnds, StopService, DrainConnections

\* Who registers has found room, and nobody else makes the players more.
LEMMA CapacityStep == TypeOK /\ CapacityRespected /\ [Next]_vars => CapacityRespected'
<1> SUFFICES ASSUME TypeOK, CapacityRespected, [Next]_vars PROVE CapacityRespected'
  OBVIOUS
<1>1. ASSUME NEW c \in Conns, Register(c) \/ AdmitAfterWait(c) PROVE CapacityRespected'
  <2>1. /\ PeerOf[c] \in Peers /\ HasCapacityFor(PeerOf[c])
        /\ sessions'[PeerOf[c]].gen # 0
        /\ \A q \in Peers \ {PeerOf[c]} : sessions'[q] = sessions[q]
    BY <1>1, Registration
  <2>2. ActivePlayers' = ActivePlayers \cup {PeerOf[c]}
    BY <2>1 DEF ActivePlayers, HasSession
  <2>3. Cardinality(ActivePlayers \cup {PeerOf[c]}) \in 0 .. MaxPlayers
    BY <2>1, UpsertFits
  <2> QED BY <2>2, <2>3 DEF CapacityRespected
<1>2. ASSUME NEW c \in Conns, RemoveIfCurrent(c) PROVE CapacityRespected'
  <2>1. ActivePlayers' \in SUBSET ActivePlayers
    BY <1>2, Removal DEF ActivePlayers, HasSession, NoSession, TypeOK
  <2> QED BY <2>1, FewerFit DEF CapacityRespected
<1>3. CASE ~(\E c \in Conns : Register(c) \/ AdmitAfterWait(c) \/ RemoveIfCurrent(c))
  BY <1>3, IndexUntouched DEF CapacityRespected, ActivePlayers, HasSession
<1> QED BY <1>1, <1>2, <1>3

-----------------------------------------------------------------------------
(* Order of the tasks *)

\* A closer is spawned at the end of its handler, and announces at its own end.
LEMMA OrderStep == TypeOK /\ CapacityRespected /\ TasksInOrder /\ [Next]_vars => TasksInOrder'
<1> SUFFICES ASSUME TypeOK, CapacityRespected, TasksInOrder, [Next]_vars PROVE TasksInOrder'
  OBVIOUS
<1> USE DEF TasksInOrder
<1>1. ASSUME NEW c \in Conns, Authenticate(c) \/ Refuse(c) \/ HandlerNext(c)
      PROVE  TasksInOrder'
  <2>1. CASE Announce(c)
    BY <2>1 DEF Announce, HandlerStep, TypeOK
  <2>2. CASE ~Announce(c)
    <3>1. /\ handler[c] # "done" /\ handler'[c] # "done"
          /\ \A d \in Conns \ {c} : handler'[d] = handler[d]
          /\ closer' = closer /\ joined' = joined /\ left' = left
      BY <1>1, <2>2
         DEF HandlerNext, HandlerStep, Authenticate, Refuse, Register, WaitForRoom,
             AdmitAfterWait, RejectFull, PublishCount, CloseReplaced, Track, TypeOK
    <3> QED BY <3>1
  <2> QED BY <2>1, <2>2
<1>2. ASSUME NEW c \in Conns, CloserNext(c) PROVE TasksInOrder'
  <2>1. CASE RemoveIfCurrent(c)
    BY <2>1, Removal DEF TypeOK
  <2>2. CASE PublishCountLeft(c)
    BY <2>2 DEF PublishCountLeft, TypeOK
  <2>3. CASE AnnounceLeft(c)
    BY <2>3 DEF AnnounceLeft, TypeOK
  <2> QED BY <1>2, <2>1, <2>2, <2>3 DEF CloserNext
<1>3. CASE \/ \E c \in Conns : ConnectionEnds(c)
           \/ StopService \/ DrainConnections \/ UNCHANGED vars
  BY <1>3 DEF ConnectionEnds, StopService, DrainConnections, vars
<1> QED BY <1>1, <1>2, <1>3 DEF Next

-----------------------------------------------------------------------------
(* Sessions and their closers *)

\* A session is registered before its closer exists, and is gone, or another's, when
\* the closer has looked.
LEMMA ClosersStep ==
  TypeOK /\ CapacityRespected /\ TasksInOrder /\ SessionsHaveClosers /\ [Next]_vars
    => SessionsHaveClosers'
<1> SUFFICES ASSUME TypeOK, CapacityRespected, TasksInOrder, SessionsHaveClosers, [Next]_vars,
                    NEW p \in Peers, sessions'[p].gen # 0
             PROVE  LET c == sessions'[p].conn
                    IN  /\ PeerOf[c] = p
                        /\ local'[c].gen = sessions'[p].gen
                        /\ handler'[c] \in Registered
                        /\ closer'[c] \in {"none", "watching"}
  BY DEF SessionsHaveClosers, ActivePlayers, HasSession
<1> DEFINE Kept(c) == /\ PeerOf[c] = p
                      /\ local[c].gen = sessions[p].gen
                      /\ handler[c] \in Registered
                      /\ closer[c] \in {"none", "watching"}
<1> USE DEF Registered
<1>1. sessions[p].gen # 0 => Kept(sessions[p].conn) /\ sessions[p].conn \in Conns
  BY DEF SessionsHaveClosers, ActivePlayers, HasSession, TypeOK, Sessions
<1>2. ASSUME NEW c \in Conns, Register(c) \/ AdmitAfterWait(c)
      PROVE  LET d == sessions'[p].conn
             IN  /\ PeerOf[d] = p /\ local'[d].gen = sessions'[p].gen
                 /\ handler'[d] \in Registered /\ closer'[d] \in {"none", "watching"}
  <2>1. CASE p = PeerOf[c]
    <3>1. handler'[c] = "registered" /\ closer'[c] = "none"
      <4>1. /\ handler[c] \in {"authenticated", "waiting"} /\ closer' = closer
            /\ handler' = [handler EXCEPT ![c] = "registered"]
        BY <1>2, Registration
      <4> QED BY <4>1 DEF TasksInOrder, TypeOK
    <3>2. sessions'[p].conn = c /\ local'[c].gen = sessions'[p].gen
      BY <1>2, <2>1, Registration
    <3> QED BY <2>1, <3>1, <3>2
  <2>2. CASE p # PeerOf[c]
    <3>1. sessions'[p] = sessions[p]
      <4>1. \A q \in Peers \ {PeerOf[c]} : sessions'[q] = sessions[q]
        BY <1>2, Registration
      <4> QED BY <2>2, <4>1
    <3>2. sessions[p].conn # c /\ sessions[p].conn \in Conns /\ Kept(sessions[p].conn)
      BY <1>1, <2>2, <3>1
    <3>3. /\ \A d \in Conns \ {c} : local'[d] = local[d]
          /\ handler' = [handler EXCEPT ![c] = "registered"] /\ closer' = closer
      BY <1>2, Registration
    <3> QED BY <3>1, <3>2, <3>3 DEF TypeOK
  <2> QED BY <2>1, <2>2
<1>3. ASSUME NEW c \in Conns, RemoveIfCurrent(c)
      PROVE  LET d == sessions'[p].conn
             IN  /\ PeerOf[d] = p /\ local'[d].gen = sessions'[p].gen
                 /\ handler'[d] \in Registered /\ closer'[d] \in {"none", "watching"}
  <2>1. sessions'[p] = sessions[p]
    BY <1>3, Removal DEF NoSession, TypeOK
  <2>2. Kept(sessions[p].conn) /\ sessions[p].conn \in Conns
    BY <1>1, <2>1
  <2>3. sessions[p].conn # c
    <3>1. SUFFICES ASSUME sessions[p].conn = c PROVE FALSE
      OBVIOUS
    <3>2. IsCurrentSession(c) /\ PeerOf[c] = p
      BY <2>1, <2>2, <3>1 DEF IsCurrentSession, HasSession
    <3> QED BY <1>3, <3>2, Removal DEF NoSession, TypeOK
  <2> QED BY <1>3, <2>1, <2>2, <2>3, Removal DEF TypeOK
<1>4. CASE ~(\E c \in Conns : Register(c) \/ AdmitAfterWait(c) \/ RemoveIfCurrent(c))
  <2> DEFINE d == sessions[p].conn
  <2>1. sessions' = sessions /\ local' = local
    BY <1>4, IndexUntouched
  <2>2. Kept(d) /\ d \in Conns
    BY <1>1, <2>1
  <2> HIDE DEF d
  <2>3. handler'[d] \in Registered /\ closer'[d] \in {"none", "watching"}
    <3>1. ASSUME NEW c \in Conns, HandlerNext(c), ~Announce(c)
          PROVE  handler'[d] \in Registered /\ closer' = closer
      BY <1>4, <2>2, <3>1
         DEF HandlerNext, HandlerStep, WaitForRoom, RejectFull, PublishCount, CloseReplaced,
             Track, TypeOK
    <3>2. ASSUME NEW c \in Conns, Announce(c)
          PROVE  handler'[d] \in Registered /\ closer'[d] \in {"none", "watching"}
      BY <2>2, <3>2 DEF Announce, HandlerStep, TypeOK
    <3>3. ASSUME NEW c \in Conns, Authenticate(c) \/ Refuse(c)
          PROVE  handler'[d] = handler[d] /\ closer' = closer
      BY <2>2, <3>3 DEF Authenticate, Refuse, HandlerStep, TypeOK
    <3>4. ASSUME NEW c \in Conns, PublishCountLeft(c) \/ AnnounceLeft(c)
          PROVE  handler' = handler /\ closer'[d] = closer[d]
      BY <2>2, <3>4 DEF PublishCountLeft, AnnounceLeft, TypeOK
    <3>5. CASE \/ \E c \in Conns : ConnectionEnds(c)
               \/ StopService \/ DrainConnections \/ UNCHANGED vars
      BY <2>2, <3>5 DEF ConnectionEnds, StopService, DrainConnections, vars
    <3> QED BY <1>4, <2>2, <3>1, <3>2, <3>3, <3>4, <3>5 DEF Next, CloserNext, HandlerNext
  <2> QED BY <2>1, <2>2, <2>3 DEF d
<1> QED BY <1>2, <1>3, <1>4

-----------------------------------------------------------------------------
(* Tracking *)

\* A connection is tracked by its handler, and is closed when it is no longer.
LEMMA TrackedStep ==
  TypeOK /\ CapacityRespected /\ OpenIsTracked /\ [Next]_vars => OpenIsTracked'
<1> SUFFICES ASSUME TypeOK, CapacityRespected, OpenIsTracked, [Next]_vars PROVE OpenIsTracked'
  OBVIOUS
<1> USE DEF OpenIsTracked
<1>1. ASSUME NEW c \in Conns, Authenticate(c) \/ Refuse(c) \/ HandlerNext(c)
      PROVE  OpenIsTracked'
  <2> USE DEF HandlerStep
  <2>1. CASE Authenticate(c) \/ Refuse(c)
    BY <2>1 DEF Authenticate, Refuse, TypeOK
  <2>2. CASE Register(c) \/ AdmitAfterWait(c)
    <3>1. /\ handler' = [handler EXCEPT ![c] = "registered"]
          /\ alive' = alive /\ tracked' = tracked
      BY <2>2, Registration
    <3> QED BY <3>1 DEF TypeOK
  <2>3. CASE WaitForRoom(c) \/ RejectFull(c) \/ PublishCount(c) \/ CloseReplaced(c)
    BY <2>3 DEF WaitForRoom, RejectFull, PublishCount, CloseReplaced, TypeOK
  <2>4. CASE Track(c)
    BY <2>4 DEF Track, TypeOK
  <2>5. CASE Announce(c)
    BY <2>5 DEF Announce, TypeOK
  <2> QED BY <1>1, <2>1, <2>2, <2>3, <2>4, <2>5 DEF HandlerNext
<1>2. ASSUME NEW c \in Conns, CloserNext(c) \/ ConnectionEnds(c) PROVE OpenIsTracked'
  BY <1>2 DEF CloserNext, RemoveIfCurrent, PublishCountLeft, AnnounceLeft, ConnectionEnds
<1>3. CASE StopService \/ DrainConnections \/ UNCHANGED vars
  BY <1>3 DEF StopService, DrainConnections, vars
<1> QED BY <1>1, <1>2, <1>3 DEF Next

-----------------------------------------------------------------------------
(* Joins and leaves *)

\* The sets that JoinsMatchLeaves compares are finite.
LEMMA ConnsFinite ==
  ASSUME NEW S \in SUBSET Conns
  PROVE  IsFiniteSet(S) /\ Cardinality(S) \in Nat
  BY ConnsAssumption, FS_Subset, FS_CardinalityType

\* A connection that registers joins with it, unless it replaces another.
LEMMA JoinsAfterRegistration ==
  ASSUME TypeOK, CapacityRespected, TasksInOrder, NEW p \in Peers,
         NEW c \in Conns, Register(c) \/ AdmitAfterWait(c)
  PROVE  /\ Joins(p)' = IF PeerOf[c] = p /\ ~HasSession(p) THEN Joins(p) \cup {c} ELSE Joins(p)
         /\ Leaves(p)' = Leaves(p)
         /\ c \notin Joins(p)
         /\ HasSession(p)' <=> HasSession(p) \/ PeerOf[c] = p
<1>1. /\ handler[c] \in {"authenticated", "waiting"}
      /\ handler' = [handler EXCEPT ![c] = "registered"]
      /\ closer' = closer /\ joined' = joined /\ left' = left
      /\ \A d \in Conns \ {c} : local'[d] = local[d]
      /\ local'[c].fresh = ~HasSession(PeerOf[c])
  BY Registration
<1>2. sessions'[PeerOf[c]].gen # 0 /\ \A q \in Peers \ {PeerOf[c]} : sessions'[q] = sessions[q]
  BY Registration
<1>3. closer[c] = "none" /\ c \notin joined /\ c \notin left
  BY <1>1 DEF TasksInOrder
<1>4. \A d \in Conns \ {c} : handler'[d] = handler[d]
  BY <1>1 DEF TypeOK
<1>5. handler'[c] = "registered"
  BY <1>1 DEF TypeOK
<1>6. Joins(p)' = IF PeerOf[c] = p /\ ~HasSession(p) THEN Joins(p) \cup {c} ELSE Joins(p)
  BY <1>1, <1>3, <1>4, <1>5 DEF Joins, Registered
<1>7. Leaves(p)' = Leaves(p)
  BY <1>1, <1>3 DEF Leaves
<1>8. c \notin Joins(p)
  BY <1>1, <1>3 DEF Joins, Registered
<1>9. HasSession(p)' <=> HasSession(p) \/ PeerOf[c] = p
  BY <1>2 DEF HasSession
<1> QED BY <1>6, <1>7, <1>8, <1>9

\* A connection leaves when its closer has removed the session.
LEMMA LeavesAfterRemoval ==
  ASSUME TypeOK, CapacityRespected, TasksInOrder, NEW p \in Peers,
         NEW c \in Conns, RemoveIfCurrent(c)
  PROVE  /\ Joins(p)' = Joins(p)
         /\ Leaves(p)' = IF PeerOf[c] = p /\ IsCurrentSession(c) THEN Leaves(p) \cup {c}
                         ELSE Leaves(p)
         /\ c \notin Leaves(p)
         /\ IsCurrentSession(c) => HasSession(PeerOf[c])
         /\ HasSession(p)' <=> HasSession(p) /\ ~(PeerOf[c] = p /\ IsCurrentSession(c))
<1>1. /\ closer[c] = "watching" /\ closer' = [closer EXCEPT ![c] = "removing"]
      /\ handler' = handler /\ joined' = joined /\ left' = left
      /\ \A d \in Conns : local'[d].fresh = local[d].fresh
      /\ \A d \in Conns \ {c} : local'[d] = local[d]
      /\ local'[c].removed = IsCurrentSession(c)
  BY Removal
<1>2. sessions' = IF IsCurrentSession(c) THEN [sessions EXCEPT ![PeerOf[c]] = NoSession]
                  ELSE sessions
  BY Removal
<1>3. c \notin left
  BY <1>1 DEF TasksInOrder
<1>4. closer'[c] = "removing" /\ \A d \in Conns \ {c} : closer'[d] = closer[d]
  BY <1>1 DEF TypeOK
<1>5. Joins(p)' = Joins(p)
  BY <1>1 DEF Joins
<1>6. Leaves(p)' = IF PeerOf[c] = p /\ IsCurrentSession(c) THEN Leaves(p) \cup {c} ELSE Leaves(p)
  BY <1>1, <1>3, <1>4 DEF Leaves
<1>7. c \notin Leaves(p)
  BY <1>1, <1>3 DEF Leaves
<1>8. HasSession(p)' <=> HasSession(p) /\ ~(PeerOf[c] = p /\ IsCurrentSession(c))
  BY <1>2 DEF HasSession, NoSession, TypeOK
<1>9. IsCurrentSession(c) => HasSession(PeerOf[c])
  BY DEF IsCurrentSession
<1> QED BY <1>5, <1>6, <1>7, <1>8, <1>9

\* The other steps only move a connection from those about to be announced to those
\* that are.
LEMMA JoinsAndLeavesKept ==
  ASSUME TypeOK, TasksInOrder, [Next]_vars, NEW p \in Peers,
         ~(\E c \in Conns : Register(c) \/ AdmitAfterWait(c) \/ RemoveIfCurrent(c))
  PROVE  Joins(p)' = Joins(p) /\ Leaves(p)' = Leaves(p)
<1>1. local' = local
  BY IndexUntouched
<1>2. ASSUME NEW c \in Conns, Announce(c) PROVE Joins(p)' = Joins(p) /\ Leaves(p)' = Leaves(p)
  <2>1. /\ handler[c] = "tracked" /\ handler'[c] = "done" /\ left' = left
        /\ \A d \in Conns \ {c} : handler'[d] = handler[d] /\ closer'[d] = closer[d]
        /\ joined' = IF local[c].fresh THEN joined \cup {c} ELSE joined
        /\ closer'[c] = "watching"
    BY <1>2 DEF Announce, HandlerStep, TypeOK
  <2>2. closer[c] = "none"
    BY <2>1 DEF TasksInOrder
  <2>3. Joins(p)' = Joins(p)
    BY <1>1, <2>1 DEF Joins, Registered
  <2>4. Leaves(p)' = Leaves(p)
    BY <1>1, <2>1, <2>2 DEF Leaves
  <2> QED BY <2>3, <2>4
<1>3. ASSUME NEW c \in Conns, PublishCountLeft(c) \/ AnnounceLeft(c)
      PROVE  Joins(p)' = Joins(p) /\ Leaves(p)' = Leaves(p)
  BY <1>1, <1>3 DEF PublishCountLeft, AnnounceLeft, Joins, Leaves, TypeOK
<1>4. ASSUME NEW c \in Conns, Authenticate(c) \/ Refuse(c) \/ HandlerNext(c), ~Announce(c)
      PROVE  Joins(p)' = Joins(p) /\ Leaves(p)' = Leaves(p)
  <2>1. /\ \A d \in Conns \ {c} : handler'[d] = handler[d]
        /\ handler[c] \in Registered \ {"done"} <=> handler'[c] \in Registered \ {"done"}
        /\ closer' = closer /\ joined' = joined /\ left' = left
    BY <1>4 DEF HandlerNext, HandlerStep, Authenticate, Refuse, WaitForRoom, RejectFull,
                PublishCount, CloseReplaced, Track, TypeOK, Registered
  <2> QED BY <1>1, <2>1 DEF Joins, Leaves
<1>5. CASE \/ \E c \in Conns : ConnectionEnds(c)
           \/ StopService \/ DrainConnections \/ UNCHANGED vars
  BY <1>1, <1>5 DEF ConnectionEnds, StopService, DrainConnections, vars, Joins, Leaves
<1> QED BY <1>2, <1>3, <1>4, <1>5 DEF Next, CloserNext

\* A session comes with a join and goes with a leave.
LEMMA PairingStep ==
  TypeOK /\ CapacityRespected /\ TasksInOrder /\ JoinsMatchLeaves /\ [Next]_vars
    => JoinsMatchLeaves'
<1> SUFFICES ASSUME TypeOK, CapacityRespected, TasksInOrder, JoinsMatchLeaves, [Next]_vars,
                    NEW p \in Peers
             PROVE  Cardinality(Joins(p)') =
                      Cardinality(Leaves(p)') + (IF HasSession(p)' THEN 1 ELSE 0)
  BY DEF JoinsMatchLeaves
<1>1. Cardinality(Joins(p)) = Cardinality(Leaves(p)) + (IF HasSession(p) THEN 1 ELSE 0)
  BY DEF JoinsMatchLeaves
<1>2. /\ IsFiniteSet(Joins(p)) /\ Cardinality(Joins(p)) \in Nat
      /\ IsFiniteSet(Leaves(p)) /\ Cardinality(Leaves(p)) \in Nat
  <2>1. Joins(p) \in SUBSET Conns /\ Leaves(p) \in SUBSET Conns
    BY DEF Joins, Leaves
  <2> QED BY <2>1, ConnsFinite
<1>3. ASSUME NEW c \in Conns, Register(c) \/ AdmitAfterWait(c)
      PROVE  Cardinality(Joins(p)') = Cardinality(Leaves(p)') + (IF HasSession(p)' THEN 1 ELSE 0)
  <2>1. CASE PeerOf[c] = p /\ ~HasSession(p)
    <3>1. /\ Joins(p)' = Joins(p) \cup {c} /\ c \notin Joins(p)
          /\ Leaves(p)' = Leaves(p) /\ HasSession(p)'
      BY <1>3, <2>1, JoinsAfterRegistration
    <3>2. Cardinality(Joins(p) \cup {c}) = Cardinality(Joins(p)) + 1
      BY <1>2, <3>1, FS_AddElement
    <3> QED BY <1>1, <1>2, <2>1, <3>1, <3>2
  <2>2. CASE ~(PeerOf[c] = p /\ ~HasSession(p))
    BY <1>1, <1>3, <2>2, JoinsAfterRegistration
  <2> QED BY <2>1, <2>2
<1>4. ASSUME NEW c \in Conns, RemoveIfCurrent(c)
      PROVE  Cardinality(Joins(p)') = Cardinality(Leaves(p)') + (IF HasSession(p)' THEN 1 ELSE 0)
  <2>1. CASE PeerOf[c] = p /\ IsCurrentSession(c)
    <3>1. /\ Leaves(p)' = Leaves(p) \cup {c} /\ c \notin Leaves(p)
          /\ Joins(p)' = Joins(p) /\ HasSession(p) /\ ~HasSession(p)'
      BY <1>4, <2>1, LeavesAfterRemoval
    <3>2. Cardinality(Leaves(p) \cup {c}) = Cardinality(Leaves(p)) + 1
      BY <1>2, <3>1, FS_AddElement
    <3> QED BY <1>1, <1>2, <3>1, <3>2
  <2>2. CASE ~(PeerOf[c] = p /\ IsCurrentSession(c))
    BY <1>1, <1>4, <2>2, LeavesAfterRemoval
  <2> QED BY <2>1, <2>2
<1>5. CASE ~(\E c \in Conns : Register(c) \/ AdmitAfterWait(c) \/ RemoveIfCurrent(c))
  BY <1>1, <1>5, JoinsAndLeavesKept, IndexUntouched DEF HasSession
<1> QED BY <1>3, <1>4, <1>5

-----------------------------------------------------------------------------
(* Theorems *)

\* The invariant holds before anyone connects.
LEMMA InitIInv == Init => IInv
<1> SUFFICES ASSUME Init PROVE IInv
  OBVIOUS
<1> USE DEF Init
<1>1. TypeOK
  BY MaxPlayersAssumption
     DEF TypeOK, Sessions, Locals, NoSession, NoLocal, HandlerPcs, CloserPcs, HasSession
<1>2. \A p \in Peers : ~HasSession(p)
  BY DEF HasSession, NoSession
<1>3. CapacityRespected /\ SessionsHaveClosers
  <2>1. ActivePlayers = {}
    BY <1>2 DEF ActivePlayers
  <2> QED BY <2>1, FS_EmptySet, MaxPlayersAssumption DEF CapacityRespected, SessionsHaveClosers
<1>4. TasksInOrder /\ OpenIsTracked
  BY DEF TasksInOrder, OpenIsTracked
<1>5. JoinsMatchLeaves
  <2>1. \A p \in Peers : Joins(p) = {} /\ Leaves(p) = {}
    BY DEF Joins, Leaves, Registered
  <2> QED BY <1>2, <2>1, FS_EmptySet DEF JoinsMatchLeaves
<1> QED BY <1>1, <1>3, <1>4, <1>5 DEF IInv

\* The inductive invariant holds in every state.
LEMMA Invariance == Spec => []IInv
<1>1. IInv /\ [Next]_vars => IInv'
  BY TypeStep, CapacityStep, OrderStep, ClosersStep, TrackedStep, PairingStep DEF IInv
<1> QED BY InitIInv, <1>1, PTL DEF Spec

\* Every variable keeps its type; the published count is within the capacity.
THEOREM TypeCorrect == Spec => []TypeOK
<1>1. IInv => TypeOK
  BY DEF IInv
<1> QED BY Invariance, <1>1, PTL

\* However many handlers check, wait and register at once, the index never holds more
\* players than max_players (register_session_with_grace).
THEOREM CapacityIsRespected == Spec => []CapacityRespected
<1>1. IInv => CapacityRespected
  BY DEF IInv
<1> QED BY Invariance, <1>1, PTL

\* Every session has a connection whose closer has yet to look at it
\* (remove_if_current).
THEOREM EverySessionHasACloser == Spec => []SessionsHaveClosers
<1>1. IInv => SessionsHaveClosers
  BY DEF IInv
<1> QED BY Invariance, <1>1, PTL

\* An open connection that was admitted is one a later stop will close
\* (HostContext.conns).
THEOREM AdmittedIsTracked == Spec => []OpenIsTracked
<1>1. IInv => OpenIsTracked
  BY DEF IInv
<1> QED BY Invariance, <1>1, PTL

\* Joins and leaves of a player pair up, but for the session there is
\* (PlayerJoined and PlayerLeft of start_authenticated_host_connection).
THEOREM JoinsPairWithLeaves == Spec => []JoinsMatchLeaves
<1>1. IInv => JoinsMatchLeaves
  BY DEF IInv
<1> QED BY Invariance, <1>1, PTL

-----------------------------------------------------------------------------
(* A session that has lost its connection has a task that removes it *)

\* A task of the connection has a step that nothing holds up: its handler goes on to
\* spawn the closer, or the closer, its connection being over, looks at the index.
TaskProceeds(c) ==
  \/ handler[c] \in Registered \ {"done"}
  \/ closer[c] = "watching" /\ c \notin alive

EndedSessionsProceed ==
  \A p \in ActivePlayers : sessions[p].conn \notin alive => TaskProceeds(sessions[p].conn)

\* A connection may end at any point of start_authenticated_host_connection, before
\* its closer is spawned too, and be replaced by another at the same time: the session
\* it leaves behind always has a task on its way to remove_if_current.
THEOREM EndedSessionsAreNeverStuck == Spec => []EndedSessionsProceed
<1>1. ASSUME IInv, NEW p \in ActivePlayers, sessions[p].conn \notin alive
      PROVE  TaskProceeds(sessions[p].conn)
  <2>1. /\ sessions[p].conn \in Conns
        /\ handler[sessions[p].conn] \in Registered
        /\ closer[sessions[p].conn] \in {"none", "watching"}
    BY <1>1 DEF IInv, TypeOK, Sessions, SessionsHaveClosers, ActivePlayers, HasSession
  <2>2. closer[sessions[p].conn] # "none" <=> handler[sessions[p].conn] = "done"
    BY <1>1, <2>1 DEF IInv, TasksInOrder
  <2> QED BY <1>1, <2>1, <2>2 DEF TaskProceeds
<1>2. IInv => EndedSessionsProceed
  BY <1>1 DEF EndedSessionsProceed
<1> QED BY Invariance, <1>2, PTL
=============================================================================
