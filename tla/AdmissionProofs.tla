----------------------------- MODULE AdmissionProofs -----------------------------
(***************************************************************************)
(* Proofs about module Admission, for both kinds of host, any clients, any *)
(* number of slots and any number of tokens and publications.  The         *)
(* argument is about what is current: a replaced token stays replaced in   *)
(* every session a task may have looked up, and a client that holds the    *)
(* current token of a published service is found and matched, unless       *)
(* something happens that excuses the host.  The last part is about what   *)
(* the host still has to do: it never waits where nobody has a step, and a *)
(* closed host only goes forward.                                          *)
(***************************************************************************)
EXTENDS Admission, FiniteSetTheorems, TLAPS

-----------------------------------------------------------------------------
(* The inductive invariant *)

\* Nothing is done for a client that has not connected.
Attempts ==
  /\ \A c \in Clients : client[c] = "idle" => task[c] = "none" /\ answer[c] = "none"
  /\ \A c \in Clients : (client[c] = "idle") <=> (conn[c] = "none")
  /\ \A c \in Clients : conn[c] = "offered" => client[c] = "connecting"
  /\ \A c \in Clients : task[c] = "answering" => answer[c] # "none"
  /\ loop = "waiting" => held \in Clients /\ client[held] # "idle" /\ task[held] = "none"

\* No session has a newer token than the current one.
Sessioned ==
  /\ service \in {None, sessions}
  /\ Current # None
  /\ \A s \in Sessions : s <= sessions => token[s] <= Current
  /\ \A c \in Clients : found[c] <= sessions /\ (found[c] # None => task[c] = "matching")

\* An outdated token matches no session that is or will be looked up.
Outdated ==
  \A c \in outdated :
    /\ client[c] \notin {"idle", "joined"}
    /\ offer[c] < Current
    /\ found[c] # None => offer[c] < token[found[c]]
    /\ answer[c] # "ok"

\* A client that has no excuse against it has the current token of a published
\* service, which is the one that its task has found.
Unexcused ==
  \A c \in Attempting \ excuse :
    /\ service # None
    /\ offer[c] = Current
    /\ task[c] = "matching" => found[c] = service
    /\ answer[c] # "no" /\ conn[c] # "authFailed"

\* A connection is offered until its task has shaken hands, and a task that reads from
\* an open connection has a client that is yet to send or waits for the answer.
Tended ==
  \A c \in Clients :
    /\ conn[c] = "offered" => task[c] \in {"none", "handshake"}
    /\ task[c] = "reading" /\ conn[c] = "open" => client[c] \in {"sending", "awaiting"}

\* Nothing of the host ends over an endpoint that stays open, and a closed endpoint has
\* no connection left.
Ending ==
  /\ closing = "signal" => kind = "node"
  /\ closing = "done" => signalled
  /\ closing = "done" \/ signalled \/ loop = "ended" =>
       endpoint = "closed" \/ closing = "endpoint"
  /\ closing = "signal" => endpoint = "closed"
  /\ kind = "single" /\ (closing # "no" \/ ~handles) => signalled
  /\ endpoint = "closed" => \A c \in Clients : conn[c] \notin {"offered", "open"}

IInv ==
  /\ TypeOK /\ Attempts /\ Sessioned /\ Outdated /\ Unexcused /\ RejectionsHaveCause
  /\ Tended /\ Ending

-----------------------------------------------------------------------------
(* Each part is preserved *)

\* The bounds on tokens and publications are those of the guards.
LEMMA TypeStep == TypeOK /\ [Next]_vars => TypeOK'
<1> SUFFICES ASSUME TypeOK, [Next]_vars PROVE TypeOK'
  OBVIOUS
<1> USE BoundsAssumption DEF TypeOK, ClosingPcs, TaskPcs, Conns, ClientPcs, Sessions, None, Current
<1>1. ASSUME NEW c \in Clients, NEW t \in 0 .. MaxTokens, Connect(c, t) PROVE TypeOK'
  BY <1>1 DEF Connect, host, services, accepting, tasks, clients, history
<1>2. ASSUME NEW c \in Clients, ConnectFails(c) PROVE TypeOK'
  BY <1>2 DEF ConnectFails, Lose, host, services, accepting, tasks, clients, history
<1>3. ASSUME NEW c \in Clients, SendRequest(c) PROVE TypeOK'
  BY <1>3 DEF SendRequest, host, services, accepting, tasks, clients, history
<1>4. ASSUME NEW c \in Clients, ReadAnswer(c) PROVE TypeOK'
  BY <1>4 DEF ReadAnswer, Written, host, services, accepting, tasks, clients, history
<1>5. ASSUME NEW c \in Clients, SeeClose(c) PROVE TypeOK'
  BY <1>5 DEF SeeClose, host, services, accepting, tasks, clients, history
<1>6. ASSUME NEW c \in Clients, GiveUp(c) PROVE TypeOK'
  BY <1>6 DEF GiveUp, Lose, host, services, accepting, tasks, clients, history
<1>7. ASSUME NEW c \in Clients, Accept(c) PROVE TypeOK'
  BY <1>7 DEF Accept, host, services, accepting, tasks, clients, history
<1>8. ASSUME NEW c \in Clients, Handshake(c) PROVE TypeOK'
  BY <1>8 DEF Handshake, host, services, accepting, tasks, clients, history
<1>9. ASSUME NEW c \in Clients, HandshakeFails(c) PROVE TypeOK'
  BY <1>9 DEF HandshakeFails, Ends, Lose, host, services, accepting, tasks, clients, history
<1>10. ASSUME NEW c \in Clients, ReadRequest(c) PROVE TypeOK'
  BY <1>10 DEF ReadRequest, host, services, accepting, tasks, clients, history
<1>11. ASSUME NEW c \in Clients, ReadFails(c) PROVE TypeOK'
  BY <1>11 DEF ReadFails, Ends, host, services, accepting, tasks, clients, history
<1>12. ASSUME NEW c \in Clients, ReadTimesOut(c) PROVE TypeOK'
  BY <1>12 DEF ReadTimesOut, Ends, host, services, accepting, tasks, clients, history
<1>13. ASSUME NEW c \in Clients, Match(c) PROVE TypeOK'
  BY <1>13 DEF Match, host, services, accepting, tasks, clients, history
<1>14. ASSUME NEW c \in Clients, Respond(c) PROVE TypeOK'
  BY <1>14 DEF Respond, Ends, host, services, accepting, tasks, clients, history
<1>15. ASSUME NEW c \in Clients, RespondFails(c) PROVE TypeOK'
  BY <1>15 DEF RespondFails, Ends, host, services, accepting, tasks, clients, history
<1>16. ASSUME NEW c \in Clients, Admit(c) PROVE TypeOK'
  BY <1>16 DEF Admit, Ends, host, services, accepting, tasks, clients, history
<1>17. CASE AcceptNothing
  BY <1>17 DEF AcceptNothing, host, services, accepting, tasks, clients, history
<1>18. CASE TakeSlot
  BY <1>18 DEF TakeSlot, host, services, accepting, tasks, clients, history
<1>19. CASE StopAccepting
  BY <1>19 DEF StopAccepting, Lose, host, services, accepting, tasks, clients, history
<1>20. CASE Rotate
  BY <1>20 DEF Rotate, Attempting, host, services, accepting, tasks, clients, history
<1>21. CASE StopService
  BY <1>21 DEF StopService, Unpublish, Attempting, host, services, accepting, tasks, clients, history
<1>22. CASE StartService
  BY <1>22 DEF StartService, host, services, accepting, tasks, clients, history
<1>23. CASE BeginClose
  <2>1. service' \in 0 .. MaxSessions /\ excuse' \subseteq Clients
    BY <1>23 DEF BeginClose, Unpublish, Attempting
  <2>2. closing' \in ClosingPcs
    BY <1>23 DEF BeginClose
  <2>3. signalled' \in BOOLEAN
    BY <1>23 DEF BeginClose
  <2> QED BY <1>23, <2>1, <2>2, <2>3 DEF BeginClose, accepting, tasks, clients
<1>24. CASE CloseEndpoint
  BY <1>24 DEF CloseEndpoint, Lose, host, services, accepting, tasks, clients, history
<1>25. CASE SignalLast
  BY <1>25 DEF SignalLast, host, services, accepting, tasks, clients, history
<1>26. CASE DropHandles
  BY <1>26 DEF DropHandles, host, services, accepting, tasks, clients, history
<1>27. CASE UNCHANGED vars
  BY <1>27 DEF vars, host, services, accepting, tasks, clients, history
<1> QED
  BY <1>1, <1>2, <1>3, <1>4, <1>5, <1>6, <1>7, <1>8, <1>9, <1>10, <1>11, <1>12, <1>13, <1>14, <1>15, <1>16, <1>17, <1>18, <1>19, <1>20, <1>21, <1>22, <1>23, <1>24, <1>25, <1>26, <1>27
  DEF Next, ClientNext, TaskNext, LoopNext, UserNext

\* A task is started for an offered connection only.
LEMMA AttemptsStep == TypeOK /\ Attempts /\ [Next]_vars => Attempts'
<1> SUFFICES ASSUME TypeOK, Attempts, [Next]_vars PROVE Attempts'
  OBVIOUS
<1> USE BoundsAssumption DEF TypeOK, Attempts, ClientPcs, Conns, TaskPcs
<1>1. ASSUME NEW c \in Clients, NEW t \in 0 .. MaxTokens, Connect(c, t) PROVE Attempts'
  BY <1>1 DEF Connect, host, services, accepting, tasks, clients, history
<1>2. ASSUME NEW c \in Clients, ConnectFails(c) PROVE Attempts'
  BY <1>2 DEF ConnectFails, Lose, host, services, accepting, tasks, clients, history
<1>3. ASSUME NEW c \in Clients, SendRequest(c) PROVE Attempts'
  BY <1>3 DEF SendRequest, host, services, accepting, tasks, clients, history
<1>4. ASSUME NEW c \in Clients, ReadAnswer(c) PROVE Attempts'
  BY <1>4 DEF ReadAnswer, Written, host, services, accepting, tasks, clients, history
<1>5. ASSUME NEW c \in Clients, SeeClose(c) PROVE Attempts'
  BY <1>5 DEF SeeClose, host, services, accepting, tasks, clients, history
<1>6. ASSUME NEW c \in Clients, GiveUp(c) PROVE Attempts'
  BY <1>6 DEF GiveUp, Lose, host, services, accepting, tasks, clients, history
<1>7. ASSUME NEW c \in Clients, Accept(c) PROVE Attempts'
  BY <1>7 DEF Accept, host, services, accepting, tasks, clients, history
<1>8. ASSUME NEW c \in Clients, Handshake(c) PROVE Attempts'
  BY <1>8 DEF Handshake, host, services, accepting, tasks, clients, history
<1>9. ASSUME NEW c \in Clients, HandshakeFails(c) PROVE Attempts'
  BY <1>9 DEF HandshakeFails, Ends, Lose, host, services, accepting, tasks, clients, history
<1>10. ASSUME NEW c \in Clients, ReadRequest(c) PROVE Attempts'
  BY <1>10 DEF ReadRequest, host, services, accepting, tasks, clients, history
<1>11. ASSUME NEW c \in Clients, ReadFails(c) PROVE Attempts'
  BY <1>11 DEF ReadFails, Ends, host, services, accepting, tasks, clients, history
<1>12. ASSUME NEW c \in Clients, ReadTimesOut(c) PROVE Attempts'
  BY <1>12 DEF ReadTimesOut, Ends, host, services, accepting, tasks, clients, history
<1>13. ASSUME NEW c \in Clients, Match(c) PROVE Attempts'
  BY <1>13 DEF Match, host, services, accepting, tasks, clients, history
<1>14. ASSUME NEW c \in Clients, Respond(c) PROVE Attempts'
  BY <1>14 DEF Respond, Ends, host, services, accepting, tasks, clients, history
<1>15. ASSUME NEW c \in Clients, RespondFails(c) PROVE Attempts'
  BY <1>15 DEF RespondFails, Ends, host, services, accepting, tasks, clients, history
<1>16. ASSUME NEW c \in Clients, Admit(c) PROVE Attempts'
  BY <1>16 DEF Admit, Ends, host, services, accepting, tasks, clients, history
<1>17. CASE AcceptNothing
  BY <1>17 DEF AcceptNothing, host, services, accepting, tasks, clients, history
<1>18. CASE TakeSlot
  BY <1>18 DEF TakeSlot, host, services, accepting, tasks, clients, history
<1>19. CASE StopAccepting
  BY <1>19 DEF StopAccepting, Lose, host, services, accepting, tasks, clients, history
<1>20. CASE Rotate
  BY <1>20 DEF Rotate, host, services, accepting, tasks, clients, history
<1>21. CASE StopService
  BY <1>21 DEF StopService, Unpublish, host, services, accepting, tasks, clients, history
<1>22. CASE StartService
  BY <1>22 DEF StartService, host, services, accepting, tasks, clients, history
<1>23. CASE BeginClose
  BY <1>23 DEF BeginClose, Unpublish, host, services, accepting, tasks, clients, history
<1>24. CASE CloseEndpoint
  BY <1>24 DEF CloseEndpoint, Lose, host, services, accepting, tasks, clients, history
<1>25. CASE SignalLast
  BY <1>25 DEF SignalLast, host, services, accepting, tasks, clients, history
<1>26. CASE DropHandles
  BY <1>26 DEF DropHandles, host, services, accepting, tasks, clients, history
<1>27. CASE UNCHANGED vars
  BY <1>27 DEF vars, host, services, accepting, tasks, clients, history
<1> QED
  BY <1>1, <1>2, <1>3, <1>4, <1>5, <1>6, <1>7, <1>8, <1>9, <1>10, <1>11, <1>12, <1>13, <1>14, <1>15, <1>16, <1>17, <1>18, <1>19, <1>20, <1>21, <1>22, <1>23, <1>24, <1>25, <1>26, <1>27
  DEF Next, ClientNext, TaskNext, LoopNext, UserNext

\* Rotations are of the last session; a new one takes over the current token.
LEMMA SessionedStep == TypeOK /\ Attempts /\ Sessioned /\ [Next]_vars => Sessioned'
<1> SUFFICES ASSUME TypeOK, Attempts, Sessioned, [Next]_vars PROVE Sessioned'
  OBVIOUS
<1> USE BoundsAssumption DEF TypeOK, Attempts, Sessioned, Sessions, None, Current
<1>1. ASSUME NEW c \in Clients, NEW t \in 0 .. MaxTokens, Connect(c, t) PROVE Sessioned'
  BY <1>1 DEF Connect, host, services, accepting, tasks, clients, history
<1>2. ASSUME NEW c \in Clients, ConnectFails(c) PROVE Sessioned'
  BY <1>2 DEF ConnectFails, Lose, host, services, accepting, tasks, clients, history
<1>3. ASSUME NEW c \in Clients, SendRequest(c) PROVE Sessioned'
  BY <1>3 DEF SendRequest, host, services, accepting, tasks, clients, history
<1>4. ASSUME NEW c \in Clients, ReadAnswer(c) PROVE Sessioned'
  BY <1>4 DEF ReadAnswer, Written, host, services, accepting, tasks, clients, history
<1>5. ASSUME NEW c \in Clients, SeeClose(c) PROVE Sessioned'
  BY <1>5 DEF SeeClose, host, services, accepting, tasks, clients, history
<1>6. ASSUME NEW c \in Clients, GiveUp(c) PROVE Sessioned'
  BY <1>6 DEF GiveUp, Lose, host, services, accepting, tasks, clients, history
<1>7. ASSUME NEW c \in Clients, Accept(c) PROVE Sessioned'
  BY <1>7 DEF Accept, host, services, accepting, tasks, clients, history
<1>8. ASSUME NEW c \in Clients, Handshake(c) PROVE Sessioned'
  BY <1>8 DEF Handshake, host, services, accepting, tasks, clients, history
<1>9. ASSUME NEW c \in Clients, HandshakeFails(c) PROVE Sessioned'
  BY <1>9 DEF HandshakeFails, Ends, Lose, host, services, accepting, tasks, clients, history
<1>10. ASSUME NEW c \in Clients, ReadRequest(c) PROVE Sessioned'
  BY <1>10 DEF ReadRequest, host, services, accepting, tasks, clients, history
<1>11. ASSUME NEW c \in Clients, ReadFails(c) PROVE Sessioned'
  BY <1>11 DEF ReadFails, Ends, host, services, accepting, tasks, clients, history
<1>12. ASSUME NEW c \in Clients, ReadTimesOut(c) PROVE Sessioned'
  BY <1>12 DEF ReadTimesOut, Ends, host, services, accepting, tasks, clients, history
<1>13. ASSUME NEW c \in Clients, Match(c) PROVE Sessioned'
  BY <1>13 DEF Match, host, services, accepting, tasks, clients, history
<1>14. ASSUME NEW c \in Clients, Respond(c) PROVE Sessioned'
  BY <1>14 DEF Respond, Ends, host, services, accepting, tasks, clients, history
<1>15. ASSUME NEW c \in Clients, RespondFails(c) PROVE Sessioned'
  BY <1>15 DEF RespondFails, Ends, host, services, accepting, tasks, clients, history
<1>16. ASSUME NEW c \in Clients, Admit(c) PROVE Sessioned'
  BY <1>16 DEF Admit, Ends, host, services, accepting, tasks, clients, history
<1>17. CASE AcceptNothing
  BY <1>17 DEF AcceptNothing, host, services, accepting, tasks, clients, history
<1>18. CASE TakeSlot
  BY <1>18 DEF TakeSlot, host, services, accepting, tasks, clients, history
<1>19. CASE StopAccepting
  BY <1>19 DEF StopAccepting, Lose, host, services, accepting, tasks, clients, history
<1>20. CASE Rotate
  BY <1>20 DEF Rotate, host, services, accepting, tasks, clients, history
<1>21. CASE StopService
  BY <1>21 DEF StopService, Unpublish, host, services, accepting, tasks, clients, history
<1>22. CASE StartService
  BY <1>22 DEF StartService, host, services, accepting, tasks, clients, history
<1>23. CASE BeginClose
  BY <1>23 DEF BeginClose, Unpublish, host, services, accepting, tasks, clients, history
<1>24. CASE CloseEndpoint
  BY <1>24 DEF CloseEndpoint, Lose, host, services, accepting, tasks, clients, history
<1>25. CASE SignalLast
  BY <1>25 DEF SignalLast, host, services, accepting, tasks, clients, history
<1>26. CASE DropHandles
  BY <1>26 DEF DropHandles, host, services, accepting, tasks, clients, history
<1>27. CASE UNCHANGED vars
  BY <1>27 DEF vars, host, services, accepting, tasks, clients, history
<1> QED
  BY <1>1, <1>2, <1>3, <1>4, <1>5, <1>6, <1>7, <1>8, <1>9, <1>10, <1>11, <1>12, <1>13, <1>14, <1>15, <1>16, <1>17, <1>18, <1>19, <1>20, <1>21, <1>22, <1>23, <1>24, <1>25, <1>26, <1>27
  DEF Next, ClientNext, TaskNext, LoopNext, UserNext

\* The current token only grows.
LEMMA OutdatedStep == TypeOK /\ Attempts /\ Sessioned /\ Outdated /\ [Next]_vars => Outdated'
<1> SUFFICES ASSUME TypeOK, Attempts, Sessioned, Outdated, [Next]_vars PROVE Outdated'
  OBVIOUS
<1> USE BoundsAssumption DEF TypeOK, Attempts, Sessioned, Outdated, Sessions, None, Current
<1>1. ASSUME NEW c \in Clients, NEW t \in 0 .. MaxTokens, Connect(c, t) PROVE Outdated'
  BY <1>1 DEF Connect, host, services, accepting, tasks, clients, history
<1>2. ASSUME NEW c \in Clients, ConnectFails(c) PROVE Outdated'
  BY <1>2 DEF ConnectFails, Lose, host, services, accepting, tasks, clients, history
<1>3. ASSUME NEW c \in Clients, SendRequest(c) PROVE Outdated'
  BY <1>3 DEF SendRequest, host, services, accepting, tasks, clients, history
<1>4. ASSUME NEW c \in Clients, ReadAnswer(c) PROVE Outdated'
  BY <1>4 DEF ReadAnswer, Written, host, services, accepting, tasks, clients, history
<1>5. ASSUME NEW c \in Clients, SeeClose(c) PROVE Outdated'
  BY <1>5 DEF SeeClose, host, services, accepting, tasks, clients, history
<1>6. ASSUME NEW c \in Clients, GiveUp(c) PROVE Outdated'
  BY <1>6 DEF GiveUp, Lose, host, services, accepting, tasks, clients, history
<1>7. ASSUME NEW c \in Clients, Accept(c) PROVE Outdated'
  BY <1>7 DEF Accept, host, services, accepting, tasks, clients, history
<1>8. ASSUME NEW c \in Clients, Handshake(c) PROVE Outdated'
  BY <1>8 DEF Handshake, host, services, accepting, tasks, clients, history
<1>9. ASSUME NEW c \in Clients, HandshakeFails(c) PROVE Outdated'
  BY <1>9 DEF HandshakeFails, Ends, Lose, host, services, accepting, tasks, clients, history
<1>10. ASSUME NEW c \in Clients, ReadRequest(c) PROVE Outdated'
  BY <1>10 DEF ReadRequest, host, services, accepting, tasks, clients, history
<1>11. ASSUME NEW c \in Clients, ReadFails(c) PROVE Outdated'
  BY <1>11 DEF ReadFails, Ends, host, services, accepting, tasks, clients, history
<1>12. ASSUME NEW c \in Clients, ReadTimesOut(c) PROVE Outdated'
  BY <1>12 DEF ReadTimesOut, Ends, host, services, accepting, tasks, clients, history
<1>13. ASSUME NEW c \in Clients, Match(c) PROVE Outdated'
  BY <1>13 DEF Match, host, services, accepting, tasks, clients, history
<1>14. ASSUME NEW c \in Clients, Respond(c) PROVE Outdated'
  BY <1>14 DEF Respond, Ends, host, services, accepting, tasks, clients, history
<1>15. ASSUME NEW c \in Clients, RespondFails(c) PROVE Outdated'
  BY <1>15 DEF RespondFails, Ends, host, services, accepting, tasks, clients, history
<1>16. ASSUME NEW c \in Clients, Admit(c) PROVE Outdated'
  BY <1>16 DEF Admit, Ends, host, services, accepting, tasks, clients, history
<1>17. CASE AcceptNothing
  BY <1>17 DEF AcceptNothing, host, services, accepting, tasks, clients, history
<1>18. CASE TakeSlot
  BY <1>18 DEF TakeSlot, host, services, accepting, tasks, clients, history
<1>19. CASE StopAccepting
  BY <1>19 DEF StopAccepting, Lose, host, services, accepting, tasks, clients, history
<1>20. CASE Rotate
  BY <1>20 DEF Rotate, host, services, accepting, tasks, clients, history
<1>21. CASE StopService
  BY <1>21 DEF StopService, Unpublish, host, services, accepting, tasks, clients, history
<1>22. CASE StartService
  BY <1>22 DEF StartService, host, services, accepting, tasks, clients, history
<1>23. CASE BeginClose
  BY <1>23 DEF BeginClose, Unpublish, host, services, accepting, tasks, clients, history
<1>24. CASE CloseEndpoint
  BY <1>24 DEF CloseEndpoint, Lose, host, services, accepting, tasks, clients, history
<1>25. CASE SignalLast
  BY <1>25 DEF SignalLast, host, services, accepting, tasks, clients, history
<1>26. CASE DropHandles
  BY <1>26 DEF DropHandles, host, services, accepting, tasks, clients, history
<1>27. CASE UNCHANGED vars
  BY <1>27 DEF vars, host, services, accepting, tasks, clients, history
<1> QED
  BY <1>1, <1>2, <1>3, <1>4, <1>5, <1>6, <1>7, <1>8, <1>9, <1>10, <1>11, <1>12, <1>13, <1>14, <1>15, <1>16, <1>17, <1>18, <1>19, <1>20, <1>21, <1>22, <1>23, <1>24, <1>25, <1>26, <1>27
  DEF Next, ClientNext, TaskNext, LoopNext, UserNext

\* Whatever changes the service or its token excuses all attempts under way.
LEMMA UnexcusedStep == TypeOK /\ Attempts /\ Sessioned /\ Unexcused /\ [Next]_vars => Unexcused'
<1> SUFFICES ASSUME TypeOK, Attempts, Sessioned, Unexcused, [Next]_vars PROVE Unexcused'
  OBVIOUS
<1> USE BoundsAssumption DEF TypeOK, Attempts, Sessioned, Unexcused, Attempting, Sessions, None, Current
<1>1. ASSUME NEW c \in Clients, NEW t \in 0 .. MaxTokens, Connect(c, t) PROVE Unexcused'
  BY <1>1 DEF Connect, host, services, accepting, tasks, clients, history
<1>2. ASSUME NEW c \in Clients, ConnectFails(c) PROVE Unexcused'
  BY <1>2 DEF ConnectFails, Lose, host, services, accepting, tasks, clients, history
<1>3. ASSUME NEW c \in Clients, SendRequest(c) PROVE Unexcused'
  BY <1>3 DEF SendRequest, host, services, accepting, tasks, clients, history
<1>4. ASSUME NEW c \in Clients, ReadAnswer(c) PROVE Unexcused'
  BY <1>4 DEF ReadAnswer, Written, host, services, accepting, tasks, clients, history
<1>5. ASSUME NEW c \in Clients, SeeClose(c) PROVE Unexcused'
  BY <1>5 DEF SeeClose, host, services, accepting, tasks, clients, history
<1>6. ASSUME NEW c \in Clients, GiveUp(c) PROVE Unexcused'
  BY <1>6 DEF GiveUp, Lose, host, services, accepting, tasks, clients, history
<1>7. ASSUME NEW c \in Clients, Accept(c) PROVE Unexcused'
  BY <1>7 DEF Accept, host, services, accepting, tasks, clients, history
<1>8. ASSUME NEW c \in Clients, Handshake(c) PROVE Unexcused'
  BY <1>8 DEF Handshake, host, services, accepting, tasks, clients, history
<1>9. ASSUME NEW c \in Clients, HandshakeFails(c) PROVE Unexcused'
  BY <1>9 DEF HandshakeFails, Ends, Lose, host, services, accepting, tasks, clients, history
<1>10. ASSUME NEW c \in Clients, ReadRequest(c) PROVE Unexcused'
  BY <1>10 DEF ReadRequest, host, services, accepting, tasks, clients, history
<1>11. ASSUME NEW c \in Clients, ReadFails(c) PROVE Unexcused'
  BY <1>11 DEF ReadFails, Ends, host, services, accepting, tasks, clients, history
<1>12. ASSUME NEW c \in Clients, ReadTimesOut(c) PROVE Unexcused'
  BY <1>12 DEF ReadTimesOut, Ends, host, services, accepting, tasks, clients, history
<1>13. ASSUME NEW c \in Clients, Match(c) PROVE Unexcused'
  BY <1>13 DEF Match, host, services, accepting, tasks, clients, history
<1>14. ASSUME NEW c \in Clients, Respond(c) PROVE Unexcused'
  BY <1>14 DEF Respond, Ends, host, services, accepting, tasks, clients, history
<1>15. ASSUME NEW c \in Clients, RespondFails(c) PROVE Unexcused'
  BY <1>15 DEF RespondFails, Ends, host, services, accepting, tasks, clients, history
<1>16. ASSUME NEW c \in Clients, Admit(c) PROVE Unexcused'
  BY <1>16 DEF Admit, Ends, host, services, accepting, tasks, clients, history
<1>17. CASE AcceptNothing
  BY <1>17 DEF AcceptNothing, host, services, accepting, tasks, clients, history
<1>18. CASE TakeSlot
  BY <1>18 DEF TakeSlot, host, services, accepting, tasks, clients, history
<1>19. CASE StopAccepting
  BY <1>19 DEF StopAccepting, Lose, host, services, accepting, tasks, clients, history
<1>20. CASE Rotate
  BY <1>20 DEF Rotate, Attempting, host, services, accepting, tasks, clients, history
<1>21. CASE StopService
  BY <1>21 DEF StopService, Unpublish, Attempting, host, services, accepting, tasks, clients, history
<1>22. CASE StartService
  BY <1>22 DEF StartService, host, services, accepting, tasks, clients, history
<1>23. CASE BeginClose
  BY <1>23 DEF BeginClose, Unpublish, Attempting, host, services, accepting, tasks, clients, history
<1>24. CASE CloseEndpoint
  BY <1>24 DEF CloseEndpoint, Lose, host, services, accepting, tasks, clients, history
<1>25. CASE SignalLast
  BY <1>25 DEF SignalLast, host, services, accepting, tasks, clients, history
<1>26. CASE DropHandles
  BY <1>26 DEF DropHandles, host, services, accepting, tasks, clients, history
<1>27. CASE UNCHANGED vars
  BY <1>27 DEF vars, host, services, accepting, tasks, clients, history
<1> QED
  BY <1>1, <1>2, <1>3, <1>4, <1>5, <1>6, <1>7, <1>8, <1>9, <1>10, <1>11, <1>12, <1>13, <1>14, <1>15, <1>16, <1>17, <1>18, <1>19, <1>20, <1>21, <1>22, <1>23, <1>24, <1>25, <1>26, <1>27
  DEF Next, ClientNext, TaskNext, LoopNext, UserNext

\* A rejection is read from an answer or a close code.
LEMMA RejectionsStep == TypeOK /\ Unexcused /\ RejectionsHaveCause /\ [Next]_vars => RejectionsHaveCause'
<1> SUFFICES ASSUME TypeOK, Unexcused, RejectionsHaveCause, [Next]_vars PROVE RejectionsHaveCause'
  OBVIOUS
<1> USE BoundsAssumption DEF TypeOK, Unexcused, Attempting, RejectionsHaveCause
<1>1. ASSUME NEW c \in Clients, NEW t \in 0 .. MaxTokens, Connect(c, t) PROVE RejectionsHaveCause'
  BY <1>1 DEF Connect, host, services, accepting, tasks, clients, history
<1>2. ASSUME NEW c \in Clients, ConnectFails(c) PROVE RejectionsHaveCause'
  BY <1>2 DEF ConnectFails, Lose, host, services, accepting, tasks, clients, history
<1>3. ASSUME NEW c \in Clients, SendRequest(c) PROVE RejectionsHaveCause'
  BY <1>3 DEF SendRequest, host, services, accepting, tasks, clients, history
<1>4. ASSUME NEW c \in Clients, ReadAnswer(c) PROVE RejectionsHaveCause'
  BY <1>4 DEF ReadAnswer, Written, host, services, accepting, tasks, clients, history
<1>5. ASSUME NEW c \in Clients, SeeClose(c) PROVE RejectionsHaveCause'
  BY <1>5 DEF SeeClose, host, services, accepting, tasks, clients, history
<1>6. ASSUME NEW c \in Clients, GiveUp(c) PROVE RejectionsHaveCause'
  BY <1>6 DEF GiveUp, Lose, host, services, accepting, tasks, clients, history
<1>7. ASSUME NEW c \in Clients, Accept(c) PROVE RejectionsHaveCause'
  BY <1>7 DEF Accept, host, services, accepting, tasks, clients, history
<1>8. ASSUME NEW c \in Clients, Handshake(c) PROVE RejectionsHaveCause'
  BY <1>8 DEF Handshake, host, services, accepting, tasks, clients, history
<1>9. ASSUME NEW c \in Clients, HandshakeFails(c) PROVE RejectionsHaveCause'
  BY <1>9 DEF HandshakeFails, Ends, Lose, host, services, accepting, tasks, clients, history
<1>10. ASSUME NEW c \in Clients, ReadRequest(c) PROVE RejectionsHaveCause'
  BY <1>10 DEF ReadRequest, host, services, accepting, tasks, clients, history
<1>11. ASSUME NEW c \in Clients, ReadFails(c) PROVE RejectionsHaveCause'
  BY <1>11 DEF ReadFails, Ends, host, services, accepting, tasks, clients, history
<1>12. ASSUME NEW c \in Clients, ReadTimesOut(c) PROVE RejectionsHaveCause'
  BY <1>12 DEF ReadTimesOut, Ends, host, services, accepting, tasks, clients, history
<1>13. ASSUME NEW c \in Clients, Match(c) PROVE RejectionsHaveCause'
  BY <1>13 DEF Match, host, services, accepting, tasks, clients, history
<1>14. ASSUME NEW c \in Clients, Respond(c) PROVE RejectionsHaveCause'
  BY <1>14 DEF Respond, Ends, host, services, accepting, tasks, clients, history
<1>15. ASSUME NEW c \in Clients, RespondFails(c) PROVE RejectionsHaveCause'
  BY <1>15 DEF RespondFails, Ends, host, services, accepting, tasks, clients, history
<1>16. ASSUME NEW c \in Clients, Admit(c) PROVE RejectionsHaveCause'
  BY <1>16 DEF Admit, Ends, host, services, accepting, tasks, clients, history
<1>17. CASE AcceptNothing
  BY <1>17 DEF AcceptNothing, host, services, accepting, tasks, clients, history
<1>18. CASE TakeSlot
  BY <1>18 DEF TakeSlot, host, services, accepting, tasks, clients, history
<1>19. CASE StopAccepting
  BY <1>19 DEF StopAccepting, Lose, host, services, accepting, tasks, clients, history
<1>20. CASE Rotate
  BY <1>20 DEF Rotate, Attempting, host, services, accepting, tasks, clients, history
<1>21. CASE StopService
  BY <1>21 DEF StopService, Unpublish, Attempting, host, services, accepting, tasks, clients, history
<1>22. CASE StartService
  BY <1>22 DEF StartService, host, services, accepting, tasks, clients, history
<1>23. CASE BeginClose
  BY <1>23 DEF BeginClose, Unpublish, Attempting, host, services, accepting, tasks, clients, history
<1>24. CASE CloseEndpoint
  BY <1>24 DEF CloseEndpoint, Lose, host, services, accepting, tasks, clients, history
<1>25. CASE SignalLast
  BY <1>25 DEF SignalLast, host, services, accepting, tasks, clients, history
<1>26. CASE DropHandles
  BY <1>26 DEF DropHandles, host, services, accepting, tasks, clients, history
<1>27. CASE UNCHANGED vars
  BY <1>27 DEF vars, host, services, accepting, tasks, clients, history
<1> QED
  BY <1>1, <1>2, <1>3, <1>4, <1>5, <1>6, <1>7, <1>8, <1>9, <1>10, <1>11, <1>12, <1>13, <1>14, <1>15, <1>16, <1>17, <1>18, <1>19, <1>20, <1>21, <1>22, <1>23, <1>24, <1>25, <1>26, <1>27
  DEF Next, ClientNext, TaskNext, LoopNext, UserNext

\* A client that leaves takes its connection with it, and an answer is read after the
\* request.
LEMMA TendedStep == TypeOK /\ Attempts /\ Tended /\ [Next]_vars => Tended'
<1> SUFFICES ASSUME TypeOK, Attempts, Tended, [Next]_vars PROVE Tended'
  OBVIOUS
<1> USE DEF TypeOK, Attempts, Tended
<1>1. ASSUME NEW c \in Clients, NEW t \in 0 .. MaxTokens, Connect(c, t) PROVE Tended'
  BY <1>1 DEF Connect, host, services, accepting, tasks, clients, history
<1>2. ASSUME NEW c \in Clients, ConnectFails(c) PROVE Tended'
  BY <1>2 DEF ConnectFails, Lose, host, services, accepting, tasks, clients, history
<1>3. ASSUME NEW c \in Clients, SendRequest(c) PROVE Tended'
  BY <1>3 DEF SendRequest, host, services, accepting, tasks, clients, history
<1>4. ASSUME NEW c \in Clients, ReadAnswer(c) PROVE Tended'
  BY <1>4 DEF ReadAnswer, Written, host, services, accepting, tasks, clients, history
<1>5. ASSUME NEW c \in Clients, SeeClose(c) PROVE Tended'
  BY <1>5 DEF SeeClose, host, services, accepting, tasks, clients, history
<1>6. ASSUME NEW c \in Clients, GiveUp(c) PROVE Tended'
  BY <1>6 DEF GiveUp, Lose, host, services, accepting, tasks, clients, history
<1>7. ASSUME NEW c \in Clients, Accept(c) PROVE Tended'
  BY <1>7 DEF Accept, host, services, accepting, tasks, clients, history
<1>8. ASSUME NEW c \in Clients, Handshake(c) PROVE Tended'
  BY <1>8 DEF Handshake, host, services, accepting, tasks, clients, history
<1>9. ASSUME NEW c \in Clients, HandshakeFails(c) PROVE Tended'
  BY <1>9 DEF HandshakeFails, Ends, Lose, host, services, accepting, tasks, clients, history
<1>10. ASSUME NEW c \in Clients, ReadRequest(c) PROVE Tended'
  BY <1>10 DEF ReadRequest, host, services, accepting, tasks, clients, history
<1>11. ASSUME NEW c \in Clients, ReadFails(c) PROVE Tended'
  BY <1>11 DEF ReadFails, Ends, host, services, accepting, tasks, clients, history
<1>12. ASSUME NEW c \in Clients, ReadTimesOut(c) PROVE Tended'
  BY <1>12 DEF ReadTimesOut, Ends, host, services, accepting, tasks, clients, history
<1>13. ASSUME NEW c \in Clients, Match(c) PROVE Tended'
  BY <1>13 DEF Match, host, services, accepting, tasks, clients, history
<1>14. ASSUME NEW c \in Clients, Respond(c) PROVE Tended'
  BY <1>14 DEF Respond, Ends, host, services, accepting, tasks, clients, history
<1>15. ASSUME NEW c \in Clients, RespondFails(c) PROVE Tended'
  BY <1>15 DEF RespondFails, Ends, host, services, accepting, tasks, clients, history
<1>16. ASSUME NEW c \in Clients, Admit(c) PROVE Tended'
  BY <1>16 DEF Admit, Ends, host, services, accepting, tasks, clients, history
<1>17. CASE AcceptNothing
  BY <1>17 DEF AcceptNothing, host, services, accepting, tasks, clients, history
<1>18. CASE TakeSlot
  BY <1>18 DEF TakeSlot, host, services, accepting, tasks, clients, history
<1>19. CASE StopAccepting
  BY <1>19 DEF StopAccepting, Lose, host, services, accepting, tasks, clients, history
<1>20. CASE Rotate
  BY <1>20 DEF Rotate, Attempting, host, services, accepting, tasks, clients, history
<1>21. CASE StopService
  BY <1>21 DEF StopService, Unpublish, Attempting, host, services, accepting, tasks, clients, history
<1>22. CASE StartService
  BY <1>22 DEF StartService, host, services, accepting, tasks, clients, history
<1>23. CASE BeginClose
  BY <1>23 DEF BeginClose, Unpublish, Attempting, host, services, accepting, tasks, clients, history
<1>24. CASE CloseEndpoint
  BY <1>24 DEF CloseEndpoint, Lose, host, services, accepting, tasks, clients, history
<1>25. CASE SignalLast
  BY <1>25 DEF SignalLast, host, services, accepting, tasks, clients, history
<1>26. CASE DropHandles
  BY <1>26 DEF DropHandles, host, services, accepting, tasks, clients, history
<1>27. CASE UNCHANGED vars
  BY <1>27 DEF vars, host, services, accepting, tasks, clients, history
<1> QED
  BY <1>1, <1>2, <1>3, <1>4, <1>5, <1>6, <1>7, <1>8, <1>9, <1>10, <1>11, <1>12, <1>13, <1>14, <1>15, <1>16, <1>17, <1>18, <1>19, <1>20, <1>21, <1>22, <1>23, <1>24, <1>25, <1>26, <1>27
  DEF Next, ClientNext, TaskNext, LoopNext, UserNext

\* A single host signals, a node loses its handles or its endpoint, before the loop ends.
LEMMA EndingStep == TypeOK /\ Attempts /\ Tended /\ Ending /\ [Next]_vars => Ending'
<1> SUFFICES ASSUME TypeOK, Attempts, Tended, Ending, [Next]_vars PROVE Ending'
  OBVIOUS
<1> USE KindsAssumption DEF TypeOK, Attempts, Tended, Ending, NodeGone, ShutdownSeen
<1>1. ASSUME NEW c \in Clients, NEW t \in 0 .. MaxTokens, Connect(c, t) PROVE Ending'
  BY <1>1 DEF Connect, host, services, accepting, tasks, clients, history
<1>2. ASSUME NEW c \in Clients, ConnectFails(c) PROVE Ending'
  BY <1>2 DEF ConnectFails, Lose, host, services, accepting, tasks, clients, history
<1>3. ASSUME NEW c \in Clients, SendRequest(c) PROVE Ending'
  BY <1>3 DEF SendRequest, host, services, accepting, tasks, clients, history
<1>4. ASSUME NEW c \in Clients, ReadAnswer(c) PROVE Ending'
  BY <1>4 DEF ReadAnswer, Written, host, services, accepting, tasks, clients, history
<1>5. ASSUME NEW c \in Clients, SeeClose(c) PROVE Ending'
  BY <1>5 DEF SeeClose, host, services, accepting, tasks, clients, history
<1>6. ASSUME NEW c \in Clients, GiveUp(c) PROVE Ending'
  BY <1>6 DEF GiveUp, Lose, host, services, accepting, tasks, clients, history
<1>7. ASSUME NEW c \in Clients, Accept(c) PROVE Ending'
  BY <1>7 DEF Accept, host, services, accepting, tasks, clients, history
<1>8. ASSUME NEW c \in Clients, Handshake(c) PROVE Ending'
  BY <1>8 DEF Handshake, host, services, accepting, tasks, clients, history
<1>9. ASSUME NEW c \in Clients, HandshakeFails(c) PROVE Ending'
  BY <1>9 DEF HandshakeFails, Ends, Lose, host, services, accepting, tasks, clients, history
<1>10. ASSUME NEW c \in Clients, ReadRequest(c) PROVE Ending'
  BY <1>10 DEF ReadRequest, host, services, accepting, tasks, clients, history
<1>11. ASSUME NEW c \in Clients, ReadFails(c) PROVE Ending'
  BY <1>11 DEF ReadFails, Ends, host, services, accepting, tasks, clients, history
<1>12. ASSUME NEW c \in Clients, ReadTimesOut(c) PROVE Ending'
  BY <1>12 DEF ReadTimesOut, Ends, host, services, accepting, tasks, clients, history
<1>13. ASSUME NEW c \in Clients, Match(c) PROVE Ending'
  BY <1>13 DEF Match, host, services, accepting, tasks, clients, history
<1>14. ASSUME NEW c \in Clients, Respond(c) PROVE Ending'
  BY <1>14 DEF Respond, Ends, host, services, accepting, tasks, clients, history
<1>15. ASSUME NEW c \in Clients, RespondFails(c) PROVE Ending'
  BY <1>15 DEF RespondFails, Ends, host, services, accepting, tasks, clients, history
<1>16. ASSUME NEW c \in Clients, Admit(c) PROVE Ending'
  BY <1>16 DEF Admit, Ends, host, services, accepting, tasks, clients, history
<1>17. CASE AcceptNothing
  BY <1>17 DEF AcceptNothing, host, services, accepting, tasks, clients, history
<1>18. CASE TakeSlot
  BY <1>18 DEF TakeSlot, host, services, accepting, tasks, clients, history
<1>19. CASE StopAccepting
  BY <1>19 DEF StopAccepting, Lose, host, services, accepting, tasks, clients, history
<1>20. CASE Rotate
  BY <1>20 DEF Rotate, Attempting, host, services, accepting, tasks, clients, history
<1>21. CASE StopService
  BY <1>21 DEF StopService, Unpublish, Attempting, host, services, accepting, tasks, clients, history
<1>22. CASE StartService
  BY <1>22 DEF StartService, host, services, accepting, tasks, clients, history
<1>23. CASE BeginClose
  BY <1>23 DEF BeginClose, Unpublish, Attempting, host, services, accepting, tasks, clients, history
<1>24. CASE CloseEndpoint
  BY <1>24 DEF CloseEndpoint, Lose, host, services, accepting, tasks, clients, history
<1>25. CASE SignalLast
  BY <1>25 DEF SignalLast, host, services, accepting, tasks, clients, history
<1>26. CASE DropHandles
  BY <1>26 DEF DropHandles, host, services, accepting, tasks, clients, history
<1>27. CASE UNCHANGED vars
  BY <1>27 DEF vars, host, services, accepting, tasks, clients, history
<1> QED
  BY <1>1, <1>2, <1>3, <1>4, <1>5, <1>6, <1>7, <1>8, <1>9, <1>10, <1>11, <1>12, <1>13, <1>14, <1>15, <1>16, <1>17, <1>18, <1>19, <1>20, <1>21, <1>22, <1>23, <1>24, <1>25, <1>26, <1>27
  DEF Next, ClientNext, TaskNext, LoopNext, UserNext

-----------------------------------------------------------------------------
(* Theorems *)

\* IInv is an inductive invariant of both hosts.
THEOREM Inductive == Spec => []IInv
<1>1. Init => IInv
  <2> SUFFICES ASSUME Init PROVE IInv
    OBVIOUS
  <2> USE BoundsAssumption DEF Init, Sessions, None, Current
  <2>1. TypeOK
    <3>1. token \in [Sessions -> 0 .. MaxTokens]
      OBVIOUS
    <3>2. handles \in BOOLEAN /\ signalled \in BOOLEAN
      OBVIOUS
    <3>3. /\ task \in [Clients -> TaskPcs] /\ found \in [Clients -> 0 .. MaxSessions]
          /\ answer \in [Clients -> {"none", "ok", "no"}]
          /\ conn \in [Clients -> Conns] /\ client \in [Clients -> ClientPcs]
          /\ offer \in [Clients -> 0 .. MaxTokens]
      BY DEF TaskPcs, Conns, ClientPcs
    <3> QED BY <3>1, <3>2, <3>3 DEF TypeOK, ClosingPcs
  <2>2. Attempts /\ Sessioned /\ Outdated /\ Unexcused /\ RejectionsHaveCause
    BY DEF Attempts, Sessioned, Outdated, Unexcused, RejectionsHaveCause, Attempting
  <2>3. Tended /\ Ending
    BY DEF Tended, Ending
  <2> QED BY <2>1, <2>2, <2>3 DEF IInv
<1>2. IInv /\ [Next]_vars => IInv'
  BY TypeStep, AttemptsStep, SessionedStep, OutdatedStep, UnexcusedStep, RejectionsStep,
     TendedStep, EndingStep
  DEF IInv
<1> QED BY <1>1, <1>2, PTL DEF Spec

\* Type correctness of both hosts and their clients.
THEOREM TypeCorrect == Spec => []TypeOK
<1>1. IInv => TypeOK
  BY DEF IInv
<1> QED BY <1>1, Inductive, PTL

\* A token that was replaced before a client connected does not let it in.
THEOREM NewTokenIsNeeded == Spec => []NewConnectionsNeedNewToken
<1>1. IInv => NewConnectionsNeedNewToken
  BY DEF IInv, TypeOK, Outdated, NewConnectionsNeedNewToken
<1> QED BY <1>1, Inductive, PTL

\* No client is told that its token is bad without a cause.
THEOREM RejectionsAreCaused == Spec => []RejectionsHaveCause
<1>1. IInv => RejectionsHaveCause
  BY DEF IInv
<1> QED BY <1>1, Inductive, PTL

-----------------------------------------------------------------------------
(* Nobody waits for ever on a step that cannot come *)

\* The steps that need nobody's decision: those of the accept loop, of a close that has
\* begun and of a task.  No client has to do anything.
LoopProceeds ==
  /\ loop # "ended"
  /\ \/ ShutdownSeen
     \/ loop = "waiting" /\ Cardinality(Busy) < Slots /\ ~NodeGone
     \/ loop = "accepting" /\ \E c \in Clients : conn[c] = "offered" /\ task[c] = "none"

CloseProceeds == closing \in {"endpoint", "signal"}

TaskProceeds(c) ==
  \/ task[c] \in {"handshake", "matching", "answering", "admitting"}
  \/ /\ task[c] = "reading"
     /\ conn[c] # "open" \/ client[c] = "awaiting" \/ kind = "single"

Proceeding == LoopProceeds \/ CloseProceeds \/ \E c \in Clients : TaskProceeds(c)

\* A host that is closed has ended, or has a step to take towards its end; one that is
\* dropped has so too, or a client that stays holds it up.
EndingProceeds ==
  /\ closing # "no" => Ended \/ Proceeding
  /\ ~handles => Ended \/ Proceeding \/ \E c \in Clients : Stays(c)

\* Nor does a connection wait for its turn in a host where nothing goes on, unless
\* clients that stay have every slot.
OffersProceed == (\E c \in Clients : conn[c] = "offered") => Proceeding \/ Blocked

\* A task that has not ended goes on, unless its client stays and sends no request.
LEMMA BusyProceeds ==
  ASSUME TypeOK, Tended, NEW c \in Busy, ~TaskProceeds(c)
  PROVE  Stays(c)
<1>1. c \in Clients /\ task[c] \in TaskPcs \ {"none", "ended"}
  BY DEF Busy, TypeOK
<1>2. task[c] = "reading" /\ conn[c] = "open" /\ client[c] # "awaiting" /\ kind # "single"
  BY <1>1 DEF TaskPcs, TaskProceeds
<1>3. client[c] = "sending"
  BY <1>1, <1>2 DEF Tended
<1>4. kind = "node"
  BY <1>2, KindsAssumption DEF TypeOK
<1> QED BY <1>2, <1>3, <1>4 DEF Stays

\* Slots that are taken have takers.
LEMMA FullIsBusy == ~(Cardinality(Busy) < Slots) => Busy # {}
<1>1. Cardinality({}) = 0
  BY FS_EmptySet
<1> QED BY <1>1, SlotsAssumption

\* A host that is closed is never stuck on its way to the end, whatever its clients do:
\* while its accept loop, its endpoint or a task is left, the loop, the close or a task
\* has a step that nobody has to decide on.  One that is dropped is stuck only on a
\* client that stays.  This is the safety part of HostEnds.
THEOREM EndingIsNeverStuck == Spec => []EndingProceeds
<1>1. IInv => EndingProceeds
  <2> SUFFICES ASSUME IInv, closing # "no" \/ ~handles, ~Proceeding, ~Ended
               PROVE  closing = "no" /\ \E c \in Clients : Stays(c)
    BY DEF EndingProceeds
  <2>1. closing \in {"no", "done"}
    BY DEF IInv, TypeOK, ClosingPcs, CloseProceeds, Proceeding
  <2>2. closing = "done" => endpoint = "closed" /\ signalled
    BY DEF IInv, Ending
  <2>3. \A c \in Busy : Stays(c)
    BY BusyProceeds DEF IInv, Proceeding, Busy
  <2>4. Busy # {}
    <3> SUFFICES ASSUME Busy = {} PROVE FALSE
      OBVIOUS
    <3>1. ShutdownSeen
      BY <2>1, <2>2, KindsAssumption DEF IInv, TypeOK, Ending, ShutdownSeen, NodeGone
    <3>2. loop = "ended"
      BY <3>1 DEF Proceeding, LoopProceeds
    <3> QED BY <2>1, <3>2 DEF IInv, Ending, Ended
  <2>5. PICK c \in Clients : Stays(c)
    BY <2>3, <2>4 DEF Busy
  <2>6. closing # "done"
    BY <2>2, <2>5 DEF IInv, Ending, Stays
  <2> QED BY <2>1, <2>5, <2>6
<1> QED BY <1>1, Inductive, PTL

\* A connection that waits to be taken never waits in a host where nothing can go on,
\* but for slots that are all with clients that stay: of whatever else fills them, one
\* has a step of its own, and an accept loop that has ended has closed its endpoint, or
\* a close is about to.  This is the safety part of EveryOfferTaken.
THEOREM OffersAreNeverStuck == Spec => []OffersProceed
<1>1. IInv => OffersProceed
  <2> SUFFICES ASSUME IInv, NEW c \in Clients, conn[c] = "offered", ~Proceeding
               PROVE  Blocked
    BY DEF OffersProceed
  <2>1. loop # "ended"
    BY DEF IInv, TypeOK, Ending, CloseProceeds, Proceeding
  <2>2. task[c] = "none"
    BY DEF IInv, TypeOK, Tended, Proceeding, TaskProceeds
  <2>3. loop = "waiting"
    BY <2>1, <2>2 DEF IInv, TypeOK, Proceeding, LoopProceeds
  <2>4. ~ShutdownSeen
    BY <2>1 DEF Proceeding, LoopProceeds
  <2>5. ~(Cardinality(Busy) < Slots)
    BY <2>1, <2>3, <2>4 DEF Proceeding, LoopProceeds, ShutdownSeen
  <2>6. \A b \in Busy : Stays(b)
    BY BusyProceeds DEF IInv, Proceeding, Busy
  <2>7. Busy = {b \in Clients : Stays(b)}
    BY <2>6 DEF Busy, Stays
  <2> QED BY <2>5, <2>7 DEF Blocked
<1> QED BY <1>1, Inductive, PTL

\* How many steps an accept loop, a task and a client have left at most.
LoopLeft(pc) == CASE pc = "waiting" -> 2 [] pc = "accepting" -> 1 [] OTHER -> 0

TaskLeft(pc) ==
  CASE pc = "none" -> 6
    [] pc = "handshake" -> 5
    [] pc = "reading" -> 4
    [] pc = "matching" -> 3
    [] pc = "answering" -> 2
    [] pc = "admitting" -> 1
    [] OTHER -> 0

ClientLeft(pc) ==
  CASE pc = "connecting" -> 3 [] pc = "sending" -> 2 [] pc = "awaiting" -> 1 [] OTHER -> 0

\* Over a closed endpoint everything runs down, and no task begins but that of the
\* connection that is held for a slot.
RunsDown ==
  [][endpoint = "closed" =>
       /\ endpoint' = "closed"
       /\ loop' = loop \/ LoopLeft(loop') < LoopLeft(loop)
       /\ \A c \in Clients :
            /\ task'[c] = task[c] \/ TaskLeft(task'[c]) < TaskLeft(task[c])
            /\ task'[c] # task[c] /\ task[c] = "none" => loop = "waiting" /\ held = c
            /\ client'[c] = client[c] \/ ClientLeft(client'[c]) < ClientLeft(client[c])]_vars

\* A close is final: once the endpoint is closed it stays so, and the accept loop, every
\* task and every client only go forward, through a number of places that does not
\* depend on what else happens; the loop takes no connection, although the user may
\* still publish (close and drop of iroh/node.rs and iroh/mod.rs).  With
\* EndingIsNeverStuck: everything ends.
THEOREM CloseIsFinal == Spec => RunsDown
<1> DEFINE Final ==
             endpoint = "closed" =>
               /\ endpoint' = "closed"
               /\ loop' = loop \/ LoopLeft(loop') < LoopLeft(loop)
               /\ \A c \in Clients :
                    /\ task'[c] = task[c] \/ TaskLeft(task'[c]) < TaskLeft(task[c])
                    /\ task'[c] # task[c] /\ task[c] = "none" => loop = "waiting" /\ held = c
                    /\ client'[c] = client[c] \/ ClientLeft(client'[c]) < ClientLeft(client[c])
<1>1. ASSUME IInv, [Next]_vars PROVE [Final]_vars
  <2> SUFFICES ASSUME endpoint = "closed" PROVE Final
    OBVIOUS
  <2>0. TypeOK /\ Attempts /\ Ending
    BY <1>1 DEF IInv
  <2> USE DEF LoopLeft, TaskLeft, ClientLeft
  <2>1. ASSUME NEW c \in Clients, NEW t \in 0 .. MaxTokens, Connect(c, t) PROVE Final
    BY <2>0, <2>1 DEF Connect, host, accepting, tasks, clients, TypeOK
  <2>2. ASSUME NEW c \in Clients, ConnectFails(c) PROVE Final
    BY <2>0, <2>2 DEF ConnectFails, Lose, host, accepting, tasks, clients, TypeOK
  <2>3. ASSUME NEW c \in Clients, SendRequest(c) PROVE Final
    BY <2>0, <2>3 DEF SendRequest, host, accepting, tasks, clients, TypeOK
  <2>4. ASSUME NEW c \in Clients, ReadAnswer(c) PROVE Final
    BY <2>0, <2>4 DEF ReadAnswer, Written, host, accepting, tasks, clients, TypeOK
  <2>5. ASSUME NEW c \in Clients, SeeClose(c) PROVE Final
    BY <2>0, <2>5 DEF SeeClose, host, accepting, tasks, clients, TypeOK
  <2>6. ASSUME NEW c \in Clients, GiveUp(c) PROVE Final
    BY <2>0, <2>6 DEF GiveUp, Lose, host, accepting, tasks, clients, TypeOK
  <2>7. ASSUME NEW c \in Clients, Accept(c) PROVE Final
    BY <2>0, <2>7 DEF Accept, Ending
  <2>8. ASSUME NEW c \in Clients, Handshake(c) PROVE Final
    BY <2>0, <2>8 DEF Handshake, Ending
  <2>9. ASSUME NEW c \in Clients, HandshakeFails(c) PROVE Final
    BY <2>0, <2>9 DEF HandshakeFails, Ends, Lose, host, accepting, tasks, clients, TypeOK
  <2>10. ASSUME NEW c \in Clients, ReadRequest(c) PROVE Final
    BY <2>0, <2>10 DEF ReadRequest, host, accepting, tasks, clients, TypeOK
  <2>11. ASSUME NEW c \in Clients, ReadFails(c) PROVE Final
    BY <2>0, <2>11 DEF ReadFails, Ends, host, accepting, tasks, clients, TypeOK
  <2>12. ASSUME NEW c \in Clients, ReadTimesOut(c) PROVE Final
    BY <2>0, <2>12 DEF ReadTimesOut, Ends, host, accepting, tasks, clients, TypeOK
  <2>13. ASSUME NEW c \in Clients, Match(c) PROVE Final
    BY <2>0, <2>13 DEF Match, host, accepting, tasks, clients, TypeOK
  <2>14. ASSUME NEW c \in Clients, Respond(c) PROVE Final
    BY <2>0, <2>14 DEF Respond, Ends, host, accepting, tasks, clients, TypeOK
  <2>15. ASSUME NEW c \in Clients, RespondFails(c) PROVE Final
    BY <2>0, <2>15 DEF RespondFails, Ends, host, accepting, tasks, clients, TypeOK
  <2>16. ASSUME NEW c \in Clients, Admit(c) PROVE Final
    BY <2>0, <2>16 DEF Admit, Ends, host, accepting, tasks, clients, TypeOK
  <2>17. CASE AcceptNothing
    BY <2>0, <2>17 DEF AcceptNothing, host, accepting, tasks, clients, TypeOK
  <2>18. CASE TakeSlot
    BY <2>0, <2>18 DEF TakeSlot, Attempts, host, accepting, tasks, clients, TypeOK
  <2>19. CASE StopAccepting
    BY <2>0, <2>19 DEF StopAccepting, Lose, host, accepting, tasks, clients, TypeOK
  <2>20. CASE UserNext
    <3>1. UNCHANGED <<loop, task, client>>
      BY <2>20 DEF UserNext, Rotate, StopService, StartService, BeginClose, CloseEndpoint,
         SignalLast, DropHandles, accepting, tasks, clients
    <3>2. endpoint' = "closed"
      BY <2>20 DEF UserNext, Rotate, StopService, StartService, BeginClose, CloseEndpoint,
         SignalLast, DropHandles, host
    <3> QED BY <3>1, <3>2
  <2>21. CASE UNCHANGED vars
    BY <2>21 DEF vars, host, accepting, tasks, clients
  <2> QED
    BY <1>1, <2>1, <2>2, <2>3, <2>4, <2>5, <2>6, <2>7, <2>8, <2>9, <2>10, <2>11, <2>12, <2>13,
       <2>14, <2>15, <2>16, <2>17, <2>18, <2>19, <2>20, <2>21
    DEF Next, ClientNext, TaskNext, LoopNext
<1> QED BY <1>1, Inductive, PTL DEF Spec, RunsDown
=============================================================================
