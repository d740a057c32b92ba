------------------------------ MODULE Admission ------------------------------
(***************************************************************************)
(* How a host admits connections: the accept loop with its slots for       *)
(* connections that are not admitted yet, and the one request and one      *)
(* answer of the control stream (iroh/auth.rs).  There are two hosts.      *)
(*                                                                         *)
(* A NODE (node_accept_loop, route_connection in iroh/node.rs) looks the   *)
(* service of a request up and compares its current token.  It can rotate  *)
(* that token, stop the service and publish it again at any time.  A       *)
(* SINGLE host (host_accept_loop in iroh/host.rs, IrohTunnel in            *)
(* iroh/mod.rs) has one service and one token, and gives a client          *)
(* AUTH_TIMEOUT to send its request; the node waits as long as the client  *)
(* stays connected.                                                        *)
(*                                                                         *)
(* A client makes one attempt (connect_with_retry, reconnect_once in       *)
(* iroh/join.rs); a retry is another client.  It has a Join URI with a     *)
(* token, or with no token at all for one that names another service.  A   *)
(* service is published again under its last token or under a new one.     *)
(*                                                                         *)
(* What is registered for an admitted connection, and when the service is  *)
(* full, is the business of module HostSessions.  Streams after the first  *)
(* and requests of another version, which no client here sends, are        *)
(* answered like a wrong token.                                            *)
(***************************************************************************)
EXTENDS Naturals, FiniteSets

CONSTANTS
  Kinds,        \* The kinds of host: "node", "single", or both.
  Clients,      \* Attempts to connect.
  NoClient,
  Slots,        \* unauthenticated_connections_max, CONNECTION_TASKS_MAX
  MaxTokens,    \* Bound on tokens generated.
  MaxSessions   \* Bound on publications of the service.

ASSUME KindsAssumption == Kinds \subseteq {"node", "single"}
ASSUME ClientsAssumption == NoClient \notin Clients
ASSUME SlotsAssumption == Slots \in Nat \ {0}
ASSUME BoundsAssumption == MaxTokens \in Nat \ {0} /\ MaxSessions \in Nat \ {0}

VARIABLES
  kind,       \* The kind of the host.
  handles,    \* Whether the user still has a handle of it.
  closing,    \* Where the call of close is.
  signalled,  \* close or drop has sent `shutdown'.
  endpoint,   \* The QUIC endpoint.
  sessions,   \* How often the service has been published.
  service,    \* The session that is published, or 0.
  token,      \* The token of each session.
  loop,       \* Where the accept loop is.
  held,       \* The connection for which it waits for a slot.
  task,       \* Where the task of each connection is.
  found,      \* The session the task has looked up and will compare the token of.
  answer,     \* The answer decided on, or written.
  conn,       \* The connection of each client, and why the host closed it.
  client,     \* Where the client is.
  offer,      \* The token of the client's Join URI.
  outdated,   \* History: clients that connected with a token replaced before.
  excuse      \* History: clients the host has had a reason to turn away.

host == <<kind, handles, closing, signalled, endpoint>>
services == <<sessions, service, token>>
accepting == <<loop, held>>
tasks == <<task, found, answer>>
clients == <<conn, client, offer>>
history == <<outdated, excuse>>

vars == <<host, services, accepting, tasks, clients, history>>

-----------------------------------------------------------------------------
(* Types and helpers *)

Sessions == 1 .. MaxSessions
None == 0

ClosingPcs == {"no", "endpoint", "signal", "done"}
TaskPcs == {"none", "handshake", "reading", "matching", "answering", "admitting", "ended"}
Conns == {"none", "offered", "open", "authFailed", "full", "lost"}
ClientPcs == {"idle", "connecting", "sending", "awaiting",
              "joined", "rejected", "turnedAway", "failed"}

\* A task owns its permit from its first step to its last.
Busy == {c \in Clients : task[c] \notin {"none", "ended"}}

\* Every task of a node holds the node; a single host is not held by its tasks.
NodeGone == kind = "node" /\ ~handles /\ Busy = {}

\* wait_for_shutdown: the value is true, or its sender has been dropped.
ShutdownSeen == signalled \/ NodeGone

\* Sessions take over the token of the one before or a new one, and tokens are
\* numbered as they are generated, so this is also the newest token.
Current == token[sessions]

Attempting == {c \in Clients : client[c] \in {"connecting", "sending", "awaiting"}}

\* The answer is on its way to the client.
Written(c) == answer[c] # "none" /\ task[c] \in {"admitting", "ended"}

\* What becomes of the connections in a set when this end closes them for no
\* reason that a client is told of.
Lose(S) ==
  conn' = [c \in Clients |->
             IF c \in S /\ conn[c] \in {"offered", "open"} THEN "lost" ELSE conn[c]]

TypeOK ==
  /\ kind \in Kinds
  /\ handles \in BOOLEAN
  /\ closing \in ClosingPcs
  /\ signalled \in BOOLEAN
  /\ endpoint \in {"open", "closed"}
  /\ sessions \in Sessions
  /\ service \in 0 .. MaxSessions
  /\ token \in [Sessions -> 0 .. MaxTokens]
  /\ loop \in {"accepting", "waiting", "ended"}
  /\ held \in Clients \cup {NoClient}
  /\ task \in [Clients -> TaskPcs]
  /\ found \in [Clients -> 0 .. MaxSessions]
  /\ answer \in [Clients -> {"none", "ok", "no"}]
  /\ conn \in [Clients -> Conns]
  /\ client \in [Clients -> ClientPcs]
  /\ offer \in [Clients -> 0 .. MaxTokens]
  /\ outdated \subseteq Clients
  /\ excuse \subseteq Clients

\* A host that has published its service.
Init ==
  /\ kind \in Kinds
  /\ handles = TRUE
  /\ closing = "no"
  /\ signalled = FALSE
  /\ endpoint = "open"
  /\ sessions = 1
  /\ service = 1
  /\ token = [s \in Sessions |-> IF s = 1 THEN 1 ELSE None]
  /\ loop = "accepting"
  /\ held = NoClient
  /\ task = [c \in Clients |-> "none"]
  /\ found = [c \in Clients |-> None]
  /\ answer = [c \in Clients |-> "none"]
  /\ conn = [c \in Clients |-> "none"]
  /\ client = [c \in Clients |-> "idle"]
  /\ offer = [c \in Clients |-> None]
  /\ outdated = {}
  /\ excuse = {}

-----------------------------------------------------------------------------
(* Clients *)

\* endpoint.connect, with a Join URI that may be out of date.
Connect(c, t) ==
  /\ client[c] = "idle"
  /\ endpoint = "open"
  /\ t <= Current
  /\ client' = [client EXCEPT ![c] = "connecting"]
  /\ conn' = [conn EXCEPT ![c] = "offered"]
  /\ offer' = [offer EXCEPT ![c] = t]
  /\ outdated' = IF t \in 1 .. Current - 1 THEN outdated \cup {c} ELSE outdated
  /\ excuse' = IF t # Current \/ service = None THEN excuse \cup {c} ELSE excuse
  /\ UNCHANGED <<host, services, accepting, tasks>>

\* endpoint.connect fails, at the latest when the connection is lost.
ConnectFails(c) ==
  /\ client[c] = "connecting"
  /\ client' = [client EXCEPT ![c] = "failed"]
  /\ Lose({c})
  /\ UNCHANGED <<host, services, accepting, tasks, offer, history>>

SendRequest(c) ==
  /\ client[c] = "sending"
  /\ conn[c] = "open"
  /\ client' = [client EXCEPT ![c] = "awaiting"]
  /\ UNCHANGED <<host, services, accepting, tasks, conn, offer, history>>

ReadAnswer(c) ==
  /\ client[c] = "awaiting"
  /\ Written(c)
  /\ client' = [client EXCEPT ![c] = IF answer[c] = "ok" THEN "joined" ELSE "rejected"]
  /\ UNCHANGED <<host, services, accepting, tasks, conn, offer, history>>

\* is_permanent_auth_error: auth_send ends with the connection closed, and the code
\* of the close says why.
SeeClose(c) ==
  /\ client[c] \in {"sending", "awaiting"}
  /\ conn[c] \in {"authFailed", "full"}
  /\ client' = [client EXCEPT ![c] = IF conn[c] = "full" THEN "turnedAway" ELSE "rejected"]
  /\ UNCHANGED <<host, services, accepting, tasks, conn, offer, history>>

\* auth_send fails otherwise, after AUTH_TIMEOUT at the latest, and the connection
\* is dropped.
GiveUp(c) ==
  /\ client[c] \in {"sending", "awaiting"}
  /\ client' = [client EXCEPT ![c] = "failed"]
  /\ Lose({c})
  /\ UNCHANGED <<host, services, accepting, tasks, offer, history>>

-----------------------------------------------------------------------------
(* The accept loop *)

\* endpoint.accept
Accept(c) ==
  /\ loop = "accepting"
  /\ conn[c] = "offered" /\ task[c] = "none"
  /\ loop' = "waiting"
  /\ held' = c
  /\ UNCHANGED <<host, services, tasks, clients, history>>

\* endpoint.accept returns None.
AcceptNothing ==
  /\ loop = "accepting"
  /\ endpoint = "closed"
  /\ loop' = "ended"
  /\ UNCHANGED <<host, services, held, tasks, clients, history>>

\* A permit is free, and the node is still there.
TakeSlot ==
  /\ loop = "waiting"
  /\ Cardinality(Busy) < Slots
  /\ ~NodeGone
  /\ loop' = "accepting"
  /\ held' = NoClient
  /\ task' = [task EXCEPT ![held] = "handshake"]
  /\ UNCHANGED <<host, services, found, answer, clients, history>>

\* Mutant: the loop of a node that is gone leaves the endpoint alone.
LeaveEndpoint ==
  /\ loop # "ended"
  /\ ShutdownSeen
  /\ loop' = "ended"
  /\ held' = NoClient
  /\ Lose({held})
  /\ UNCHANGED <<host, services, tasks, client, offer, history>>

\* The shutdown signal, or a node that is gone by the time there is a permit.  The
\* loop of a node closes the endpoint, too.
StopAccepting ==
  /\ loop # "ended"
  /\ ShutdownSeen
  /\ loop' = "ended"
  /\ held' = NoClient
  /\ IF kind = "node"
     THEN endpoint' = "closed" /\ Lose(Clients)
     ELSE Lose({held}) /\ UNCHANGED endpoint
  /\ UNCHANGED <<kind, handles, closing, signalled, services, tasks, client, offer, history>>

-----------------------------------------------------------------------------
(* The task of a connection *)

Ends(c) == task' = [task EXCEPT ![c] = "ended"]

Handshake(c) ==
  /\ task[c] = "handshake"
  /\ conn[c] = "offered"
  /\ task' = [task EXCEPT ![c] = "reading"]
  /\ conn' = [conn EXCEPT ![c] = "open"]
  /\ client' = [client EXCEPT ![c] = "sending"]
  /\ UNCHANGED <<host, services, accepting, found, answer, offer, history>>

\* Mutant: the handshake of a client that has gone is awaited for ever.
HandshakeRefused(c) ==
  /\ task[c] = "handshake"
  /\ endpoint = "closed"
  /\ Ends(c)
  /\ Lose({c})
  /\ UNCHANGED <<host, services, accepting, found, answer, client, offer, history>>

\* The handshake fails or takes CONNECTION_ACCEPT_TIMEOUT.
HandshakeFails(c) ==
  /\ task[c] = "handshake"
  /\ Ends(c)
  /\ Lose({c})
  /\ UNCHANGED <<host, services, accepting, found, answer, client, offer, history>>

\* auth_accept returns the request, and the node looks its service up.
ReadRequest(c) ==
  /\ task[c] = "reading"
  /\ conn[c] = "open" /\ client[c] = "awaiting"
  /\ task' = [task EXCEPT ![c] = "matching"]
  /\ found' = [found EXCEPT ![c] = service]
  /\ UNCHANGED <<host, services, accepting, answer, clients, history>>

\* auth_accept fails, as it does when the connection is lost.
ReadFails(c) ==
  /\ task[c] = "reading"
  /\ conn[c] # "open"
  /\ Ends(c)
  /\ UNCHANGED <<host, services, accepting, found, answer, clients, history>>

\* AUTH_TIMEOUT of a single host.
ReadTimesOut(c) ==
  /\ kind = "single"
  /\ task[c] = "reading"
  /\ conn[c] = "open"
  /\ Ends(c)
  /\ conn' = [conn EXCEPT ![c] = "authFailed"]
  /\ excuse' = excuse \cup {c}
  /\ UNCHANGED <<host, services, accepting, found, answer, client, offer, outdated>>

\* Mutant: the token that the service was published with.
MatchFirst(c) ==
  /\ task[c] = "matching"
  /\ task' = [task EXCEPT ![c] = "answering"]
  /\ answer' = [answer EXCEPT ![c] =
                  IF found[c] # None /\ offer[c] = 1 THEN "ok" ELSE "no"]
  /\ found' = [found EXCEPT ![c] = None]
  /\ UNCHANGED <<host, services, accepting, clients, history>>

\* The token of the service that was found, as it is now.
Match(c) ==
  /\ task[c] = "matching"
  /\ task' = [task EXCEPT ![c] = "answering"]
  /\ answer' = [answer EXCEPT ![c] =
                  IF found[c] # None /\ offer[c] = token[found[c]] THEN "ok" ELSE "no"]
  /\ found' = [found EXCEPT ![c] = None]
  /\ UNCHANGED <<host, services, accepting, clients, history>>

\* auth_respond, and the close of a connection that was turned away.
Respond(c) ==
  /\ task[c] = "answering"
  /\ conn[c] = "open"
  /\ IF answer[c] = "ok"
     THEN task' = [task EXCEPT ![c] = "admitting"] /\ UNCHANGED conn
     ELSE Ends(c) /\ conn' = [conn EXCEPT ![c] = "authFailed"]
  /\ UNCHANGED <<host, services, accepting, found, answer, client, offer, history>>

\* The answer cannot be written any more.
RespondFails(c) ==
  /\ task[c] = "answering"
  /\ conn[c] # "open"
  /\ Ends(c)
  /\ answer' = [answer EXCEPT ![c] = "none"]
  /\ UNCHANGED <<host, services, accepting, found, clients, history>>

\* Mutant: a full service turns players away with the code of a bad token.
AdmitWrongCode(c) ==
  /\ task[c] = "admitting"
  /\ Ends(c)
  /\ \/ UNCHANGED conn
     \/ conn[c] = "open" /\ conn' = [conn EXCEPT ![c] = "authFailed"]
  /\ UNCHANGED <<host, services, accepting, found, answer, client, offer, history>>

\* start_authenticated_host_connection returns: the connection is registered, or
\* the service has been full for the whole grace period.
Admit(c) ==
  /\ task[c] = "admitting"
  /\ Ends(c)
  /\ \/ UNCHANGED conn
     \/ conn[c] = "open" /\ conn' = [conn EXCEPT ![c] = "full"]
  /\ UNCHANGED <<host, services, accepting, found, answer, client, offer, history>>

-----------------------------------------------------------------------------
(* The user of the host *)

\* rotate_token, by hand or by the loop of the service.
Rotate ==
  /\ kind = "node" /\ ~NodeGone
  /\ service # None
  /\ Current < MaxTokens
  /\ token' = [token EXCEPT ![service] = Current + 1]
  /\ excuse' = excuse \cup Attempting
  /\ UNCHANGED <<host, sessions, service, accepting, tasks, clients, outdated>>

\* (The connections it has admitted are closed, too: see HostSessions.)
Unpublish ==
  /\ service' = None
  /\ excuse' = excuse \cup Attempting

StopService ==
  /\ kind = "node" /\ handles
  /\ service # None
  /\ Unpublish
  /\ UNCHANGED <<host, sessions, token, accepting, tasks, clients, outdated>>

\* start_service with the state that was saved, or a part of it.  Nothing keeps a
\* node that is closed from publishing.
StartService ==
  /\ kind = "node" /\ handles
  /\ service = None
  /\ sessions < MaxSessions
  /\ sessions' = sessions + 1
  /\ service' = sessions + 1
  /\ \E t \in {Current, Current + 1} :
       t <= MaxTokens /\ token' = [token EXCEPT ![sessions + 1] = t]
  /\ UNCHANGED <<host, accepting, tasks, clients, history>>

\* SculkNode::close stops its services first and signals last; IrohTunnel::close
\* signals first.
BeginClose ==
  /\ handles /\ closing = "no"
  /\ closing' = "endpoint"
  /\ IF kind = "node"
     THEN Unpublish /\ UNCHANGED signalled
     ELSE signalled' = TRUE /\ UNCHANGED <<service, excuse>>
  /\ UNCHANGED <<kind, handles, endpoint, sessions, token, accepting, tasks, clients,
                 outdated>>

\* endpoint.close
CloseEndpoint ==
  /\ closing = "endpoint"
  /\ closing' = IF kind = "node" THEN "signal" ELSE "done"
  /\ endpoint' = "closed"
  /\ Lose(Clients)
  /\ UNCHANGED <<kind, handles, signalled, services, accepting, tasks, client, offer,
                 history>>

SignalLast ==
  /\ closing = "signal"
  /\ closing' = "done"
  /\ signalled' = TRUE
  /\ UNCHANGED <<kind, handles, endpoint, services, accepting, tasks, clients, history>>

\* The last handle is dropped.  IrohTunnel::drop signals and closes the endpoint in
\* a task of its own; of a node only the sender of the signal is dropped, and not
\* before its last task ends.
DropHandles ==
  /\ handles /\ closing \in {"no", "done"}
  /\ handles' = FALSE
  /\ IF kind = "single"
     THEN /\ signalled' = TRUE
          /\ closing' = IF endpoint = "open" THEN "endpoint" ELSE closing
     ELSE UNCHANGED <<signalled, closing>>
  /\ UNCHANGED <<kind, endpoint, services, accepting, tasks, clients, history>>

-----------------------------------------------------------------------------
ClientNext(c) ==
  \/ \E t \in 0 .. MaxTokens : Connect(c, t)
  \/ ConnectFails(c) \/ SendRequest(c) \/ ReadAnswer(c) \/ SeeClose(c) \/ GiveUp(c)

LoopNext == (\E c \in Clients : Accept(c)) \/ AcceptNothing \/ TakeSlot \/ StopAccepting

TaskNext(c) ==
  \/ Handshake(c) \/ HandshakeFails(c)
  \/ ReadRequest(c) \/ ReadFails(c) \/ ReadTimesOut(c)
  \/ Match(c) \/ Respond(c) \/ RespondFails(c) \/ Admit(c)

UserNext ==
  \/ Rotate \/ StopService \/ StartService
  \/ BeginClose \/ CloseEndpoint \/ SignalLast \/ DropHandles

Next ==
  \/ \E c \in Clients : ClientNext(c) \/ TaskNext(c)
  \/ LoopNext \/ UserNext

(***************************************************************************)
(* The loop and the tasks run when they can; a handshake ends because its  *)
(* time is up, and so does the wait of a single host for a request.  A     *)
(* node waits for one without a timeout, and nothing is assumed of         *)
(* clients.  A close that has begun goes on.  Nobody has to connect,       *)
(* rotate, stop or close.                                                  *)
(***************************************************************************)
Fairness ==
  /\ WF_vars(\E c \in Clients : Accept(c))
  /\ WF_vars(AcceptNothing) /\ WF_vars(TakeSlot) /\ WF_vars(StopAccepting)
  /\ \A c \in Clients : WF_vars(TaskNext(c))
  /\ WF_vars(CloseEndpoint) /\ WF_vars(SignalLast)

Spec == Init /\ [][Next]_vars
FairSpec == Spec /\ Fairness

-----------------------------------------------------------------------------
(* Properties *)

\* Once a rotation is committed, a new connection needs the new token, although the
\* service is looked up before its token is read and may be stopped, rotated and
\* published again around either.
NewConnectionsNeedNewToken ==
  \A c \in Clients : client[c] = "joined" => c \notin outdated

\* A client is told that its token is bad, and so never tries again, only when the
\* host has had a reason for it since the client connected: the token was not the
\* current one or the service was not there.  (Or, for a single host, the request
\* came late: its timeout uses the same code.)
RejectionsHaveCause ==
  \A c \in Clients : client[c] = "rejected" => c \in excuse

\* A client that has connected to a node and sends no request, but stays: auth_accept
\* has no timeout there, and its task keeps the slot.
Stays(c) ==
  kind = "node" /\ task[c] = "reading" /\ conn[c] = "open" /\ client[c] = "sending"

\* Such clients have every slot.
Blocked == ~(Cardinality({c \in Clients : Stays(c)}) < Slots)

\* No connection waits for ever to be taken, unless every slot of a node is for ever
\* with a client that stays and sends no request: it is taken, refused, or given up by
\* its client, however slowly or badly those that have the slots behave otherwise.  A
\* single host takes every connection.
EveryOfferTaken ==
  <>[]Blocked \/ \A c \in Clients : (conn[c] = "offered") ~> (conn[c] # "offered")

\* The accept loop has returned, the endpoint is closed, and no task is left.
Ended == loop = "ended" /\ endpoint = "closed" /\ Busy = {}

\* A host that is closed ends, whatever its clients do; so does one that is only
\* dropped, but for a node that a client which stays and sends no request holds up.
HostEnds ==
  /\ (closing # "no") ~> Ended
  /\ <>[](\E c \in Clients : Stays(c)) \/ (~handles ~> Ended)
=============================================================================
