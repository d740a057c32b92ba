---------------------------- MODULE TunnelClient ----------------------------
(***************************************************************************)
(* A client of the managed tunnel as `sculk join' is one (cli/src/main.rs):*)
(* it subscribes, starts a tunnel, waits until its subscription has shown  *)
(* that the start has succeeded or failed (wait_until_active), then until  *)
(* it shows that the tunnel is gone (wait_for_shutdown), and shuts the     *)
(* service down.  Other callers hold handles of the same service and do as *)
(* they like, as in module TunnelService.                                  *)
(*                                                                         *)
(* The client never looks at the service itself.  A subscription has two   *)
(* sources: the watch channel, which keeps only the latest status, and a   *)
(* broadcast channel that holds Backlog events and then drops the oldest,  *)
(* which the receiver is told of by an error event of its own.             *)
(*                                                                         *)
(* The channels of a subscription close with the service, which the client *)
(* keeps alive.  A status published again unchanged is not told from one   *)
(* that was not published: it would answer no wait.  Every caller joins: a *)
(* client of mode Join waits on when it finds that another caller hosts.   *)
(***************************************************************************)
EXTENDS TunnelService, Sequences

CONSTANTS
  Client,   \* The caller that joins and waits.
  Backlog   \* EVENT_BROADCAST_SIZE

ASSUME ClientAssumption == Client \in Callers
ASSUME BacklogAssumption == Backlog \in Nat \ {0}

VARIABLES
  waiter,   \* Where the client is.
  unseen,   \* A status to receive: initial_status_pending, or the watch has changed.
  events,   \* The events the broadcast channel still holds for the subscription.
  lagged    \* Events were dropped since the last one was received.

subscription == <<unseen, events, lagged>>
clientVars == <<waiter, subscription>>

-----------------------------------------------------------------------------
(* Types and helpers *)

Waiters == {"subscribed", "starting", "waiting", "running", "leaving", "failed", "over"}

ClientTypeOK ==
  /\ waiter \in Waiters
  /\ unseen \in BOOLEAN
  /\ events \in Seq({"error", "other"}) /\ Len(events) <= Backlog
  /\ lagged \in BOOLEAN

ClientInit ==
  /\ Init
  /\ waiter = "subscribed"
  /\ unseen = TRUE
  /\ events = <<>>
  /\ lagged = FALSE

\* broadcast::Sender::send
Send(event_) ==
  IF Len(events) < Backlog
  THEN events' = Append(events, event_) /\ UNCHANGED lagged
  ELSE events' = Append(Tail(events), event_) /\ lagged' = TRUE

\* watch::Sender::send_replace
Notify == unseen' = (unseen \/ status' # status)

Quiet == UNCHANGED <<events, lagged>>

-----------------------------------------------------------------------------
(* The client *)

\* start_join, up to its return.
ClientStarts ==
  /\ waiter = "subscribed"
  /\ BeginStart(Client)
  /\ waiter' = "starting"
  /\ Notify /\ Quiet

\* TunnelServiceError::Busy
ClientRefused ==
  /\ waiter = "subscribed"
  /\ LockFree
  /\ state.kind # "Idle"
  /\ waiter' = "failed"
  /\ UNCHANGED <<vars, subscription>>

ClientStarted ==
  /\ AttachStartTask(Client)
  /\ waiter' = "waiting"
  /\ Notify /\ Quiet

\* What wait_until_active and wait_for_shutdown make of a status ...
AfterStatus(phase) ==
  CASE waiter = "waiting" /\ phase = "Active" -> "running"
    [] waiter = "waiting" /\ phase = "Idle"   -> "failed"
    [] waiter = "running" /\ phase = "Idle"   -> "leaving"
    [] OTHER                                  -> waiter

\* ... and of an event: only an error, and only before the tunnel is active.
AfterEvent(event_) ==
  IF waiter = "waiting" /\ event_ = "error" THEN "failed" ELSE waiter

Receiving == waiter \in {"waiting", "running"}

ReceiveStatus ==
  /\ Receiving
  /\ unseen
  /\ waiter' = AfterStatus(status.phase)
  /\ unseen' = FALSE
  /\ UNCHANGED <<vars, events, lagged>>

\* RecvError::Lagged comes before the events that are left.
ReceiveLag ==
  /\ Receiving
  /\ lagged
  /\ waiter' = AfterEvent("error")
  /\ lagged' = FALSE
  /\ UNCHANGED <<vars, unseen, events>>

ReceiveEvent ==
  /\ Receiving
  /\ ~lagged
  /\ events # <<>>
  /\ waiter' = AfterEvent(Head(events))
  /\ events' = Tail(events)
  /\ UNCHANGED <<vars, unseen, lagged>>

\* Ctrl-C in wait_for_shutdown.
Interrupt ==
  /\ waiter = "running"
  /\ waiter' = "leaving"
  /\ UNCHANGED <<vars, subscription>>

\* TunnelService::shutdown, when there is something to stop ...
ClientStops ==
  /\ waiter = "leaving"
  /\ \/ StopStarting(Client) \/ StopActive(Client) \/ StopPublishes(Client)
     \/ CloseActive(Client) \/ FinishStop(Client)
  /\ waiter' = IF caller'[Client].pc = "idle" THEN "over" ELSE waiter
  /\ Notify /\ Quiet

\* ... and when there is nothing, or another caller's stop is under way.
NothingToStop ==
  /\ waiter = "leaving"
  /\ caller[Client].pc = "idle"
  /\ LockFree
  /\ state.kind \in {"Idle", "Stopping"}
  /\ waiter' = "over"
  /\ UNCHANGED <<vars, subscription>>

-----------------------------------------------------------------------------
(* The rest of the service *)

OtherCalls(c) ==
  /\ c # Client
  /\ CallerNext(c)
  /\ Notify /\ Quiet
  /\ UNCHANGED waiter

\* Steps of a start task, but for the publication of its error.
StartTaskRuns(o) ==
  /\ task[o] # "erring"
  /\ TaskNext(o)
  /\ Notify /\ Quiet
  /\ UNCHANGED waiter

\* Mutant: the error of a failed start is published in the status only.
ErrorWithoutEvent(o) ==
  /\ PublishError(o)
  /\ Notify /\ Quiet
  /\ UNCHANGED waiter

\* publish_error: the status is published, then the event is sent.
ErrorWithEvent(o) ==
  /\ PublishError(o)
  /\ Notify /\ Send("error")
  /\ UNCHANGED waiter

\* The event task, which forwards the events of the tunnel.
StatusRefreshed(o) ==
  /\ RefreshConnections(o) \/ EventTaskEnds(o)
  /\ Notify /\ Quiet
  /\ UNCHANGED waiter

ForwardError(o) ==
  /\ RecordEventError(o)
  /\ Notify /\ Send("error")
  /\ UNCHANGED waiter

\* An event that is no error, or an error that the status reports already.
ForwardEvent(o, event_) ==
  /\ EventTaskRuns(o)
  /\ event_ = "error" => o \in eventErr
  /\ Send(event_)
  /\ UNCHANGED <<vars, waiter, unseen>>

-----------------------------------------------------------------------------
ClientReceives == ReceiveStatus \/ ReceiveLag \/ ReceiveEvent

ClientNext ==
  \/ ClientStarts \/ ClientRefused \/ ClientStarted \/ ClientReceives \/ Interrupt
  \/ ClientStops \/ NothingToStop
  \/ \E c \in Callers : OtherCalls(c)
  \/ \E o \in Ops :
       \/ StartTaskRuns(o) \/ ErrorWithEvent(o) \/ StatusRefreshed(o) \/ ForwardError(o)
       \/ \E event_ \in {"error", "other"} : ForwardEvent(o, event_)

(***************************************************************************)
(* As for TunnelService.  The client is polled when its subscription has   *)
(* something to return, and the select! in recv picks a ready source at    *)
(* random, so neither starves the other.                                   *)
(***************************************************************************)
ClientFairness ==
  /\ Fairness
  /\ WF_<<vars, clientVars>>(ReceiveStatus)
  /\ WF_<<vars, clientVars>>(ReceiveLag \/ ReceiveEvent)

ClientSpec == ClientInit /\ [][ClientNext]_<<vars, clientVars>> /\ ClientFairness

-----------------------------------------------------------------------------
(* Properties *)

\* A client that waits for its start is answered once the service has left Starting:
\* it sees the status or an error, although statuses are coalesced, events dropped,
\* and a stale Starting may be published over an idle service for ever.
JoinAnswers ==
  (waiter = "waiting" /\ state.kind # "Starting") ~>
    (waiter # "waiting" \/ state.kind = "Starting")
=============================================================================
