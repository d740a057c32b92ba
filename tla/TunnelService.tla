--------------------------- MODULE TunnelService ---------------------------
(***************************************************************************)
(* The managed tunnel of core/src/tunnel/service.rs: one TunnelService,    *)
(* shared by any number of cloned handles.                                 *)
(*                                                                         *)
(* Three kinds of tasks touch it.  A CALLER is a user task inside          *)
(* start_host, start_join, stop or shutdown; its future may be dropped at  *)
(* any await.  Each accepted start spawns a START TASK (complete_host or   *)
(* complete_join plus the publication of its error), which a stop may      *)
(* abort.  Each activated tunnel has an EVENT TASK (start_events).         *)
(*                                                                         *)
(* They share the asynchronous mutex around ServiceState and, without any  *)
(* lock, the watch channel that holds the published status.  Most critical *)
(* sections await nothing and are one action each; the two that are        *)
(* visible half-way are split: begin_stop awaits the event task while it   *)
(* holds the mutex, and finish_start spawns the event task before it       *)
(* publishes.                                                              *)
(*                                                                         *)
(* A start operation and the tunnel it creates are named by the operation  *)
(* id, so the status carries the id (`life') of the lifecycle it describes *)
(* in place of the role, the join URI and the local address, and the id of *)
(* the operation whose failure it reports in place of an ErrorCategory.    *)
(* Option validation and calls answered Busy or NotRunning change nothing  *)
(* and are left out, as is the error of active.status(), which needs a     *)
(* poisoned mutex.  Every stop draws an operation id; only that of a stop  *)
(* of an active tunnel is ever used, and only that one is drawn here.      *)
(***************************************************************************)
EXTENDS Naturals

CONSTANTS
  Callers,          \* User tasks that call the service.
  MaxOps,           \* Bound on the operation ids drawn.
  StartMayFail,     \* Whether IrohTunnel::host or ::join may return an error.
  CallMayBeDropped  \* Whether a caller may drop the future of a call.

ASSUME MaxOpsAssumption == MaxOps \in Nat
ASSUME EnvironmentAssumption ==
  /\ StartMayFail \in BOOLEAN
  /\ CallMayBeDropped \in BOOLEAN

VARIABLES
  state,      \* ServiceState, guarded by the mutex.
  status,     \* Latest value of the status watch channel.
  nextOp,     \* operation_next.
  caller,     \* Where each caller is.
  task,       \* Where the start task of each operation is.
  aborted,    \* Operations whose start task has been aborted.
  snapshot,   \* Status each failed start task read before publishing.
  event,      \* Where the event task of each tunnel is.
  eventErr,   \* Tunnels whose event task has recorded an error in its copy.
  tunnel,     \* The tunnel created by each operation.
  resets,     \* Operations whose dropped guard spawned a reset_operation.
  cancelled   \* History: starts that a stop took out of Starting.

vars == <<state, status, nextOp, caller, task, aborted, snapshot, event,
          eventErr, tunnel, resets, cancelled>>

-----------------------------------------------------------------------------
(* Types and values *)

Ops  == 1 .. MaxOps
None == 0
Lives == Ops \cup {None}

States == [kind : {"Idle", "Starting", "Active", "Stopping"},
           id : Lives, attached : BOOLEAN]

IdleState == [kind |-> "Idle", id |-> None, attached |-> FALSE]
StateOf(kind, o) == [kind |-> kind, id |-> o, attached |-> FALSE]

Statuses == [phase : {"Idle", "Starting", "Active", "Stopping"},
             life : Lives, err : Lives]

IdleStatus == [phase |-> "Idle", life |-> None, err |-> None]
StatusOf(phase, o) == [phase |-> phase, life |-> o, err |-> None]

\* The event task's own copy of the status, which it publishes whole.
EventStatus(o, failed) ==
  [phase |-> "Active", life |-> o, err |-> IF failed THEN o ELSE None]

CallerPcs == {"idle", "attach", "stopEvents", "closing", "finishing"}
TaskPcs == {"none", "creating", "created", "publishing", "closing", "failing",
            "failed", "erring", "done"}

NoCall == [pc |-> "idle", life |-> None, op |-> None]

\* The mutex is held across an await by a stop that waits for the event task,
\* and held half-way through finish_start.
LockFree ==
  /\ \A c \in Callers : caller[c].pc # "stopEvents"
  /\ \A o \in Ops : task[o] # "publishing"

\* Mutant: any start that is under way is taken for one's own.
MatchesAnyStarting(o) == state.kind = "Starting"

MatchesStarting(o) == state.kind = "Starting" /\ state.id = o

\* Mutant: the operation id is not compared.
OwnsAnyOperation(o) == state.kind \in {"Starting", "Stopping"}

\* state.operation_id() == Some(o)
OwnsOperation(o) == state.kind \in {"Starting", "Stopping"} /\ state.id = o

\* reset_operation, run with the mutex held.
ResetOperation(o) ==
  IF OwnsOperation(o)
  THEN state' = IdleState /\ status' = IdleStatus
  ELSE UNCHANGED <<state, status>>

TypeOK ==
  /\ state \in States
  /\ (state.kind = "Idle") <=> (state.id = None)
  /\ state.attached => state.kind = "Starting"
  /\ status \in Statuses
  /\ nextOp \in 1 .. MaxOps + 1
  /\ caller \in [Callers -> [pc : CallerPcs, life : Lives, op : Lives]]
  /\ task \in [Ops -> TaskPcs]
  /\ aborted \subseteq Ops
  /\ snapshot \in [Ops -> Statuses]
  /\ event \in [Ops -> {"none", "running", "aborted", "dead"}]
  /\ eventErr \subseteq Ops
  /\ tunnel \in [Ops -> {"none", "open", "closed", "dropped"}]
  /\ resets \subseteq Ops
  /\ cancelled \subseteq Ops

Init ==
  /\ state = IdleState
  /\ status = IdleStatus
  /\ nextOp = 1
  /\ caller = [c \in Callers |-> NoCall]
  /\ task = [o \in Ops |-> "none"]
  /\ aborted = {}
  /\ snapshot = [o \in Ops |-> IdleStatus]
  /\ event = [o \in Ops |-> "none"]
  /\ eventErr = {}
  /\ tunnel = [o \in Ops |-> "none"]
  /\ resets = {}
  /\ cancelled = {}

-----------------------------------------------------------------------------
(* Callers: start *)

\* begin_start and the spawn of the start task, up to the await of the mutex
\* in attach_start_task.
BeginStart(c) ==
  /\ caller[c].pc = "idle"
  /\ nextOp \in Ops
  /\ LockFree
  /\ state.kind = "Idle"
  /\ state' = StateOf("Starting", nextOp)
  /\ status' = StatusOf("Starting", nextOp)
  /\ nextOp' = nextOp + 1
  /\ task' = [task EXCEPT ![nextOp] = "creating"]
  /\ caller' = [caller EXCEPT ![c] = [pc |-> "attach", life |-> nextOp, op |-> nextOp]]
  /\ UNCHANGED <<aborted, snapshot, event, eventErr, tunnel, resets, cancelled>>

\* attach_start_task: the handle is kept by the Starting state it belongs to,
\* and the task is aborted when that state is gone.
AttachStartTask(c) ==
  /\ caller[c].pc = "attach"
  /\ LockFree
  /\ IF MatchesStarting(caller[c].op)
     THEN /\ state' = [state EXCEPT !.attached = TRUE]
          /\ UNCHANGED aborted
     ELSE /\ aborted' = aborted \cup {caller[c].op}
          /\ UNCHANGED state
  /\ caller' = [caller EXCEPT ![c] = NoCall]
  /\ UNCHANGED <<status, nextOp, task, snapshot, event, eventErr, tunnel, resets,
                 cancelled>>

-----------------------------------------------------------------------------
(* Start tasks *)

\* IrohTunnel::host or ::join returns a tunnel.
CreateTunnel(o) ==
  /\ task[o] = "creating"
  /\ task' = [task EXCEPT ![o] = "created"]
  /\ tunnel' = [tunnel EXCEPT ![o] = "open"]
  /\ UNCHANGED <<state, status, nextOp, caller, aborted, snapshot, event, eventErr,
                 resets, cancelled>>

\* IrohTunnel::host or ::join returns an error.
CreateFails(o) ==
  /\ StartMayFail
  /\ task[o] = "creating"
  /\ task' = [task EXCEPT ![o] = "failing"]
  /\ UNCHANGED <<state, status, nextOp, caller, aborted, snapshot, event, eventErr,
                 tunnel, resets, cancelled>>

\* finish_start up to and including start_events: the event task runs from here.
FinishStart(o) ==
  /\ task[o] = "created"
  /\ LockFree
  /\ MatchesStarting(o)
  /\ event' = [event EXCEPT ![o] = "running"]
  /\ task' = [task EXCEPT ![o] = "publishing"]
  /\ UNCHANGED <<state, status, nextOp, caller, aborted, snapshot, eventErr, tunnel,
                 resets, cancelled>>

\* The rest of finish_start; the guard is disarmed and the mutex released.
PublishActive(o) ==
  /\ task[o] = "publishing"
  /\ state' = StateOf("Active", o)
  /\ status' = StatusOf("Active", o)
  /\ task' = [task EXCEPT ![o] = "done"]
  /\ UNCHANGED <<nextOp, caller, aborted, snapshot, event, eventErr, tunnel, resets,
                 cancelled>>

\* Mutant: the late tunnel is neither kept nor closed.
ForgetStaleStart(o) ==
  /\ task[o] = "created"
  /\ LockFree
  /\ ~MatchesStarting(o)
  /\ task' = [task EXCEPT ![o] = "done"]
  /\ UNCHANGED <<state, status, nextOp, caller, aborted, snapshot, event, eventErr,
                 tunnel, resets, cancelled>>

\* finish_start finds that the state is no longer its own.
FinishStaleStart(o) ==
  /\ task[o] = "created"
  /\ LockFree
  /\ ~MatchesStarting(o)
  /\ task' = [task EXCEPT ![o] = "closing"]
  /\ UNCHANGED <<state, status, nextOp, caller, aborted, snapshot, event, eventErr,
                 tunnel, resets, cancelled>>

\* active.close() of a stale start returns; finish_start returns Busy, so no
\* error is published, and the armed guard is dropped.
CloseStaleStart(o) ==
  /\ task[o] = "closing"
  /\ tunnel' = [tunnel EXCEPT ![o] = "closed"]
  /\ resets' = resets \cup {o}
  /\ task' = [task EXCEPT ![o] = "done"]
  /\ UNCHANGED <<state, status, nextOp, caller, aborted, snapshot, event, eventErr,
                 cancelled>>

\* fail_start.
FailStart(o) ==
  /\ task[o] = "failing"
  /\ LockFree
  /\ ResetOperation(o)
  /\ task' = [task EXCEPT ![o] = "failed"]
  /\ UNCHANGED <<nextOp, caller, aborted, snapshot, event, eventErr, tunnel, resets,
                 cancelled>>

\* publish_error is a read of the status channel and a later write to it.
ReadStatus(o) ==
  /\ task[o] = "failed"
  /\ snapshot' = [snapshot EXCEPT ![o] = status]
  /\ task' = [task EXCEPT ![o] = "erring"]
  /\ UNCHANGED <<state, status, nextOp, caller, aborted, event, eventErr, tunnel,
                 resets, cancelled>>

PublishError(o) ==
  /\ task[o] = "erring"
  /\ status' = [snapshot[o] EXCEPT !.err = o]
  /\ snapshot' = [snapshot EXCEPT ![o] = IdleStatus]
  /\ task' = [task EXCEPT ![o] = "done"]
  /\ UNCHANGED <<state, nextOp, caller, aborted, event, eventErr, tunnel, resets,
                 cancelled>>

\* An aborted start task is dropped at an await: its guard spawns a reset and a
\* tunnel it owns is dropped.  (An abort that arrives while the task is being
\* polled lets it run on, so the steps above do not look at `aborted'.)
DropStartTask(o) ==
  /\ o \in aborted
  /\ task[o] \in {"creating", "created", "closing", "failing"}
  /\ task' = [task EXCEPT ![o] = "done"]
  /\ tunnel' = [tunnel EXCEPT ![o] = IF @ = "open" THEN "dropped" ELSE @]
  /\ resets' = resets \cup {o}
  /\ UNCHANGED <<state, status, nextOp, caller, aborted, snapshot, event, eventErr,
                 cancelled>>

\* The reset_operation that OperationGuard::drop spawned.
RunReset(o) ==
  /\ o \in resets
  /\ LockFree
  /\ ResetOperation(o)
  /\ resets' = resets \ {o}
  /\ UNCHANGED <<nextOp, caller, task, aborted, snapshot, event, eventErr, tunnel,
                 cancelled>>

-----------------------------------------------------------------------------
(* Callers: stop and shutdown *)

\* Mutant: the status is left alone when a start is cancelled.
StopStartingSilently(c) ==
  /\ caller[c].pc = "idle"
  /\ LockFree
  /\ state.kind = "Starting"
  /\ aborted' = IF state.attached THEN aborted \cup {state.id} ELSE aborted
  /\ cancelled' = cancelled \cup {state.id}
  /\ state' = IdleState
  /\ UNCHANGED <<status, nextOp, caller, task, snapshot, event, eventErr, tunnel, resets>>

\* begin_stop of a starting operation: the task is aborted if it was attached.
StopStarting(c) ==
  /\ caller[c].pc = "idle"
  /\ LockFree
  /\ state.kind = "Starting"
  /\ aborted' = IF state.attached THEN aborted \cup {state.id} ELSE aborted
  /\ cancelled' = cancelled \cup {state.id}
  /\ state' = IdleState
  /\ status' = IdleStatus
  /\ UNCHANGED <<nextOp, caller, task, snapshot, event, eventErr, tunnel, resets>>

\* Mutant: the event task is awaited without having been aborted.
StopActiveWithoutAbort(c) ==
  /\ caller[c].pc = "idle"
  /\ nextOp \in Ops
  /\ LockFree
  /\ state.kind = "Active"
  /\ caller' = [caller EXCEPT ![c] = [pc |-> "stopEvents", life |-> state.id, op |-> nextOp]]
  /\ nextOp' = nextOp + 1
  /\ state' = IdleState
  /\ UNCHANGED <<status, task, aborted, snapshot, event, eventErr, tunnel, resets, cancelled>>

\* begin_stop of an active tunnel, up to the await in stop_events.  The state is
\* Idle behind the mutex until the event task has ended.
StopActive(c) ==
  /\ caller[c].pc = "idle"
  /\ nextOp \in Ops
  /\ LockFree
  /\ state.kind = "Active"
  /\ event' = [event EXCEPT ![state.id] = "aborted"]
  /\ caller' = [caller EXCEPT ![c] = [pc |-> "stopEvents", life |-> state.id, op |-> nextOp]]
  /\ nextOp' = nextOp + 1
  /\ state' = IdleState
  /\ UNCHANGED <<status, task, aborted, snapshot, eventErr, tunnel, resets, cancelled>>

\* The rest of begin_stop; the mutex is released.
StopPublishes(c) ==
  /\ caller[c].pc = "stopEvents"
  /\ event[caller[c].life] = "dead"
  /\ state' = StateOf("Stopping", caller[c].op)
  /\ status' = StatusOf("Stopping", caller[c].life)
  /\ caller' = [caller EXCEPT ![c].pc = "closing"]
  /\ UNCHANGED <<nextOp, task, aborted, snapshot, event, eventErr, tunnel, resets,
                 cancelled>>

\* active.close() returns.
CloseActive(c) ==
  /\ caller[c].pc = "closing"
  /\ tunnel' = [tunnel EXCEPT ![caller[c].life] = "closed"]
  /\ caller' = [caller EXCEPT ![c].pc = "finishing"]
  /\ UNCHANGED <<state, status, nextOp, task, aborted, snapshot, event, eventErr,
                 resets, cancelled>>

\* finish_stop.
FinishStop(c) ==
  /\ caller[c].pc = "finishing"
  /\ LockFree
  /\ ResetOperation(caller[c].op)
  /\ caller' = [caller EXCEPT ![c] = NoCall]
  /\ UNCHANGED <<nextOp, task, aborted, snapshot, event, eventErr, tunnel, resets,
                 cancelled>>

\* Mutant: a stop has no guard.
DropCallUnguarded(c) ==
  /\ CallMayBeDropped
  /\ caller[c].pc # "idle"
  /\ caller' = [caller EXCEPT ![c] = NoCall]
  /\ tunnel' = IF caller[c].pc \in {"stopEvents", "closing"}
               THEN [tunnel EXCEPT ![caller[c].life] = "dropped"] ELSE tunnel
  /\ UNCHANGED <<state, status, nextOp, task, aborted, snapshot, event, eventErr,
                 resets, cancelled>>

\* The future of a call is dropped at the await it is in.  In attach_start_task
\* the start task is detached; in stop_events the mutex is released over the
\* Idle state and the tunnel is dropped; later the armed guard is dropped too.
DropCall(c) ==
  /\ CallMayBeDropped
  /\ caller[c].pc # "idle"
  /\ caller' = [caller EXCEPT ![c] = NoCall]
  /\ tunnel' = IF caller[c].pc \in {"stopEvents", "closing"}
               THEN [tunnel EXCEPT ![caller[c].life] = "dropped"] ELSE tunnel
  /\ resets' = IF caller[c].pc \in {"closing", "finishing"}
               THEN resets \cup {caller[c].op} ELSE resets
  /\ UNCHANGED <<state, status, nextOp, task, aborted, snapshot, event, eventErr,
                 cancelled>>

-----------------------------------------------------------------------------
(* Event tasks *)

\* An aborted event task may still finish the poll it is in.
EventTaskRuns(o) == event[o] \in {"running", "aborted"}

\* The refresh interval finds that the connections have changed.
RefreshConnections(o) ==
  /\ EventTaskRuns(o)
  /\ status' = EventStatus(o, o \in eventErr)
  /\ UNCHANGED <<state, nextOp, caller, task, aborted, snapshot, event, eventErr,
                 tunnel, resets, cancelled>>

\* An error event that the task's copy of the status does not report yet.
RecordEventError(o) ==
  /\ EventTaskRuns(o)
  /\ o \notin eventErr
  /\ eventErr' = eventErr \cup {o}
  /\ status' = EventStatus(o, TRUE)
  /\ UNCHANGED <<state, nextOp, caller, task, aborted, snapshot, event, tunnel, resets,
                 cancelled>>

EventTaskEnds(o) ==
  /\ event[o] = "aborted"
  /\ event' = [event EXCEPT ![o] = "dead"]
  /\ UNCHANGED <<state, status, nextOp, caller, task, aborted, snapshot, eventErr,
                 tunnel, resets, cancelled>>

-----------------------------------------------------------------------------
CallerNext(c) ==
  \/ BeginStart(c) \/ AttachStartTask(c)
  \/ StopStarting(c) \/ StopActive(c) \/ StopPublishes(c)
  \/ CloseActive(c) \/ FinishStop(c) \/ DropCall(c)

TaskNext(o) ==
  \/ CreateTunnel(o) \/ CreateFails(o)
  \/ FinishStart(o) \/ PublishActive(o) \/ FinishStaleStart(o) \/ CloseStaleStart(o)
  \/ FailStart(o) \/ ReadStatus(o) \/ PublishError(o)
  \/ DropStartTask(o) \/ RunReset(o)

EventNext(o) == RefreshConnections(o) \/ RecordEventError(o) \/ EventTaskEnds(o)

Next ==
  \/ \E c \in Callers : CallerNext(c)
  \/ \E o \in Ops : TaskNext(o) \/ EventNext(o)

(***************************************************************************)
(* Every task that can run is run by the tokio scheduler, and the mutex is *)
(* handed over in arrival order, so waiting for it is strongly fair.       *)
(* Nothing is assumed of users, of tunnel errors, nor of the creation of a *)
(* tunnel: Endpoint::online may wait for a relay for ever.  An endpoint's  *)
(* close() is assumed to return.                                           *)
(***************************************************************************)
Fairness ==
  /\ \A c \in Callers :
       /\ SF_vars(AttachStartTask(c)) /\ SF_vars(FinishStop(c))
       /\ WF_vars(StopPublishes(c)) /\ WF_vars(CloseActive(c))
  /\ \A o \in Ops :
       /\ SF_vars(FinishStart(o) \/ FinishStaleStart(o) \/ FailStart(o))
       /\ SF_vars(RunReset(o))
       /\ WF_vars(PublishActive(o) \/ CloseStaleStart(o) \/ ReadStatus(o)
                    \/ PublishError(o))
       /\ WF_vars(DropStartTask(o))
       /\ WF_vars(EventTaskEnds(o))

Spec == Init /\ [][Next]_vars
FairSpec == Spec /\ Fairness

-----------------------------------------------------------------------------
(* Safety *)

\* Operations of a stop that has published Stopping and not yet reset it.
StopUnderWay(o) ==
  \E c \in Callers : caller[c].pc \in {"closing", "finishing"} /\ caller[c].op = o

StartUnderWay(o) ==
  task[o] \in {"creating", "created", "publishing", "closing", "failing"}

\* The service is never wedged: a Starting or Stopping state always has a task
\* that still holds its armed guard, or the reset such a guard spawned, so a
\* failed start, an abort and a dropped future all lead back to Idle.
NeverWedged ==
  state.kind \in {"Starting", "Stopping"} =>
    StartUnderWay(state.id) \/ StopUnderWay(state.id) \/ state.id \in resets

\* Every open tunnel has somebody who will use or close it: the Active state,
\* the start task that created it, or the stop that took it out of Active.
NoTunnelLeaked ==
  \A o \in Ops : tunnel[o] = "open" =>
    \/ task[o] \in {"created", "publishing", "closing"}
    \/ state.kind = "Active" /\ state.id = o
    \/ \E c \in Callers : caller[c].pc \in {"stopEvents", "closing"} /\ caller[c].life = o

\* While the mutex is free the phase that status() returns is that of the state,
\* with two exceptions: the error of a failed start was published over it, or it
\* is the Active of a tunnel whose stop was dropped while it awaited the event
\* task, behind a state that is Idle already.
PhaseExplained ==
  LockFree /\ status.phase # state.kind =>
    \/ status.err # None /\ event[status.err] = "none"
    \/ status.phase = "Active" /\ tunnel[status.life] = "dropped"

\* The lifecycles the service goes through are those of TunnelLifecycle: the
\* state is Active until a stop has waited for the event task, and a start that
\* was cancelled or failed never becomes the tunnel of a later operation.
Stoppers == {c \in Callers : caller[c].pc = "stopEvents"}

LifecyclePhase == IF Stoppers # {} THEN "Active" ELSE state.kind

CurrentLife ==
  CASE Stoppers # {} -> caller[CHOOSE c \in Stoppers : TRUE].life
    [] Stoppers = {} /\ state.kind \in {"Starting", "Active"} -> state.id
    [] OTHER -> None

Lifecycle == INSTANCE TunnelLifecycle WITH
  Life <- Ops, NoLife <- None, StopMayDrop <- CallMayBeDropped,
  phase <- LifecyclePhase, life <- CurrentLife,
  over <- {o \in Ops : task[o] # "none" /\ o # CurrentLife}

LifecycleSpec == Lifecycle!Spec

-----------------------------------------------------------------------------
(* Steps *)

\* A start that a stop cancelled cannot overwrite the current state, even when
\* its future completes later.
CancelledStartNeverOverwrites ==
  [][\A o \in cancelled : task'[o] # task[o] => UNCHANGED <<state, status>>]_vars

\* The same of the lifecycle alone, which is what does hold.
CancelledStartNeverActs ==
  [][\A o \in cancelled :
       task'[o] # task[o] \/ (o \in resets /\ o \notin resets') => UNCHANGED state]_vars

-----------------------------------------------------------------------------
(* Liveness *)

\* A stop that has taken the tunnel out of Active returns.
StopReturns ==
  \A c \in Callers : (caller[c].pc \in {"stopEvents", "closing", "finishing"}) ~>
                       (caller[c].pc = "idle")

\* The service does not stay in Stopping, even when the stop is dropped.
StoppingEnds == (state.kind = "Stopping") ~> (state.kind # "Stopping")

\* A tunnel that was created too late for its start, or whose stop has begun, is
\* closed or dropped; any other becomes the active one.
TunnelSettles ==
  \A o \in Ops : (tunnel[o] = "open" /\ ~(state.kind = "Active" /\ state.id = o)) ~>
                   (tunnel[o] # "open" \/ (state.kind = "Active" /\ state.id = o))
=============================================================================
