------------------------ MODULE TunnelServiceProofs ------------------------
(***************************************************************************)
(* Proofs about TunnelService, for any number of callers and operations    *)
(* and whether or not starts fail and futures are dropped: it is type      *)
(* correct, is never wedged, leaks no tunnel, publishes phases that its    *)
(* state explains, lets no cancelled start act, and implements             *)
(* TunnelLifecycle; its mutex is never held for ever.  A client of the     *)
(* service (TunnelClient) is one of its callers, so all of this holds      *)
(* beside it, and the answer it waits for is never lost.                   *)
(***************************************************************************)
EXTENDS TunnelClient, TLAPS

\* A call past its first critical section carries the operation it works for.
CallsCarryOps ==
  \A c \in Callers : caller[c].pc # "idle" => caller[c].life \in Ops /\ caller[c].op \in Ops

\* Operation ids that have not been drawn have no task and no tunnel, and nobody
\* refers to one.
FreshOps ==
  /\ \A o \in Ops : o >= nextOp => task[o] = "none" /\ tunnel[o] = "none"
  /\ state.id < nextOp
  /\ \A c \in Callers : caller[c].life < nextOp /\ caller[c].op < nextOp

\* Who holds the mutex across a step knows the state: finish_start holds it over
\* its own Starting, begin_stop over the Idle left by mem::replace, and there is
\* one holder.
HolderKnowsState ==
  /\ \A o \in Ops : task[o] = "publishing" => MatchesStarting(o)
  /\ \A c \in Callers : caller[c].pc = "stopEvents" => state.kind = "Idle"
  /\ \A c, d \in Callers :
       caller[c].pc = "stopEvents" /\ caller[d].pc = "stopEvents" => c = d

TypeInv == TypeOK /\ CallsCarryOps

\* Where a tunnel is, and that one stop at most has it.
TunnelsOwned ==
  /\ \A o \in Ops : task[o] \in {"none", "creating", "failing", "failed", "erring"}
                      => tunnel[o] = "none"
  /\ \A o \in Ops : task[o] \in {"created", "publishing", "closing"} => tunnel[o] = "open"
  /\ state.kind = "Active" => tunnel[state.id] = "open" /\ task[state.id] = "done"
  /\ \A c \in Callers : caller[c].pc \in {"stopEvents", "closing"} =>
       /\ tunnel[caller[c].life] = "open" /\ task[caller[c].life] = "done"
       /\ ~(state.kind = "Active" /\ state.id = caller[c].life)
  /\ \A c, d \in Callers :
       (/\ caller[c].pc \in {"stopEvents", "closing"}
        /\ caller[d].pc \in {"stopEvents", "closing"}
        /\ caller[c].life = caller[d].life) => c = d

\* A stop that awaits the event task of a lifecycle.
StopAwaits(o) == \E c \in Callers : caller[c].pc = "stopEvents" /\ caller[c].life = o

\* An event task runs for a tunnel that is active, about to be, or awaited by its
\* stop; or dropped by that stop, and then it may still publish.
EventsOwned ==
  /\ \A o \in Ops : task[o] \notin {"publishing", "done"} => event[o] = "none"
  /\ \A o \in Ops : task[o] = "publishing" => event[o] = "running"
  /\ state.kind = "Active" => event[state.id] = "running"
  /\ \A o \in Ops : EventTaskRuns(o) =>
       \/ task[o] = "publishing" \/ tunnel[o] = "dropped" \/ StopAwaits(o)
       \/ state.kind = "Active" /\ state.id = o

\* The status of a tunnel that has an event task and is not what the state says.
OtherActive(life) ==
  life \in Ops /\ (tunnel[life] = "dropped" \/ task[life] = "publishing" \/ StopAwaits(life))

\* PhaseExplained with the mutex held or free.
StatusExplained ==
  \/ status.phase = state.kind /\ (state.kind = "Active" => status.life = state.id)
  \/ status.err \in Ops /\ event[status.err] = "none" /\ task[status.err] = "done"
  \/ status.phase = "Active" /\ OtherActive(status.life)

\* A start that was cancelled owns the state no more, nor does a stop use its id.
CancelledGone ==
  /\ \A o \in cancelled : task[o] # "none" /\ state.id # o
  /\ state.kind \in {"Starting", "Active"} => task[state.id] # "none"
  /\ \A c \in Callers : caller[c].pc \in {"stopEvents", "closing", "finishing"} =>
       task[caller[c].op] = "none"

IInv ==
  /\ TypeInv /\ FreshOps /\ HolderKnowsState /\ NeverWedged /\ NoTunnelLeaked
  /\ TunnelsOwned /\ EventsOwned /\ StatusExplained /\ CancelledGone

\* The records the service is built from are what their sets say.
LEMMA StateTypes ==
  /\ IdleState \in States /\ IdleStatus \in Statuses
  /\ \A o \in Lives : /\ \A k \in {"Idle", "Starting", "Active", "Stopping"} :
                           StateOf(k, o) \in States /\ StatusOf(k, o) \in Statuses
  BY DEF IdleState, IdleStatus, States, Statuses, Lives, StateOf, StatusOf, None, Ops

\* What reset_operation leaves in the state and the status.
LEMMA ResetTypes ==
  ASSUME TypeOK, NEW o, ResetOperation(o)
  PROVE  /\ state' \in States /\ status' \in Statuses
         /\ (state'.kind = "Idle") <=> (state'.id = None)
         /\ state'.attached => state'.kind = "Starting"
<1>1. CASE OwnsOperation(o)
  <2>1. state' = IdleState /\ status' = IdleStatus
    BY <1>1 DEF ResetOperation
  <2>2. IdleState.kind = "Idle" /\ IdleState.id = None /\ ~IdleState.attached
    BY DEF IdleState
  <2> QED BY <2>1, <2>2, StateTypes
<1>2. CASE ~OwnsOperation(o)
  BY <1>2 DEF ResetOperation, TypeOK
<1> QED BY <1>1, <1>2

\* Type correctness, with what calls carry, is inductive.
LEMMA TypeStep == TypeInv /\ [Next]_vars => TypeInv'
<1> SUFFICES ASSUME TypeInv, [Next]_vars PROVE TypeInv'
  OBVIOUS
<1> USE MaxOpsAssumption, StateTypes DEF TypeInv, TypeOK, CallsCarryOps, Lives, Ops, None
<1>1. ASSUME NEW c \in Callers, CallerNext(c) PROVE TypeInv'
  <2> USE DEF CallerPcs, TaskPcs, NoCall
  <2>1. CASE BeginStart(c)
    BY <2>1 DEF BeginStart, StateOf, StatusOf, States, Statuses
  <2>2. CASE AttachStartTask(c)
    <3>1. /\ state' \in States
          /\ (state'.kind = "Idle") <=> (state'.id = None)
          /\ state'.attached => state'.kind = "Starting"
          /\ aborted' \subseteq Ops
      <4>1. CASE MatchesStarting(caller[c].op)
        <5>1. state' = [state EXCEPT !.attached = TRUE] /\ aborted' = aborted
          BY <2>2, <4>1 DEF AttachStartTask
        <5>2. state.kind = "Starting" /\ state \in States
          BY <4>1 DEF MatchesStarting
        <5>3. state' \in States /\ state'.kind = "Starting" /\ state'.id = state.id
          BY <5>1, <5>2 DEF States
        <5> QED BY <5>1, <5>2, <5>3
      <4>2. CASE ~MatchesStarting(caller[c].op)
        BY <2>2, <4>2 DEF AttachStartTask
      <4> QED BY <4>1, <4>2
    <3> QED BY <2>2, <3>1 DEF AttachStartTask
  <2>3. CASE StopStarting(c)
    BY <2>3 DEF StopStarting, IdleState, States
  <2>4. CASE StopActive(c)
    BY <2>4 DEF StopActive, IdleState, States
  <2>5. CASE StopPublishes(c)
    <3>1. caller[c].op \in Ops /\ caller[c].life \in Ops
      BY <2>5 DEF StopPublishes
    <3>2. /\ state' \in States /\ status' \in Statuses
          /\ state'.kind = "Stopping" /\ state'.id # None /\ ~state'.attached
      BY <2>5, <3>1 DEF StopPublishes, StateOf, StatusOf, States, Statuses
    <3> QED BY <2>5, <3>2 DEF StopPublishes
  <2>6. CASE CloseActive(c)
    BY <2>6 DEF CloseActive
  <2>7. CASE FinishStop(c)
    BY <2>7, ResetTypes DEF FinishStop
  <2>8. CASE DropCall(c)
    BY <2>8 DEF DropCall
  <2> QED BY <1>1, <2>1, <2>2, <2>3, <2>4, <2>5, <2>6, <2>7, <2>8 DEF CallerNext
<1>2. ASSUME NEW o \in Ops, TaskNext(o) PROVE TypeInv'
  <2> USE DEF TaskPcs
  <2>1. CASE CreateTunnel(o)
    BY <2>1 DEF CreateTunnel
  <2>2. CASE CreateFails(o)
    BY <2>2 DEF CreateFails
  <2>3. CASE FinishStart(o)
    BY <2>3 DEF FinishStart
  <2>4. CASE PublishActive(o)
    <3>1. /\ state' \in States /\ status' \in Statuses
          /\ state'.kind = "Active" /\ state'.id # None /\ ~state'.attached
      BY <2>4 DEF PublishActive, StateOf, StatusOf, States, Statuses
    <3> QED BY <2>4, <3>1 DEF PublishActive
  <2>5. CASE FinishStaleStart(o)
    BY <2>5 DEF FinishStaleStart
  <2>6. CASE CloseStaleStart(o)
    BY <2>6 DEF CloseStaleStart
  <2>7. CASE FailStart(o)
    BY <2>7, ResetTypes DEF FailStart
  <2>8. CASE ReadStatus(o)
    BY <2>8 DEF ReadStatus
  <2>9. CASE PublishError(o)
    <3>1. status' \in Statuses
      <4>1. snapshot[o] \in Statuses /\ status' = [snapshot[o] EXCEPT !.err = o]
        BY <2>9 DEF PublishError
      <4> QED BY <4>1 DEF Statuses
    <3>2. snapshot' \in [Ops -> Statuses]
      BY <2>9, StateTypes DEF PublishError
    <3>3. task' \in [Ops -> TaskPcs]
      BY <2>9 DEF PublishError
    <3>4. UNCHANGED <<state, nextOp, caller, aborted, event, eventErr, tunnel, resets, cancelled>>
      BY <2>9 DEF PublishError
    <3> QED BY <3>1, <3>2, <3>3, <3>4
  <2>10. CASE DropStartTask(o)
    BY <2>10 DEF DropStartTask
  <2>11. CASE RunReset(o)
    BY <2>11, ResetTypes DEF RunReset
  <2> QED BY <1>2, <2>1, <2>2, <2>3, <2>4, <2>5, <2>6, <2>7, <2>8, <2>9, <2>10, <2>11
          DEF TaskNext
<1>3. ASSUME NEW o \in Ops, EventNext(o) PROVE TypeInv'
  <2>1. CASE RefreshConnections(o)
    BY <2>1 DEF RefreshConnections, EventStatus, Statuses
  <2>2. CASE RecordEventError(o)
    BY <2>2 DEF RecordEventError, EventStatus, Statuses
  <2>3. CASE EventTaskEnds(o)
    BY <2>3 DEF EventTaskEnds
  <2> QED BY <1>3, <2>1, <2>2, <2>3 DEF EventNext
<1>4. CASE UNCHANGED vars
  BY <1>4 DEF vars
<1> QED BY <1>1, <1>2, <1>3, <1>4 DEF Next

\* Operations not drawn yet stay untouched: every task step needs a task.
LEMMA FreshStep == TypeInv /\ FreshOps /\ [Next]_vars => FreshOps'
<1> SUFFICES ASSUME TypeInv /\ FreshOps, [Next]_vars PROVE FreshOps'
  OBVIOUS
<1> USE MaxOpsAssumption DEF TypeInv, TypeOK, CallsCarryOps, FreshOps, Ops, None, Lives, States, MatchesStarting
<1>1. ASSUME NEW c \in Callers, CallerNext(c) PROVE FreshOps'
  <2>1. CASE BeginStart(c)
    <3>1. nextOp' = nextOp + 1 /\ state'.id = nextOp
      BY <2>1 DEF BeginStart, StateOf
    <3>2. \A x \in Ops : x >= nextOp' => task'[x] = "none" /\ tunnel'[x] = "none"
      BY <2>1, <3>1 DEF BeginStart
    <3>3. \A d \in Callers : caller'[d].life < nextOp' /\ caller'[d].op < nextOp'
      BY <2>1, <3>1 DEF BeginStart
    <3> QED BY <3>1, <3>2, <3>3
  <2>2. CASE AttachStartTask(c)
    <3>1. state'.id = state.id
      BY <2>2 DEF AttachStartTask
    <3> QED BY <2>2, <3>1 DEF AttachStartTask, NoCall
  <2>3. CASE StopStarting(c)
    BY <2>3 DEF StopStarting, IdleState
  <2>4. CASE StopActive(c)
    BY <2>4 DEF StopActive, IdleState
  <2>5. CASE StopPublishes(c)
    BY <2>5 DEF StopPublishes, StateOf
  <2>6. CASE CloseActive(c)
    BY <2>6 DEF CloseActive
  <2>7. CASE FinishStop(c)
    BY <2>7 DEF FinishStop, ResetOperation, IdleState, NoCall
  <2>8. CASE DropCall(c)
    BY <2>8 DEF DropCall, NoCall
  <2> QED BY <1>1, <2>1, <2>2, <2>3, <2>4, <2>5, <2>6, <2>7, <2>8 DEF CallerNext
<1>2. ASSUME NEW o \in Ops, TaskNext(o) PROVE FreshOps'
  <2>1. CASE CreateTunnel(o)
    BY <2>1 DEF CreateTunnel
  <2>2. CASE CreateFails(o)
    BY <2>2 DEF CreateFails
  <2>3. CASE FinishStart(o)
    BY <2>3 DEF FinishStart
  <2>4. CASE PublishActive(o)
    BY <2>4 DEF PublishActive, StateOf
  <2>5. CASE FinishStaleStart(o)
    BY <2>5 DEF FinishStaleStart
  <2>6. CASE CloseStaleStart(o)
    BY <2>6 DEF CloseStaleStart
  <2>7. CASE FailStart(o)
    BY <2>7 DEF FailStart, ResetOperation, IdleState
  <2>8. CASE ReadStatus(o)
    BY <2>8 DEF ReadStatus
  <2>9. CASE PublishError(o)
    BY <2>9 DEF PublishError
  <2>10. CASE DropStartTask(o)
    BY <2>10 DEF DropStartTask
  <2>11. CASE RunReset(o)
    BY <2>11 DEF RunReset, ResetOperation, IdleState
  <2> QED BY <1>2, <2>1, <2>2, <2>3, <2>4, <2>5, <2>6, <2>7, <2>8, <2>9, <2>10, <2>11 DEF TaskNext
<1>3. ASSUME NEW o \in Ops, EventNext(o) PROVE FreshOps'
  <2>1. CASE RefreshConnections(o)
    BY <2>1 DEF RefreshConnections
  <2>2. CASE RecordEventError(o)
    BY <2>2 DEF RecordEventError
  <2>3. CASE EventTaskEnds(o)
    BY <2>3 DEF EventTaskEnds
  <2> QED BY <1>3, <2>1, <2>2, <2>3 DEF EventNext
<1>4. CASE UNCHANGED vars
  BY <1>4 DEF vars
<1> QED BY <1>1, <1>2, <1>3, <1>4 DEF Next

\* The mutex is exclusive and its holder's view of the state is stable.
LEMMA HolderStep == TypeInv /\ HolderKnowsState /\ [Next]_vars => HolderKnowsState'
<1> SUFFICES ASSUME TypeInv /\ HolderKnowsState, [Next]_vars PROVE HolderKnowsState'
  OBVIOUS
<1> USE MaxOpsAssumption DEF TypeInv, TypeOK, HolderKnowsState, MatchesStarting, LockFree
<1>1. ASSUME NEW c \in Callers, CallerNext(c) PROVE HolderKnowsState'
  <2>1. CASE BeginStart(c)
    BY <2>1 DEF BeginStart, StateOf, NoCall
  <2>2. CASE AttachStartTask(c)
    BY <2>2 DEF AttachStartTask, NoCall
  <2>3. CASE StopStarting(c)
    BY <2>3 DEF StopStarting, IdleState
  <2>4. CASE StopActive(c)
    BY <2>4 DEF StopActive, IdleState
  <2>5. CASE StopPublishes(c)
    BY <2>5 DEF StopPublishes, StateOf
  <2>6. CASE CloseActive(c)
    BY <2>6 DEF CloseActive
  <2>7. CASE FinishStop(c)
    BY <2>7 DEF FinishStop, ResetOperation, OwnsOperation, IdleState, NoCall
  <2>8. CASE DropCall(c)
    BY <2>8 DEF DropCall, NoCall
  <2> QED BY <1>1, <2>1, <2>2, <2>3, <2>4, <2>5, <2>6, <2>7, <2>8 DEF CallerNext
<1>2. ASSUME NEW o \in Ops, TaskNext(o) PROVE HolderKnowsState'
  <2>1. CASE CreateTunnel(o)
    BY <2>1 DEF CreateTunnel
  <2>2. CASE CreateFails(o)
    BY <2>2 DEF CreateFails
  <2>3. CASE FinishStart(o)
    BY <2>3 DEF FinishStart
  <2>4. CASE PublishActive(o)
    BY <2>4 DEF PublishActive, StateOf
  <2>5. CASE FinishStaleStart(o)
    BY <2>5 DEF FinishStaleStart
  <2>6. CASE CloseStaleStart(o)
    BY <2>6 DEF CloseStaleStart
  <2>7. CASE FailStart(o)
    BY <2>7 DEF FailStart, ResetOperation, OwnsOperation, IdleState
  <2>8. CASE ReadStatus(o)
    BY <2>8 DEF ReadStatus
  <2>9. CASE PublishError(o)
    BY <2>9 DEF PublishError
  <2>10. CASE DropStartTask(o)
    BY <2>10 DEF DropStartTask
  <2>11. CASE RunReset(o)
    BY <2>11 DEF RunReset, ResetOperation, OwnsOperation, IdleState
  <2> QED BY <1>2, <2>1, <2>2, <2>3, <2>4, <2>5, <2>6, <2>7, <2>8, <2>9, <2>10, <2>11 DEF TaskNext
<1>3. ASSUME NEW o \in Ops, EventNext(o) PROVE HolderKnowsState'
  <2>1. CASE RefreshConnections(o)
    BY <2>1 DEF RefreshConnections
  <2>2. CASE RecordEventError(o)
    BY <2>2 DEF RecordEventError
  <2>3. CASE EventTaskEnds(o)
    BY <2>3 DEF EventTaskEnds
  <2> QED BY <1>3, <2>1, <2>2, <2>3 DEF EventNext
<1>4. CASE UNCHANGED vars
  BY <1>4 DEF vars
<1> QED BY <1>1, <1>2, <1>3, <1>4 DEF Next

\* Only the holder of a guard, or the reset it spawned, can let go of an operation.
LEMMA WedgedStep == TypeInv /\ NeverWedged /\ [Next]_vars => NeverWedged'
<1> SUFFICES ASSUME TypeInv /\ NeverWedged, [Next]_vars PROVE NeverWedged'
  OBVIOUS
<1> USE MaxOpsAssumption DEF TypeInv, TypeOK, CallsCarryOps, NeverWedged, StartUnderWay, StopUnderWay, Ops
<1>1. ASSUME NEW c \in Callers, CallerNext(c) PROVE NeverWedged'
  <2>1. CASE BeginStart(c)
    BY <2>1 DEF BeginStart, StateOf, NoCall
  <2>2. CASE AttachStartTask(c)
    <3>1. state'.kind = state.kind /\ state'.id = state.id
      BY <2>2 DEF AttachStartTask, States
    <3>2. \A x \in Lives : StopUnderWay(x) => StopUnderWay(x)'
      BY <2>2 DEF AttachStartTask
    <3>3. \A x \in Lives : StartUnderWay(x) => StartUnderWay(x)'
      BY <2>2 DEF AttachStartTask
    <3>4. resets' = resets /\ state.id \in Lives
      BY <2>2 DEF AttachStartTask, States
    <3> HIDE DEF StartUnderWay, StopUnderWay
    <3> QED BY <3>1, <3>2, <3>3, <3>4
  <2>3. CASE StopStarting(c)
    BY <2>3 DEF StopStarting, IdleState
  <2>4. CASE StopActive(c)
    BY <2>4 DEF StopActive, IdleState
  <2>5. CASE StopPublishes(c)
    BY <2>5 DEF StopPublishes, StateOf
  <2>6. CASE CloseActive(c)
    BY <2>6 DEF CloseActive
  <2>7. CASE FinishStop(c)
    BY <2>7 DEF FinishStop, ResetOperation, OwnsOperation, IdleState, NoCall
  <2>8. CASE DropCall(c)
    BY <2>8 DEF DropCall, NoCall
  <2> QED BY <1>1, <2>1, <2>2, <2>3, <2>4, <2>5, <2>6, <2>7, <2>8 DEF CallerNext
<1>2. ASSUME NEW o \in Ops, TaskNext(o) PROVE NeverWedged'
  <2>1. CASE CreateTunnel(o)
    BY <2>1 DEF CreateTunnel
  <2>2. CASE CreateFails(o)
    BY <2>2 DEF CreateFails
  <2>3. CASE FinishStart(o)
    BY <2>3 DEF FinishStart
  <2>4. CASE PublishActive(o)
    BY <2>4 DEF PublishActive, StateOf
  <2>5. CASE FinishStaleStart(o)
    BY <2>5 DEF FinishStaleStart
  <2>6. CASE CloseStaleStart(o)
    BY <2>6 DEF CloseStaleStart
  <2>7. CASE FailStart(o)
    BY <2>7 DEF FailStart, ResetOperation, OwnsOperation, IdleState
  <2>8. CASE ReadStatus(o)
    BY <2>8 DEF ReadStatus
  <2>9. CASE PublishError(o)
    BY <2>9 DEF PublishError
  <2>10. CASE DropStartTask(o)
    BY <2>10 DEF DropStartTask
  <2>11. CASE RunReset(o)
    BY <2>11 DEF RunReset, ResetOperation, OwnsOperation, IdleState
  <2> QED BY <1>2, <2>1, <2>2, <2>3, <2>4, <2>5, <2>6, <2>7, <2>8, <2>9, <2>10, <2>11 DEF TaskNext
<1>3. ASSUME NEW o \in Ops, EventNext(o) PROVE NeverWedged'
  <2>1. CASE RefreshConnections(o)
    BY <2>1 DEF RefreshConnections
  <2>2. CASE RecordEventError(o)
    BY <2>2 DEF RecordEventError
  <2>3. CASE EventTaskEnds(o)
    BY <2>3 DEF EventTaskEnds
  <2> QED BY <1>3, <2>1, <2>2, <2>3 DEF EventNext
<1>4. CASE UNCHANGED vars
  BY <1>4 DEF vars
<1> QED BY <1>1, <1>2, <1>3, <1>4 DEF Next

\* Whoever gives up a tunnel closes it, drops it or hands it on.
LEMMA LeakStep ==
  TypeInv /\ FreshOps /\ HolderKnowsState /\ NoTunnelLeaked /\ [Next]_vars
    => NoTunnelLeaked'
<1> SUFFICES ASSUME TypeInv /\ FreshOps /\ HolderKnowsState /\ NoTunnelLeaked, [Next]_vars PROVE NoTunnelLeaked'
  OBVIOUS
<1> USE MaxOpsAssumption DEF TypeInv, TypeOK, CallsCarryOps, FreshOps, HolderKnowsState, MatchesStarting, LockFree,
               NoTunnelLeaked, Ops
<1>1. ASSUME NEW c \in Callers, CallerNext(c) PROVE NoTunnelLeaked'
  <2>1. CASE BeginStart(c)
    BY <2>1 DEF BeginStart, StateOf, NoCall
  <2>2. CASE AttachStartTask(c)
    BY <2>2 DEF AttachStartTask, NoCall
  <2>3. CASE StopStarting(c)
    BY <2>3 DEF StopStarting, IdleState
  <2>4. CASE StopActive(c)
    BY <2>4 DEF StopActive, IdleState
  <2>5. CASE StopPublishes(c)
    BY <2>5 DEF StopPublishes, StateOf
  <2>6. CASE CloseActive(c)
    BY <2>6 DEF CloseActive
  <2>7. CASE FinishStop(c)
    BY <2>7 DEF FinishStop, ResetOperation, OwnsOperation, IdleState, NoCall
  <2>8. CASE DropCall(c)
    BY <2>8 DEF DropCall, NoCall
  <2> QED BY <1>1, <2>1, <2>2, <2>3, <2>4, <2>5, <2>6, <2>7, <2>8 DEF CallerNext
<1>2. ASSUME NEW o \in Ops, TaskNext(o) PROVE NoTunnelLeaked'
  <2>1. CASE CreateTunnel(o)
    BY <2>1 DEF CreateTunnel
  <2>2. CASE CreateFails(o)
    BY <2>2 DEF CreateFails
  <2>3. CASE FinishStart(o)
    BY <2>3 DEF FinishStart
  <2>4. CASE PublishActive(o)
    BY <2>4 DEF PublishActive, StateOf
  <2>5. CASE FinishStaleStart(o)
    BY <2>5 DEF FinishStaleStart
  <2>6. CASE CloseStaleStart(o)
    BY <2>6 DEF CloseStaleStart
  <2>7. CASE FailStart(o)
    BY <2>7 DEF FailStart, ResetOperation, OwnsOperation, IdleState
  <2>8. CASE ReadStatus(o)
    BY <2>8 DEF ReadStatus
  <2>9. CASE PublishError(o)
    BY <2>9 DEF PublishError
  <2>10. CASE DropStartTask(o)
    BY <2>10 DEF DropStartTask
  <2>11. CASE RunReset(o)
    BY <2>11 DEF RunReset, ResetOperation, OwnsOperation, IdleState
  <2> QED BY <1>2, <2>1, <2>2, <2>3, <2>4, <2>5, <2>6, <2>7, <2>8, <2>9, <2>10, <2>11 DEF TaskNext
<1>3. ASSUME NEW o \in Ops, EventNext(o) PROVE NoTunnelLeaked'
  <2>1. CASE RefreshConnections(o)
    BY <2>1 DEF RefreshConnections
  <2>2. CASE RecordEventError(o)
    BY <2>2 DEF RecordEventError
  <2>3. CASE EventTaskEnds(o)
    BY <2>3 DEF EventTaskEnds
  <2> QED BY <1>3, <2>1, <2>2, <2>3 DEF EventNext
<1>4. CASE UNCHANGED vars
  BY <1>4 DEF vars
<1> QED BY <1>1, <1>2, <1>3, <1>4 DEF Next

\* A state that is not Idle has an operation.
LEMMA StateHasOperation == TypeOK => (state.kind # "Idle" => state.id \in Ops)
  BY DEF TypeOK, States, Lives, None

\* A start that is attached or aborted leaves everything else as it is.
LEMMA AttachKeeps ==
  ASSUME TypeOK, NEW c \in Callers, AttachStartTask(c)
  PROVE  /\ state'.kind = state.kind /\ state'.id = state.id
         /\ UNCHANGED <<status, nextOp, task, event, tunnel, cancelled>>
         /\ caller[c].pc = "attach" /\ caller'[c].pc = "idle"
         /\ \A d \in Callers : d # c => caller'[d] = caller[d]
<1>1. state'.kind = state.kind /\ state'.id = state.id
  BY DEF AttachStartTask, TypeOK, States
<1>2. UNCHANGED <<status, nextOp, task, event, tunnel, cancelled>>
  BY DEF AttachStartTask
<1>3. /\ caller[c].pc = "attach" /\ caller'[c].pc = "idle"
      /\ \A d \in Callers : d # c => caller'[d] = caller[d]
  BY DEF AttachStartTask, NoCall, TypeOK
<1> QED BY <1>1, <1>2, <1>3

\* A tunnel changes hands as a whole: from its start to the state, from there to one stop.
LEMMA OwnedStep ==
  TypeInv /\ FreshOps /\ HolderKnowsState /\ TunnelsOwned /\ [Next]_vars => TunnelsOwned'
<1> SUFFICES ASSUME TypeInv /\ FreshOps /\ HolderKnowsState /\ TunnelsOwned, [Next]_vars PROVE TunnelsOwned'
  OBVIOUS
<1> USE MaxOpsAssumption DEF TypeInv, TypeOK, CallsCarryOps, FreshOps, HolderKnowsState,
         MatchesStarting, LockFree, TunnelsOwned, Ops
<1>1. ASSUME NEW c \in Callers, CallerNext(c) PROVE TunnelsOwned'
  <2>1. CASE BeginStart(c)
    BY <2>1 DEF BeginStart, StateOf, NoCall
  <2>2. CASE AttachStartTask(c)
    <3>1. /\ state'.kind = state.kind /\ state'.id = state.id
          /\ UNCHANGED <<status, nextOp, task, event, tunnel, cancelled>>
          /\ \A d \in Callers : caller'[d].pc # "idle" => caller'[d] = caller[d]
          /\ \A d \in Callers : caller[d].pc = "stopEvents" => caller'[d] = caller[d]
      BY <2>2, AttachKeeps
    <3> QED BY <3>1
  <2>3. CASE StopStarting(c)
    BY <2>3 DEF StopStarting, IdleState
  <2>4. CASE StopActive(c)
    BY <2>4 DEF StopActive, IdleState
  <2>5. CASE StopPublishes(c)
    BY <2>5 DEF StopPublishes, StateOf
  <2>6. CASE CloseActive(c)
    <3>1. /\ caller[c].pc = "closing" /\ caller[c].life \in Ops
          /\ UNCHANGED <<state, task>>
      BY <2>6 DEF CloseActive
    <3>2. \A x \in Ops : x # caller[c].life => tunnel'[x] = tunnel[x]
      BY <2>6 DEF CloseActive
    <3>3. \A d \in Callers : /\ caller'[d].life = caller[d].life
                             /\ d # c => caller'[d].pc = caller[d].pc
                             /\ caller'[c].pc = "finishing"
      BY <2>6 DEF CloseActive
    <3>4. \A d \in Callers : caller'[d].pc \in {"stopEvents", "closing"} =>
            /\ d # c /\ caller[d].pc \in {"stopEvents", "closing"}
            /\ caller[d].life # caller[c].life /\ caller[d].life \in Ops
      BY <3>1, <3>3
    <3>5. \A x \in Ops : task[x] # "done" => tunnel'[x] = tunnel[x]
      BY <3>1, <3>2
    <3>6. state.kind = "Active" => tunnel'[state.id] = tunnel[state.id]
      BY <3>1, <3>2, StateHasOperation
    <3>7. \A x \in Ops :
            /\ task'[x] \in {"none", "creating", "failing", "failed", "erring"}
                 => tunnel'[x] = "none"
            /\ task'[x] \in {"created", "publishing", "closing"} => tunnel'[x] = "open"
      BY <3>1, <3>5
    <3>8. state'.kind = "Active" => tunnel'[state'.id] = "open" /\ task'[state'.id] = "done"
      BY <3>1, <3>6
    <3>9. \A d \in Callers : caller'[d].pc \in {"stopEvents", "closing"} =>
            /\ tunnel'[caller'[d].life] = "open" /\ task'[caller'[d].life] = "done"
            /\ ~(state'.kind = "Active" /\ state'.id = caller'[d].life)
      BY <3>1, <3>2, <3>3, <3>4
    <3>10. \A d, e \in Callers :
            (/\ caller'[d].pc \in {"stopEvents", "closing"}
             /\ caller'[e].pc \in {"stopEvents", "closing"}
             /\ caller'[d].life = caller'[e].life) => d = e
      BY <3>2, <3>3, <3>4
    <3> QED BY <3>7, <3>8, <3>9, <3>10
  <2>7. CASE FinishStop(c)
    BY <2>7 DEF FinishStop, ResetOperation, OwnsOperation, IdleState, NoCall
  <2>8. CASE DropCall(c)
    <3>1. /\ UNCHANGED <<state, task, event, status>>
          /\ caller[c].pc # "idle" /\ caller[c].life \in Ops
      BY <2>8 DEF DropCall
    <3>2. /\ caller'[c].pc = "idle"
          /\ \A d \in Callers : d # c => caller'[d] = caller[d]
      BY <2>8 DEF DropCall, NoCall
    <3>3. \A x \in Ops :
            tunnel'[x] = IF caller[c].pc \in {"stopEvents", "closing"} /\ x = caller[c].life
                         THEN "dropped" ELSE tunnel[x]
      BY <2>8 DEF DropCall
    <3>4. \A d \in Callers : caller'[d].pc \in {"stopEvents", "closing"} =>
            /\ d # c /\ caller'[d] = caller[d] /\ caller[d].life \in Ops
            /\ tunnel'[caller[d].life] = tunnel[caller[d].life]
      BY <3>1, <3>2, <3>3
    <3>5. \A x \in Ops : task[x] # "done" => tunnel'[x] = tunnel[x]
      BY <3>1, <3>3
    <3>6. state.kind = "Active" => tunnel'[state.id] = tunnel[state.id]
      BY <3>1, <3>3, StateHasOperation
    <3>7. \A x \in Ops :
            /\ task'[x] \in {"none", "creating", "failing", "failed", "erring"}
                 => tunnel'[x] = "none"
            /\ task'[x] \in {"created", "publishing", "closing"} => tunnel'[x] = "open"
      BY <3>1, <3>5
    <3>8. state'.kind = "Active" => tunnel'[state'.id] = "open" /\ task'[state'.id] = "done"
      BY <3>1, <3>6
    <3>9. \A d \in Callers : caller'[d].pc \in {"stopEvents", "closing"} =>
            /\ tunnel'[caller'[d].life] = "open" /\ task'[caller'[d].life] = "done"
            /\ ~(state'.kind = "Active" /\ state'.id = caller'[d].life)
      BY <3>1, <3>4
    <3>10. \A d, e \in Callers :
            (/\ caller'[d].pc \in {"stopEvents", "closing"}
             /\ caller'[e].pc \in {"stopEvents", "closing"}
             /\ caller'[d].life = caller'[e].life) => d = e
      BY <3>4
    <3> QED BY <3>7, <3>8, <3>9, <3>10
  <2> QED BY <1>1, <2>1, <2>2, <2>3, <2>4, <2>5, <2>6, <2>7, <2>8 DEF CallerNext
<1>2. ASSUME NEW o \in Ops, TaskNext(o) PROVE TunnelsOwned'
  <2>1. CASE CreateTunnel(o)
    BY <2>1 DEF CreateTunnel
  <2>2. CASE CreateFails(o)
    BY <2>2 DEF CreateFails
  <2>3. CASE FinishStart(o)
    BY <2>3 DEF FinishStart
  <2>4. CASE PublishActive(o)
    BY <2>4 DEF PublishActive, StateOf
  <2>5. CASE FinishStaleStart(o)
    BY <2>5 DEF FinishStaleStart
  <2>6. CASE CloseStaleStart(o)
    BY <2>6 DEF CloseStaleStart
  <2>7. CASE FailStart(o)
    BY <2>7 DEF FailStart, ResetOperation, OwnsOperation, IdleState
  <2>8. CASE ReadStatus(o)
    BY <2>8 DEF ReadStatus
  <2>9. CASE PublishError(o)
    BY <2>9 DEF PublishError
  <2>10. CASE DropStartTask(o)
    BY <2>10 DEF DropStartTask
  <2>11. CASE RunReset(o)
    BY <2>11 DEF RunReset, ResetOperation, OwnsOperation, IdleState
  <2> QED BY <1>2, <2>1, <2>2, <2>3, <2>4, <2>5, <2>6, <2>7, <2>8, <2>9, <2>10, <2>11 DEF TaskNext
<1>3. ASSUME NEW o \in Ops, EventNext(o) PROVE TunnelsOwned'
  <2>1. CASE RefreshConnections(o)
    BY <2>1 DEF RefreshConnections
  <2>2. CASE RecordEventError(o)
    BY <2>2 DEF RecordEventError
  <2>3. CASE EventTaskEnds(o)
    BY <2>3 DEF EventTaskEnds
  <2> QED BY <1>3, <2>1, <2>2, <2>3 DEF EventNext
<1>4. CASE UNCHANGED vars
  BY <1>4 DEF vars
<1> QED BY <1>1, <1>2, <1>3, <1>4 DEF Next

\* An event task is started with the tunnel, and ends before a stop goes on.
LEMMA EventStep ==
  TypeInv /\ FreshOps /\ HolderKnowsState /\ TunnelsOwned /\ EventsOwned /\ [Next]_vars => EventsOwned'
<1> SUFFICES ASSUME TypeInv /\ FreshOps /\ HolderKnowsState /\ TunnelsOwned /\ EventsOwned, [Next]_vars PROVE EventsOwned'
  OBVIOUS
<1> USE MaxOpsAssumption DEF TypeInv, TypeOK, CallsCarryOps, FreshOps, HolderKnowsState,
         MatchesStarting, LockFree, TunnelsOwned, EventsOwned, EventTaskRuns, StopAwaits, Ops
<1>1. ASSUME NEW c \in Callers, CallerNext(c) PROVE EventsOwned'
  <2>1. CASE BeginStart(c)
    BY <2>1 DEF BeginStart, StateOf, NoCall
  <2>2. CASE AttachStartTask(c)
    <3>1. /\ state'.kind = state.kind /\ state'.id = state.id
          /\ UNCHANGED <<status, nextOp, task, event, tunnel, cancelled>>
          /\ \A d \in Callers : caller'[d].pc # "idle" => caller'[d] = caller[d]
          /\ \A d \in Callers : caller[d].pc = "stopEvents" => caller'[d] = caller[d]
      BY <2>2, AttachKeeps
    <3>2. \A x \in Ops : StopAwaits(x) => StopAwaits(x)'
      BY <3>1
    <3> HIDE DEF StopAwaits
    <3> QED BY <3>1, <3>2
  <2>3. CASE StopStarting(c)
    BY <2>3 DEF StopStarting, IdleState
  <2>4. CASE StopActive(c)
    BY <2>4 DEF StopActive, IdleState
  <2>5. CASE StopPublishes(c)
    BY <2>5 DEF StopPublishes, StateOf
  <2>6. CASE CloseActive(c)
    BY <2>6 DEF CloseActive
  <2>7. CASE FinishStop(c)
    BY <2>7 DEF FinishStop, ResetOperation, OwnsOperation, IdleState, NoCall
  <2>8. CASE DropCall(c)
    <3>1. /\ UNCHANGED <<state, task, event, status>>
          /\ caller[c].pc # "idle" /\ caller[c].life \in Ops
      BY <2>8 DEF DropCall
    <3>2. /\ caller'[c].pc = "idle"
          /\ \A d \in Callers : d # c => caller'[d] = caller[d]
      BY <2>8 DEF DropCall, NoCall
    <3>3. \A x \in Ops :
            tunnel'[x] = IF caller[c].pc \in {"stopEvents", "closing"} /\ x = caller[c].life
                         THEN "dropped" ELSE tunnel[x]
      BY <2>8 DEF DropCall
    <3>4. \A x \in Ops : EventTaskRuns(x)' =>
            \/ task'[x] = "publishing" \/ tunnel'[x] = "dropped" \/ StopAwaits(x)'
            \/ state'.kind = "Active" /\ state'.id = x
      <4> TAKE x \in Ops
      <4>1. SUFFICES ASSUME EventTaskRuns(x), StopAwaits(x)
                     PROVE  tunnel'[x] = "dropped" \/ StopAwaits(x)'
        BY <3>1, <3>3
      <4>2. PICK d \in Callers : caller[d].pc = "stopEvents" /\ caller[d].life = x
        BY <4>1
      <4>3. CASE d = c
        BY <4>2, <4>3, <3>3
      <4>4. CASE d # c
        BY <4>2, <4>4, <3>2
      <4> QED BY <4>3, <4>4
    <3> QED BY <3>1, <3>4
  <2> QED BY <1>1, <2>1, <2>2, <2>3, <2>4, <2>5, <2>6, <2>7, <2>8 DEF CallerNext
<1>2. ASSUME NEW o \in Ops, TaskNext(o) PROVE EventsOwned'
  <2>1. CASE CreateTunnel(o)
    BY <2>1 DEF CreateTunnel
  <2>2. CASE CreateFails(o)
    BY <2>2 DEF CreateFails
  <2>3. CASE FinishStart(o)
    BY <2>3 DEF FinishStart
  <2>4. CASE PublishActive(o)
    BY <2>4 DEF PublishActive, StateOf
  <2>5. CASE FinishStaleStart(o)
    BY <2>5 DEF FinishStaleStart
  <2>6. CASE CloseStaleStart(o)
    BY <2>6 DEF CloseStaleStart
  <2>7. CASE FailStart(o)
    BY <2>7 DEF FailStart, ResetOperation, OwnsOperation, IdleState
  <2>8. CASE ReadStatus(o)
    BY <2>8 DEF ReadStatus
  <2>9. CASE PublishError(o)
    BY <2>9 DEF PublishError
  <2>10. CASE DropStartTask(o)
    BY <2>10 DEF DropStartTask
  <2>11. CASE RunReset(o)
    BY <2>11 DEF RunReset, ResetOperation, OwnsOperation, IdleState
  <2> QED BY <1>2, <2>1, <2>2, <2>3, <2>4, <2>5, <2>6, <2>7, <2>8, <2>9, <2>10, <2>11 DEF TaskNext
<1>3. ASSUME NEW o \in Ops, EventNext(o) PROVE EventsOwned'
  <2>1. CASE RefreshConnections(o)
    BY <2>1 DEF RefreshConnections
  <2>2. CASE RecordEventError(o)
    BY <2>2 DEF RecordEventError
  <2>3. CASE EventTaskEnds(o)
    BY <2>3 DEF EventTaskEnds
  <2> QED BY <1>3, <2>1, <2>2, <2>3 DEF EventNext
<1>4. CASE UNCHANGED vars
  BY <1>4 DEF vars
<1> QED BY <1>1, <1>2, <1>3, <1>4 DEF Next

\* What is published is the state, the error of a failed start, or an event task's Active.
LEMMA ExplainStep ==
  TypeInv /\ FreshOps /\ HolderKnowsState /\ TunnelsOwned /\ EventsOwned /\ StatusExplained /\ [Next]_vars => StatusExplained'
<1> SUFFICES ASSUME TypeInv /\ FreshOps /\ HolderKnowsState /\ TunnelsOwned /\ EventsOwned /\ StatusExplained, [Next]_vars PROVE StatusExplained'
  OBVIOUS
<1> USE MaxOpsAssumption DEF TypeInv, TypeOK, CallsCarryOps, FreshOps, HolderKnowsState,
         MatchesStarting, LockFree, TunnelsOwned, EventsOwned, EventTaskRuns, StopAwaits,
         StatusExplained, OtherActive, Ops
<1>1. ASSUME NEW c \in Callers, CallerNext(c) PROVE StatusExplained'
  <2>1. CASE BeginStart(c)
    BY <2>1 DEF BeginStart, StateOf, NoCall, StatusOf
  <2>2. CASE AttachStartTask(c)
    <3>1. /\ state'.kind = state.kind /\ state'.id = state.id
          /\ UNCHANGED <<status, nextOp, task, event, tunnel, cancelled>>
          /\ \A d \in Callers : caller'[d].pc # "idle" => caller'[d] = caller[d]
          /\ \A d \in Callers : caller[d].pc = "stopEvents" => caller'[d] = caller[d]
      BY <2>2, AttachKeeps
    <3>2. OtherActive(status.life) => OtherActive(status.life)'
      BY <3>1
    <3> HIDE DEF OtherActive
    <3> QED BY <3>1, <3>2
  <2>3. CASE StopStarting(c)
    BY <2>3 DEF StopStarting, IdleState, IdleStatus
  <2>4. CASE StopActive(c)
    <3> PICK x \in Ops : x = state.id
      BY <2>4, StateHasOperation DEF StopActive
    <3>1. /\ state.kind = "Active" /\ state'.kind = "Idle"
          /\ UNCHANGED <<status, task, tunnel>>
      BY <2>4 DEF StopActive, IdleState
    <3>2. \A y \in Ops : event[y] = "none" => event'[y] = "none"
      BY <2>4, <3>1 DEF StopActive
    <3>3. StopAwaits(x)'
      BY <2>4 DEF StopActive, IdleState
    <3>4. \A y \in Ops : ~StopAwaits(y)
      BY <2>4 DEF StopActive
    <3>5. OtherActive(status.life) => OtherActive(status.life)'
      BY <3>1, <3>4
    <3>6. status.phase = "Active" /\ status.life = x => OtherActive(status.life)'
      BY <3>1, <3>3
    <3> HIDE DEF OtherActive
    <3> QED BY <3>1, <3>2, <3>5, <3>6
  <2>5. CASE StopPublishes(c)
    BY <2>5 DEF StopPublishes, StateOf, StatusOf
  <2>6. CASE CloseActive(c)
    <3>1. UNCHANGED <<state, status, task, event>>
      BY <2>6 DEF CloseActive
    <3>2. \A x \in Ops : tunnel[x] = "dropped" => tunnel'[x] = "dropped"
      BY <2>6 DEF CloseActive
    <3>3. \A x \in Ops : StopAwaits(x) => StopAwaits(x)'
      BY <2>6 DEF CloseActive
    <3>4. OtherActive(status.life) => OtherActive(status.life)'
      <4> HIDE DEF StopAwaits
      <4> QED BY <3>1, <3>2, <3>3
    <3> HIDE DEF OtherActive
    <3> QED BY <3>1, <3>4
  <2>7. CASE FinishStop(c)
    BY <2>7 DEF FinishStop, ResetOperation, OwnsOperation, IdleState, NoCall, IdleStatus
  <2>8. CASE DropCall(c)
    <3>1. /\ UNCHANGED <<state, task, event, status>>
          /\ caller[c].pc # "idle" /\ caller[c].life \in Ops
      BY <2>8 DEF DropCall
    <3>2. /\ caller'[c].pc = "idle"
          /\ \A d \in Callers : d # c => caller'[d] = caller[d]
      BY <2>8 DEF DropCall, NoCall
    <3>3. \A x \in Ops :
            tunnel'[x] = IF caller[c].pc \in {"stopEvents", "closing"} /\ x = caller[c].life
                         THEN "dropped" ELSE tunnel[x]
      BY <2>8 DEF DropCall
    <3>4. ASSUME NEW x \in Ops, StopAwaits(x) PROVE tunnel'[x] = "dropped" \/ StopAwaits(x)'
      <4>1. PICK d \in Callers : caller[d].pc = "stopEvents" /\ caller[d].life = x
        BY <3>4
      <4>2. CASE d = c
        BY <4>1, <4>2, <3>3
      <4>3. CASE d # c
        BY <4>1, <4>3, <3>2
      <4> QED BY <4>2, <4>3
    <3>5. \A x \in Ops : tunnel[x] = "dropped" => tunnel'[x] = "dropped"
      BY <3>3
    <3>6. OtherActive(status.life) => OtherActive(status.life)'
      BY <3>1, <3>4, <3>5
    <3> HIDE DEF OtherActive
    <3> QED BY <3>1, <3>6
  <2> QED BY <1>1, <2>1, <2>2, <2>3, <2>4, <2>5, <2>6, <2>7, <2>8 DEF CallerNext
<1>2. ASSUME NEW o \in Ops, TaskNext(o) PROVE StatusExplained'
  <2>1. CASE CreateTunnel(o)
    BY <2>1 DEF CreateTunnel
  <2>2. CASE CreateFails(o)
    BY <2>2 DEF CreateFails
  <2>3. CASE FinishStart(o)
    BY <2>3 DEF FinishStart
  <2>4. CASE PublishActive(o)
    BY <2>4 DEF PublishActive, StateOf, StatusOf
  <2>5. CASE FinishStaleStart(o)
    BY <2>5 DEF FinishStaleStart
  <2>6. CASE CloseStaleStart(o)
    BY <2>6 DEF CloseStaleStart
  <2>7. CASE FailStart(o)
    BY <2>7 DEF FailStart, ResetOperation, OwnsOperation, IdleState, IdleStatus
  <2>8. CASE ReadStatus(o)
    BY <2>8 DEF ReadStatus
  <2>9. CASE PublishError(o)
    BY <2>9 DEF PublishError, Statuses
  <2>10. CASE DropStartTask(o)
    BY <2>10 DEF DropStartTask
  <2>11. CASE RunReset(o)
    BY <2>11 DEF RunReset, ResetOperation, OwnsOperation, IdleState, IdleStatus
  <2> QED BY <1>2, <2>1, <2>2, <2>3, <2>4, <2>5, <2>6, <2>7, <2>8, <2>9, <2>10, <2>11 DEF TaskNext
<1>3. ASSUME NEW o \in Ops, EventNext(o) PROVE StatusExplained'
  <2>1. CASE RefreshConnections(o)
    BY <2>1 DEF RefreshConnections, EventStatus
  <2>2. CASE RecordEventError(o)
    BY <2>2 DEF RecordEventError, EventStatus
  <2>3. CASE EventTaskEnds(o)
    BY <2>3 DEF EventTaskEnds
  <2> QED BY <1>3, <2>1, <2>2, <2>3 DEF EventNext
<1>4. CASE UNCHANGED vars
  BY <1>4 DEF vars
<1> QED BY <1>1, <1>2, <1>3, <1>4 DEF Next

\* Ids are drawn once, so neither a later start nor a stop has that of a cancelled start.
LEMMA CancelStep ==
  TypeInv /\ FreshOps /\ HolderKnowsState /\ TunnelsOwned /\ CancelledGone /\ [Next]_vars => CancelledGone'
<1> SUFFICES ASSUME TypeInv /\ FreshOps /\ HolderKnowsState /\ TunnelsOwned /\ CancelledGone, [Next]_vars PROVE CancelledGone'
  OBVIOUS
<1> USE MaxOpsAssumption DEF TypeInv, TypeOK, CallsCarryOps, FreshOps, HolderKnowsState,
         MatchesStarting, LockFree, TunnelsOwned, CancelledGone, Ops
<1>1. ASSUME NEW c \in Callers, CallerNext(c) PROVE CancelledGone'
  <2>1. CASE BeginStart(c)
    BY <2>1 DEF BeginStart, StateOf, NoCall
  <2>2. CASE AttachStartTask(c)
    <3>1. /\ state'.kind = state.kind /\ state'.id = state.id
          /\ UNCHANGED <<status, nextOp, task, event, tunnel, cancelled>>
          /\ \A d \in Callers : caller'[d].pc # "idle" => caller'[d] = caller[d]
          /\ \A d \in Callers : caller[d].pc = "stopEvents" => caller'[d] = caller[d]
      BY <2>2, AttachKeeps
    <3> QED BY <3>1
  <2>3. CASE StopStarting(c)
    <3>1. /\ state.kind = "Starting" /\ state'.kind = "Idle" /\ state'.id = None
          /\ cancelled' = cancelled \cup {state.id} /\ UNCHANGED <<task, caller>>
      BY <2>3 DEF StopStarting, IdleState
    <3> QED BY <3>1 DEF None
  <2>4. CASE StopActive(c)
    <3>1. /\ state'.kind = "Idle" /\ state'.id = None /\ UNCHANGED <<task, cancelled>>
          /\ nextOp \in Ops /\ caller'[c].op = nextOp
          /\ \A d \in Callers : d # c => caller'[d] = caller[d]
      BY <2>4 DEF StopActive, IdleState
    <3>2. task[nextOp] = "none"
      BY <3>1
    <3>3. \A d \in Callers : caller'[d].pc \in {"stopEvents", "closing", "finishing"} =>
            task'[caller'[d].op] = "none"
      <4> TAKE d \in Callers
      <4>1. CASE d = c
        BY <4>1, <3>1, <3>2
      <4>2. CASE d # c
        BY <4>2, <3>1
      <4> QED BY <4>1, <4>2
    <3>4. \A o \in cancelled' : task'[o] # "none" /\ state'.id # o
      <4>1. cancelled \subseteq Ops /\ None \notin Ops
        BY DEF None
      <4> QED BY <3>1, <4>1
    <3> QED BY <3>1, <3>3, <3>4
  <2>5. CASE StopPublishes(c)
    BY <2>5 DEF StopPublishes, StateOf
  <2>6. CASE CloseActive(c)
    <3>1. UNCHANGED <<state, task, cancelled>> /\ caller[c].pc = "closing"
      BY <2>6 DEF CloseActive
    <3>2. \A d \in Callers : d # c => caller'[d] = caller[d]
      BY <2>6 DEF CloseActive
    <3>3. caller'[c].op = caller[c].op
      BY <2>6 DEF CloseActive
    <3>4. \A d \in Callers : caller'[d].pc \in {"stopEvents", "closing", "finishing"} =>
            task'[caller'[d].op] = "none"
      <4> TAKE d \in Callers
      <4>1. CASE d = c
        BY <4>1, <3>1, <3>3
      <4>2. CASE d # c
        BY <4>2, <3>1, <3>2
      <4> QED BY <4>1, <4>2
    <3> QED BY <3>1, <3>4
  <2>7. CASE FinishStop(c)
    <3>1. /\ UNCHANGED <<task, cancelled>>
          /\ UNCHANGED state \/ (state'.kind = "Idle" /\ state'.id = None)
      BY <2>7 DEF FinishStop, ResetOperation, IdleState
    <3>2. \A d \in Callers : caller'[d].pc # "idle" => caller'[d] = caller[d]
      BY <2>7 DEF FinishStop, NoCall
    <3>3. \A d \in Callers : caller'[d].pc \in {"stopEvents", "closing", "finishing"} =>
            task'[caller'[d].op] = "none"
      BY <3>1, <3>2
    <3> QED BY <3>1, <3>3 DEF None
  <2>8. CASE DropCall(c)
    BY <2>8 DEF DropCall, NoCall
  <2> QED BY <1>1, <2>1, <2>2, <2>3, <2>4, <2>5, <2>6, <2>7, <2>8 DEF CallerNext
<1>2. ASSUME NEW o \in Ops, TaskNext(o) PROVE CancelledGone'
  <2>1. CASE CreateTunnel(o)
    BY <2>1 DEF CreateTunnel
  <2>2. CASE CreateFails(o)
    BY <2>2 DEF CreateFails
  <2>3. CASE FinishStart(o)
    BY <2>3 DEF FinishStart
  <2>4. CASE PublishActive(o)
    BY <2>4 DEF PublishActive, StateOf
  <2>5. CASE FinishStaleStart(o)
    BY <2>5 DEF FinishStaleStart
  <2>6. CASE CloseStaleStart(o)
    BY <2>6 DEF CloseStaleStart
  <2>7. CASE FailStart(o)
    BY <2>7 DEF FailStart, ResetOperation, OwnsOperation, IdleState, None
  <2>8. CASE ReadStatus(o)
    BY <2>8 DEF ReadStatus
  <2>9. CASE PublishError(o)
    BY <2>9 DEF PublishError
  <2>10. CASE DropStartTask(o)
    BY <2>10 DEF DropStartTask
  <2>11. CASE RunReset(o)
    BY <2>11 DEF RunReset, ResetOperation, OwnsOperation, IdleState, None
  <2> QED BY <1>2, <2>1, <2>2, <2>3, <2>4, <2>5, <2>6, <2>7, <2>8, <2>9, <2>10, <2>11 DEF TaskNext
<1>3. ASSUME NEW o \in Ops, EventNext(o) PROVE CancelledGone'
  <2>1. CASE RefreshConnections(o)
    BY <2>1 DEF RefreshConnections
  <2>2. CASE RecordEventError(o)
    BY <2>2 DEF RecordEventError
  <2>3. CASE EventTaskEnds(o)
    BY <2>3 DEF EventTaskEnds
  <2> QED BY <1>3, <2>1, <2>2, <2>3 DEF EventNext
<1>4. CASE UNCHANGED vars
  BY <1>4 DEF vars
<1> QED BY <1>1, <1>2, <1>3, <1>4 DEF Next

\* The invariant holds before anyone calls.
LEMMA InitIInv == Init => IInv
<1> SUFFICES ASSUME Init PROVE IInv
  OBVIOUS
<1> USE DEF Init
<1>1. TypeInv
  BY MaxOpsAssumption, StateTypes
     DEF TypeInv, TypeOK, CallsCarryOps, NoCall, CallerPcs, TaskPcs, Lives, Ops, None,
         IdleState
<1>2. FreshOps
  BY DEF FreshOps, NoCall, IdleState, None, Ops
<1>3. HolderKnowsState
  BY DEF HolderKnowsState, NoCall
<1>4. NeverWedged /\ NoTunnelLeaked
  BY DEF NeverWedged, NoTunnelLeaked, IdleState
<1>5. /\ state.kind = "Idle" /\ cancelled = {}
      /\ \A c \in Callers : caller[c].pc = "idle"
      /\ \A o \in Ops : task[o] = "none" /\ tunnel[o] = "none" /\ event[o] = "none"
  BY DEF IdleState, NoCall
<1>8. TunnelsOwned
  <2> HIDE DEF Init
  <2> QED BY <1>5 DEF TunnelsOwned
<1>9. CancelledGone
  BY <1>5 DEF CancelledGone
<1>6. EventsOwned
  BY DEF EventsOwned, EventTaskRuns, IdleState
<1>7. StatusExplained
  BY DEF StatusExplained, IdleState, IdleStatus
<1> QED BY <1>1, <1>2, <1>3, <1>4, <1>6, <1>7, <1>8, <1>9 DEF IInv

\* The inductive invariant holds in every state.
LEMMA Invariance == Spec => []IInv
<1>1. IInv /\ [Next]_vars => IInv'
  BY TypeStep, FreshStep, HolderStep, WedgedStep, LeakStep, OwnedStep, EventStep, ExplainStep,
     CancelStep DEF IInv
<1> QED BY InitIInv, <1>1, PTL DEF Spec

\* The state, the status and every task's position stay within their types.
THEOREM TypeCorrect == Spec => []TypeOK
<1>1. IInv => TypeOK
  BY DEF IInv, TypeInv
<1> QED BY Invariance, <1>1, PTL

\* No order of failures, aborts and dropped futures leaves the service in
\* Starting or Stopping with nobody left to take it out.
THEOREM ServiceNeverWedged == Spec => []NeverWedged
<1>1. IInv => NeverWedged
  BY DEF IInv
<1> QED BY Invariance, <1>1, PTL

\* No order of failures, aborts and dropped futures leaves a tunnel open with
\* nobody to use or close it.
THEOREM TunnelsNeverLeaked == Spec => []NoTunnelLeaked
<1>1. IInv => NoTunnelLeaked
  BY DEF IInv
<1> QED BY Invariance, <1>1, PTL

\* While the mutex is free, a status whose phase is not that of the state has the
\* error of a failed start, or is the last word of a tunnel whose stop was dropped.
THEOREM PhasesAreExplained == Spec => []PhaseExplained
<1>1. IInv => PhaseExplained
  <2> SUFFICES ASSUME IInv, LockFree, status.phase # state.kind PROVE PhaseExplained
    BY DEF PhaseExplained
  <2>1. CASE status.err \in Ops /\ event[status.err] = "none"
    BY <2>1 DEF PhaseExplained, Ops, None
  <2>2. CASE status.phase = "Active" /\ OtherActive(status.life)
    <3>1. tunnel[status.life] = "dropped"
      BY <2>2 DEF OtherActive, LockFree, StopAwaits
    <3> QED BY <2>2, <3>1 DEF PhaseExplained
  <2> QED BY <2>1, <2>2 DEF IInv, StatusExplained
<1> QED BY Invariance, <1>1, PTL

\* A stop waits for no event task that it has not told to end.
StopsAwaitTheEnd ==
  \A c \in Callers : caller[c].pc = "stopEvents" => event[caller[c].life] \in {"aborted", "dead"}

\* Whoever holds the mutex across an await goes on, or the event task it awaits ends.
HolderProceeds ==
  \/ \E o \in Ops : task[o] = "publishing"
  \/ \E c \in Callers :
       caller[c].pc = "stopEvents" /\ event[caller[c].life] \in {"aborted", "dead"}

\* An event task does not start again.
LEMMA AwaitStep ==
  TypeInv /\ TunnelsOwned /\ StopsAwaitTheEnd /\ [Next]_vars => StopsAwaitTheEnd'
<1> SUFFICES ASSUME TypeInv, TunnelsOwned, StopsAwaitTheEnd, [Next]_vars
             PROVE  StopsAwaitTheEnd'
  OBVIOUS
<1> USE DEF TypeInv, TypeOK, CallsCarryOps, TunnelsOwned, StopsAwaitTheEnd
<1>1. ASSUME NEW c \in Callers, CallerNext(c) PROVE StopsAwaitTheEnd'
  <2>1. CASE StopActive(c)
    <3>1. state.id \in Ops
      BY <2>1, StateHasOperation DEF StopActive
    <3> QED BY <2>1, <3>1 DEF StopActive
  <2>2. CASE BeginStart(c) \/ AttachStartTask(c) \/ FinishStop(c) \/ DropCall(c)
    <3>1. /\ event' = event
          /\ caller'[c].pc # "stopEvents"
          /\ \A d \in Callers : d # c => caller'[d] = caller[d]
      BY <2>2 DEF BeginStart, AttachStartTask, FinishStop, DropCall, NoCall
    <3> QED BY <3>1
  <2>3. CASE StopStarting(c)
    BY <2>3 DEF StopStarting
  <2>4. CASE StopPublishes(c) \/ CloseActive(c)
    BY <2>4 DEF StopPublishes, CloseActive
  <2> QED BY <1>1, <2>1, <2>2, <2>3, <2>4 DEF CallerNext
<1>2. ASSUME NEW o \in Ops, TaskNext(o) PROVE StopsAwaitTheEnd'
  <2>1. CASE FinishStart(o)
    <3>1. \A c \in Callers : caller[c].pc = "stopEvents" => caller[c].life # o
      BY <2>1 DEF FinishStart
    <3> QED BY <2>1, <3>1 DEF FinishStart
  <2>2. CASE ~FinishStart(o)
    BY <1>2, <2>2
       DEF TaskNext, CreateTunnel, CreateFails, PublishActive, FinishStaleStart,
           CloseStaleStart, FailStart, ReadStatus, PublishError, DropStartTask, RunReset
  <2> QED BY <2>1, <2>2
<1>3. ASSUME NEW o \in Ops, EventNext(o) PROVE StopsAwaitTheEnd'
  <2>1. caller' = caller /\ (event' = event \/ event' = [event EXCEPT ![o] = "dead"])
    BY <1>3 DEF EventNext, RefreshConnections, RecordEventError, EventTaskEnds
  <2>2. \A c \in Callers : caller[c].pc = "stopEvents" =>
          event'[caller[c].life] \in {"aborted", "dead"}
    BY <2>1
  <2> QED BY <2>1, <2>2
<1>4. CASE UNCHANGED vars
  BY <1>4 DEF vars
<1> QED BY <1>1, <1>2, <1>3, <1>4 DEF Next

\* The mutex is never held for ever: finish_start, which holds it, goes on, and a
\* begin_stop that holds it while it awaits the event task awaits one that it has told
\* to end.  No caller or task that waits for the mutex is waited for by its holder.
\* This is the safety part of StopReturns, StoppingEnds and TunnelSettles.
THEOREM MutexIsHandedOn == Spec => [](LockFree \/ HolderProceeds)
<1>1. Init => StopsAwaitTheEnd
  BY DEF Init, StopsAwaitTheEnd, NoCall
<1>2. IInv /\ StopsAwaitTheEnd /\ [Next]_vars => StopsAwaitTheEnd'
  BY AwaitStep DEF IInv
<1>3. StopsAwaitTheEnd => LockFree \/ HolderProceeds
  BY DEF StopsAwaitTheEnd, LockFree, HolderProceeds
<1> QED BY <1>1, <1>2, <1>3, Invariance, PTL DEF Spec

\* Neither the task of a start that a stop has cancelled nor the reset it leaves
\* behind touches the state of the service again.
THEOREM CancelledNeverAct == Spec => CancelledStartNeverActs
<1>1. IInv /\ [Next]_vars =>
        [\A o \in cancelled :
           task'[o] # task[o] \/ (o \in resets /\ o \notin resets') => UNCHANGED state]_vars
  <2> SUFFICES ASSUME IInv, Next, NEW o \in cancelled,
                      task'[o] # task[o] \/ (o \in resets /\ o \notin resets')
               PROVE  UNCHANGED state
    BY DEF vars
  <2> USE DEF IInv, TypeInv, TypeOK
  <2>1. o \in Ops /\ state.id # o /\ task[o] # "none"
    BY DEF CancelledGone
  <2>2. ASSUME NEW c \in Callers, CallerNext(c) PROVE UNCHANGED state
    <3>1. task' = task \/ BeginStart(c)
      BY <2>2 DEF CallerNext, AttachStartTask, StopStarting, StopActive, StopPublishes,
                  CloseActive, FinishStop, DropCall
    <3>2. resets \subseteq resets'
      BY <2>2 DEF CallerNext, BeginStart, AttachStartTask, StopStarting, StopActive,
                  StopPublishes, CloseActive, FinishStop, DropCall
    <3>3. BeginStart(c)
      BY <3>1, <3>2
    <3>4. task'[o] = task[o]
      BY <3>3, <2>1 DEF BeginStart, FreshOps, Ops
    <3> QED BY <3>2, <3>4
  <2>3. ASSUME NEW x \in Ops, TaskNext(x) PROVE UNCHANGED state
    <3>1. CASE PublishActive(x)
      BY <3>1, <2>1 DEF PublishActive, HolderKnowsState, MatchesStarting
    <3>2. CASE FailStart(x)
      BY <3>2, <2>1 DEF FailStart, ResetOperation, OwnsOperation
    <3>3. CASE RunReset(x)
      BY <3>3, <2>1 DEF RunReset, ResetOperation, OwnsOperation
    <3> QED BY <2>3, <3>1, <3>2, <3>3
            DEF TaskNext, CreateTunnel, CreateFails, FinishStart, FinishStaleStart,
                CloseStaleStart, ReadStatus, PublishError, DropStartTask
  <2>4. ASSUME NEW x \in Ops, EventNext(x) PROVE UNCHANGED state
    BY <2>4 DEF EventNext, RefreshConnections, RecordEventError, EventTaskEnds
  <2> QED BY <2>2, <2>3, <2>4 DEF Next
<1>2. Spec => []IInv /\ [][Next]_vars
  BY Invariance DEF Spec
<1> QED BY <1>1, <1>2, PTL DEF CancelledStartNeverActs

-----------------------------------------------------------------------------
(* The lifecycles of the service are those of TunnelLifecycle *)

\* The lifecycles that are over, as Lifecycle has them.
OverLives == {o \in Ops : task[o] # "none" /\ o # CurrentLife}

\* The lifecycle of a state no stop has left yet.
LifeIn(s) == IF s.kind \in {"Starting", "Active"} THEN s.id ELSE None

NoStopper == \A c \in Callers : caller[c].pc # "stopEvents"

\* Without a stopper the lifecycle is that of the state, before and after a step.
LEMMA LifeOfState ==
  /\ NoStopper => LifecyclePhase = state.kind /\ CurrentLife = LifeIn(state)
  /\ NoStopper' => LifecyclePhase' = state'.kind /\ CurrentLife' = LifeIn(state')
<1>1. ASSUME NoStopper PROVE LifecyclePhase = state.kind /\ CurrentLife = LifeIn(state)
  <2>1. Stoppers = {}
    BY <1>1 DEF Stoppers, NoStopper
  <2> QED BY <2>1 DEF LifecyclePhase, CurrentLife, LifeIn
<1>2. ASSUME NoStopper' PROVE LifecyclePhase' = state'.kind /\ CurrentLife' = LifeIn(state')
  <2>1. Stoppers' = {}
    BY <1>2 DEF Stoppers, NoStopper
  <2> QED BY <2>1 DEF LifecyclePhase, CurrentLife, LifeIn
<1> QED BY <1>1, <1>2

\* There is one stopper at most, so it is the one that CurrentLife chooses.
LEMMA LifeOfStop ==
  ASSUME HolderKnowsState, NEW c \in Callers, caller[c].pc = "stopEvents"
  PROVE  LifecyclePhase = "Active" /\ CurrentLife = caller[c].life
<1>1. Stoppers = {c}
  BY DEF Stoppers, HolderKnowsState
<1>2. (CHOOSE d \in Stoppers : TRUE) = c /\ Stoppers # {}
  BY <1>1
<1> QED BY <1>2 DEF LifecyclePhase, CurrentLife

\* The same after a step.
LEMMA LifeOfNextStop ==
  ASSUME HolderKnowsState', NEW c \in Callers, caller'[c].pc = "stopEvents"
  PROVE  LifecyclePhase' = "Active" /\ CurrentLife' = caller'[c].life
<1>1. Stoppers' = {c}
  BY DEF Stoppers, HolderKnowsState
<1>2. (CHOOSE d \in Stoppers' : TRUE) = c /\ Stoppers' # {}
  BY <1>1
<1> QED BY <1>2 DEF LifecyclePhase, CurrentLife

\* No step but the start of an operation gives it a task.
TasksKept == \A o \in Ops : task'[o] # "none" <=> task[o] # "none"

\* The service begins where its abstraction does.
LEMMA LifecycleInit == Init => Lifecycle!Init
<1> SUFFICES ASSUME Init PROVE Lifecycle!Init
  OBVIOUS
<1>1. NoStopper
  BY DEF Init, NoCall, NoStopper
<1>2. state.kind = "Idle" /\ \A o \in Ops : task[o] = "none"
  BY DEF Init, IdleState
<1>3. LifecyclePhase = "Idle" /\ CurrentLife = None
  BY <1>1, <1>2, LifeOfState DEF LifeIn
<1> QED BY <1>2, <1>3 DEF Lifecycle!Init

\* A step that the abstraction does not see.
LEMMA LifecycleStutters ==
  ASSUME UNCHANGED <<LifecyclePhase, CurrentLife>>, TasksKept
  PROVE  UNCHANGED Lifecycle!lvars
<1>1. OverLives' = OverLives
  BY DEF OverLives, TasksKept
<1> QED BY <1>1 DEF OverLives, Lifecycle!lvars

\* A lifecycle ends: it is over from now on.
LEMMA LifecycleEnds ==
  ASSUME TasksKept, CurrentLife \in Ops, task[CurrentLife] # "none", CurrentLife' = None
  PROVE  OverLives' = OverLives \cup {CurrentLife}
  BY DEF OverLives, TasksKept, Ops, None

\* A start that ends before it is active abandons its lifecycle.
LEMMA LifecycleAbandons ==
  ASSUME TasksKept, CurrentLife \in Ops, task[CurrentLife] # "none",
         LifecyclePhase = "Starting", LifecyclePhase' = "Idle", CurrentLife' = None
  PROVE  Lifecycle!Next
  BY LifecycleEnds DEF OverLives, Lifecycle!Next, Lifecycle!Abandon, Lifecycle!Ends

\* A reset abandons the start it is for, if that still owns the state.
LEMMA ResetImplements ==
  ASSUME IInv, NoStopper, NoStopper', TasksKept, NEW o \in Ops, ResetOperation(o)
  PROVE  [Lifecycle!Next]_(Lifecycle!lvars)
<1> USE LifeOfState DEF LifeIn
<1>1. CASE ~OwnsOperation(o)
  BY <1>1, LifecycleStutters DEF ResetOperation
<1>2. CASE OwnsOperation(o) /\ state.kind = "Starting"
  <2>1. state'.kind = "Idle" /\ state.id = o /\ task[o] # "none"
    BY <1>2 DEF ResetOperation, OwnsOperation, IdleState, IInv, CancelledGone
  <2>2. LifecyclePhase = "Starting" /\ LifecyclePhase' = "Idle" /\ CurrentLife = o /\ CurrentLife' = None
    BY <1>2, <2>1
  <2> QED BY <2>1, <2>2, LifecycleAbandons
<1>3. CASE OwnsOperation(o) /\ state.kind = "Stopping"
  <2>1. state'.kind = "Idle"
    BY <1>3 DEF ResetOperation, IdleState
  <2>2. LifecyclePhase = "Stopping" /\ LifecyclePhase' = "Idle" /\ CurrentLife = None /\ CurrentLife' = None
    BY <1>3, <2>1
  <2>3. OverLives' = OverLives
    BY <2>2 DEF OverLives, TasksKept
  <2> QED BY <2>2, <2>3 DEF OverLives, Lifecycle!Next, Lifecycle!Stopped
<1> QED BY <1>1, <1>2, <1>3 DEF OwnsOperation

\* Steps that move neither the state nor a stop that awaits an event task.
LEMMA LifecycleWaits ==
  ASSUME HolderKnowsState, HolderKnowsState', TasksKept,
         state'.kind = state.kind, state'.id = state.id,
         \A c \in Callers : /\ caller'[c].pc = "stopEvents" <=> caller[c].pc = "stopEvents"
                            /\ caller[c].pc = "stopEvents" => caller'[c] = caller[c]
  PROVE  UNCHANGED Lifecycle!lvars
<1>1. CASE NoStopper
  <2>1. NoStopper'
    BY <1>1 DEF NoStopper
  <2>2. UNCHANGED <<LifecyclePhase, CurrentLife>>
    BY <1>1, <2>1, LifeOfState DEF LifeIn
  <2> QED BY <2>2, LifecycleStutters
<1>2. ASSUME NEW c \in Callers, caller[c].pc = "stopEvents" PROVE UNCHANGED Lifecycle!lvars
  <2>1. caller'[c].pc = "stopEvents" /\ caller'[c].life = caller[c].life
    BY <1>2
  <2>2. UNCHANGED <<LifecyclePhase, CurrentLife>>
    BY <1>2, <2>1, LifeOfStop, LifeOfNextStop
  <2> QED BY <2>2, LifecycleStutters
<1> QED BY <1>1, <1>2 DEF NoStopper

LEMMA LifecycleCalls ==
  ASSUME IInv, IInv', NEW c \in Callers, CallerNext(c)
  PROVE  [Lifecycle!Next]_(Lifecycle!lvars)
<1> USE DEF IInv, TypeInv, TypeOK
<1>1. CASE BeginStart(c)
  <2>1. /\ nextOp \in Ops /\ task[nextOp] = "none" /\ nextOp # None
        /\ \A o \in Ops : o # nextOp => task'[o] = task[o]
    BY <1>1, MaxOpsAssumption DEF BeginStart, FreshOps, Ops, None
  <2>2. /\ state.kind = "Idle" /\ state'.kind = "Starting" /\ state'.id = nextOp
        /\ NoStopper /\ NoStopper'
    BY <1>1 DEF BeginStart, StateOf, LockFree, NoStopper
  <2>3. /\ LifecyclePhase = "Idle" /\ LifecyclePhase' = "Starting"
        /\ CurrentLife = None /\ CurrentLife' = nextOp
    BY <2>2, LifeOfState DEF LifeIn
  <2>4. OverLives' = OverLives /\ nextOp \notin OverLives
    BY <2>1, <2>3 DEF OverLives, Ops, None
  <2> QED BY <2>1, <2>3, <2>4 DEF OverLives, Lifecycle!Next, Lifecycle!Start
<1>2. CASE AttachStartTask(c)
  BY <1>2, AttachKeeps, LifecycleWaits DEF TasksKept
<1>3. CASE StopStarting(c)
  <2>1. /\ state.kind = "Starting" /\ state'.kind = "Idle" /\ NoStopper /\ NoStopper'
        /\ TasksKept
    BY <1>3 DEF StopStarting, IdleState, LockFree, NoStopper, TasksKept
  <2>2. /\ LifecyclePhase = "Starting" /\ LifecyclePhase' = "Idle"
        /\ CurrentLife = state.id /\ CurrentLife' = None
    BY <2>1, LifeOfState DEF LifeIn
  <2>3. state.id \in Ops /\ task[state.id] # "none"
    BY <2>1, StateHasOperation DEF CancelledGone
  <2> QED BY <2>1, <2>2, <2>3, LifecycleAbandons
<1>4. CASE StopActive(c)
  <2>1. /\ state.kind = "Active" /\ NoStopper /\ TasksKept
        /\ caller'[c].pc = "stopEvents" /\ caller'[c].life = state.id
    BY <1>4 DEF StopActive, LockFree, NoStopper, TasksKept
  <2>2. LifecyclePhase = "Active" /\ CurrentLife = state.id
    BY <2>1, LifeOfState DEF LifeIn
  <2>3. LifecyclePhase' = "Active" /\ CurrentLife' = state.id
    BY <2>1, LifeOfNextStop
  <2> QED BY <2>1, <2>2, <2>3, LifecycleStutters
<1>5. CASE StopPublishes(c)
  <2>1. /\ caller[c].pc = "stopEvents" /\ state'.kind = "Stopping" /\ TasksKept
        /\ \A d \in Callers : d # c => caller'[d] = caller[d]
        /\ caller'[c].pc = "closing"
    BY <1>5 DEF StopPublishes, StateOf, TasksKept
  <2>2. NoStopper'
    BY <2>1 DEF NoStopper, HolderKnowsState
  <2>3. /\ LifecyclePhase = "Active" /\ CurrentLife = caller[c].life
        /\ LifecyclePhase' = "Stopping" /\ CurrentLife' = None
    BY <2>1, <2>2, LifeOfStop, LifeOfState DEF LifeIn
  <2>4. caller[c].life \in Ops /\ task[caller[c].life] # "none"
    BY <2>1 DEF CallsCarryOps, TunnelsOwned
  <2>5. OverLives' = OverLives \cup {CurrentLife}
    BY <2>1, <2>3, <2>4, LifecycleEnds
  <2> QED BY <2>3, <2>5 DEF OverLives, Lifecycle!Next, Lifecycle!Stop, Lifecycle!Ends
<1>6. CASE CloseActive(c)
  <2>1. /\ UNCHANGED <<state, task>> /\ caller[c].pc = "closing"
        /\ \A d \in Callers : d # c => caller'[d] = caller[d]
        /\ caller'[c].pc = "finishing"
    BY <1>6 DEF CloseActive
  <2> QED BY <2>1, LifecycleWaits DEF TasksKept
<1>7. CASE FinishStop(c)
  <2>1. /\ NoStopper /\ NoStopper' /\ TasksKept /\ ResetOperation(caller[c].op)
        /\ caller[c].op \in Ops
    BY <1>7 DEF FinishStop, LockFree, NoStopper, NoCall, TasksKept, CallsCarryOps
  <2> QED BY <2>1, ResetImplements
<1>8. CASE DropCall(c)
  <2>1. /\ CallMayBeDropped /\ TasksKept /\ UNCHANGED state
        /\ \A d \in Callers : d # c => caller'[d] = caller[d]
        /\ caller'[c].pc = "idle"
    BY <1>8 DEF DropCall, NoCall, TasksKept
  <2>2. CASE caller[c].pc # "stopEvents"
    BY <2>1, <2>2, LifecycleWaits
  <2>3. CASE caller[c].pc = "stopEvents"
    <3>1. NoStopper' /\ state'.kind = "Idle"
      BY <2>1, <2>3 DEF NoStopper, HolderKnowsState
    <3>2. /\ LifecyclePhase = "Active" /\ CurrentLife = caller[c].life
          /\ LifecyclePhase' = "Idle" /\ CurrentLife' = None
      BY <2>3, <3>1, LifeOfStop, LifeOfState DEF LifeIn
    <3>3. caller[c].life \in Ops /\ task[caller[c].life] # "none"
      BY <2>3 DEF CallsCarryOps, TunnelsOwned
    <3>4. OverLives' = OverLives \cup {CurrentLife}
      BY <2>1, <3>2, <3>3, LifecycleEnds
    <3> QED BY <2>1, <3>2, <3>4
            DEF OverLives, Lifecycle!Next, Lifecycle!LoseTunnel, Lifecycle!Ends
  <2> QED BY <2>2, <2>3
<1> QED BY <1>1, <1>2, <1>3, <1>4, <1>5, <1>6, <1>7, <1>8 DEF CallerNext

LEMMA LifecycleTasks ==
  ASSUME IInv, IInv', NEW o \in Ops, TaskNext(o)
  PROVE  [Lifecycle!Next]_(Lifecycle!lvars)
<1> USE DEF IInv, TypeInv, TypeOK
<1>1. CASE PublishActive(o)
  <2>1. /\ task[o] = "publishing" /\ task'[o] = "done"
        /\ \A x \in Ops : x # o => task'[x] = task[x]
        /\ state'.kind = "Active" /\ state'.id = o /\ caller' = caller
    BY <1>1 DEF PublishActive, StateOf
  <2>2. state.kind = "Starting" /\ state.id = o
    BY <2>1 DEF HolderKnowsState, MatchesStarting
  <2>3. NoStopper /\ NoStopper' /\ TasksKept
    BY <2>1, <2>2 DEF NoStopper, HolderKnowsState, TasksKept
  <2>4. /\ LifecyclePhase = "Starting" /\ LifecyclePhase' = "Active"
        /\ CurrentLife = o /\ CurrentLife' = o
    BY <2>1, <2>2, <2>3, LifeOfState DEF LifeIn
  <2>5. OverLives' = OverLives
    BY <2>3, <2>4 DEF OverLives, TasksKept
  <2> QED BY <2>4, <2>5 DEF OverLives, Lifecycle!Next, Lifecycle!Activate
<1>2. CASE FailStart(o)
  <2>1. NoStopper /\ NoStopper' /\ TasksKept /\ ResetOperation(o)
    BY <1>2 DEF FailStart, LockFree, NoStopper, TasksKept
  <2> QED BY <2>1, ResetImplements
<1>3. CASE RunReset(o)
  <2>1. NoStopper /\ NoStopper' /\ TasksKept /\ ResetOperation(o)
    BY <1>3 DEF RunReset, LockFree, NoStopper, TasksKept
  <2> QED BY <2>1, ResetImplements
<1>4. CASE \/ CreateTunnel(o) \/ CreateFails(o) \/ FinishStart(o) \/ FinishStaleStart(o)
           \/ CloseStaleStart(o) \/ ReadStatus(o) \/ PublishError(o) \/ DropStartTask(o)
  <2>1. UNCHANGED <<state, caller>> /\ TasksKept
    BY <1>4 DEF CreateTunnel, CreateFails, FinishStart, FinishStaleStart, CloseStaleStart,
                ReadStatus, PublishError, DropStartTask, TasksKept
  <2> QED BY <2>1, LifecycleWaits
<1> QED BY <1>1, <1>2, <1>3, <1>4 DEF TaskNext

\* The service goes through its lifecycles as TunnelLifecycle has them: one at a
\* time, only the start under way becomes active, and none comes back, whatever its
\* callers, start tasks, dropped futures and late resets do.
THEOREM ImplementsLifecycle == Spec => LifecycleSpec
<1>1. IInv /\ IInv' /\ [Next]_vars => [Lifecycle!Next]_(Lifecycle!lvars)
  <2> SUFFICES ASSUME IInv, IInv', [Next]_vars PROVE [Lifecycle!Next]_(Lifecycle!lvars)
    OBVIOUS
  <2>1. ASSUME NEW o \in Ops, EventNext(o) PROVE [Lifecycle!Next]_(Lifecycle!lvars)
    <3>1. UNCHANGED <<state, caller, task>>
      BY <2>1 DEF EventNext, RefreshConnections, RecordEventError, EventTaskEnds
    <3> QED BY <3>1, LifecycleWaits DEF IInv, TasksKept
  <2>2. CASE UNCHANGED vars
    BY <2>2, LifecycleWaits DEF IInv, TasksKept, vars
  <2> QED BY <2>1, <2>2, LifecycleCalls, LifecycleTasks DEF Next
<1> QED BY LifecycleInit, Invariance, <1>1, PTL DEF Spec, LifecycleSpec, Lifecycle!Spec

-----------------------------------------------------------------------------
(* Clients *)

\* A step beside a client is a step of the service.
LEMMA ClientsTakeSteps == [ClientNext]_<<vars, clientVars>> => [Next]_vars
<1> SUFFICES ASSUME [ClientNext]_<<vars, clientVars>> PROVE [Next]_vars
  OBVIOUS
<1>1. ASSUME NEW c \in Callers, CallerNext(c) PROVE [Next]_vars
  BY <1>1 DEF Next
<1>2. ASSUME NEW o \in Ops, TaskNext(o) \/ EventNext(o) PROVE [Next]_vars
  BY <1>2 DEF Next
<1>3. CASE ClientStarts \/ ClientStarted \/ ClientStops
  <2>1. CallerNext(Client)
    BY <1>3 DEF ClientStarts, ClientStarted, ClientStops, CallerNext
  <2> QED BY <2>1, <1>1, ClientAssumption
<1>4. CASE ClientRefused \/ ClientReceives \/ Interrupt \/ NothingToStop
  BY <1>4 DEF ClientRefused, ClientReceives, ReceiveStatus, ReceiveLag, ReceiveEvent,
              Interrupt, NothingToStop
<1>5. ASSUME NEW c \in Callers, OtherCalls(c) PROVE [Next]_vars
  BY <1>5, <1>1 DEF OtherCalls
<1>6. ASSUME NEW o \in Ops,
             StartTaskRuns(o) \/ ErrorWithEvent(o) \/ StatusRefreshed(o) \/ ForwardError(o)
      PROVE [Next]_vars
  <2>1. TaskNext(o) \/ EventNext(o)
    BY <1>6 DEF StartTaskRuns, ErrorWithEvent, StatusRefreshed, ForwardError, TaskNext,
                EventNext
  <2> QED BY <2>1, <1>2
<1>7. ASSUME NEW o \in Ops, NEW event_ \in {"error", "other"}, ForwardEvent(o, event_)
      PROVE [Next]_vars
  BY <1>7 DEF ForwardEvent
<1>8. CASE UNCHANGED <<vars, clientVars>>
  BY <1>8
<1> QED BY <1>3, <1>4, <1>5, <1>6, <1>7, <1>8 DEF ClientNext

\* The service beside a client does nothing that it does not do by itself: each
\* step of the client is a step of one of its callers, or none.
THEOREM ClientsAreCallers == ClientSpec => Spec
<1>1. ClientInit => Init
  BY DEF ClientInit
<1> QED BY <1>1, ClientsTakeSteps, PTL DEF ClientSpec, Spec

\* An event that is sent to a full channel takes the place of the oldest one.
LEMMA BacklogKept ==
  ASSUME ClientTypeOK, NEW event_ \in {"error", "other"}, Send(event_)
  PROVE  /\ events' \in Seq({"error", "other"}) /\ Len(events') <= Backlog
         /\ lagged' \in BOOLEAN
<1>1. CASE Len(events) < Backlog
  BY <1>1, BacklogAssumption DEF ClientTypeOK, Send
<1>2. CASE ~(Len(events) < Backlog)
  <2>1. events # <<>>
    BY <1>2, BacklogAssumption DEF ClientTypeOK
  <2>2. Tail(events) \in Seq({"error", "other"}) /\ Len(Tail(events)) = Len(events) - 1
    BY <2>1 DEF ClientTypeOK
  <2> QED BY <1>2, <2>2, BacklogAssumption DEF ClientTypeOK, Send
<1> QED BY <1>1, <1>2

\* A client begins with an empty subscription.
LEMMA ClientTypeInit == ClientInit => ClientTypeOK
<1> SUFFICES ASSUME ClientInit PROVE ClientTypeOK
  OBVIOUS
<1>1. waiter \in Waiters /\ unseen \in BOOLEAN /\ lagged \in BOOLEAN
  BY DEF ClientInit, Waiters
<1>2. events = <<>>
  BY DEF ClientInit
<1>3. events \in Seq({"error", "other"}) /\ Len(events) = 0
  BY <1>2
<1> QED BY <1>1, <1>3, BacklogAssumption DEF ClientTypeOK

\* A subscription keeps to the capacity of its channel.
LEMMA ClientTypeStep == ClientTypeOK /\ [ClientNext]_<<vars, clientVars>> => ClientTypeOK'
<1> SUFFICES ASSUME ClientTypeOK, [ClientNext]_<<vars, clientVars>> PROVE ClientTypeOK'
  OBVIOUS
<1>1. CASE \/ ClientStarts \/ ClientRefused \/ ClientStarted \/ Interrupt
           \/ ClientStops \/ NothingToStop
  BY <1>1 DEF ClientTypeOK, Waiters, ClientStarts, ClientRefused, ClientStarted, Interrupt,
              ClientStops, NothingToStop, Notify, Quiet, subscription
<1>2. CASE ReceiveStatus \/ ReceiveLag
  BY <1>2 DEF ClientTypeOK, Waiters, ReceiveStatus, ReceiveLag, AfterStatus, AfterEvent
<1>3. CASE ReceiveEvent
  <2>1. Tail(events) \in Seq({"error", "other"}) /\ Len(Tail(events)) <= Backlog
    BY <1>3, BacklogAssumption DEF ClientTypeOK, ReceiveEvent
  <2> QED BY <1>3, <2>1 DEF ClientTypeOK, Waiters, ReceiveEvent, AfterEvent
<1>4. ASSUME NEW c \in Callers, OtherCalls(c) PROVE ClientTypeOK'
  BY <1>4 DEF ClientTypeOK, OtherCalls, Notify, Quiet
<1>5. ASSUME NEW o \in Ops, StartTaskRuns(o) \/ StatusRefreshed(o) PROVE ClientTypeOK'
  BY <1>5 DEF ClientTypeOK, StartTaskRuns, StatusRefreshed, Notify, Quiet
<1>6. ASSUME NEW o \in Ops, ErrorWithEvent(o) \/ ForwardError(o) PROVE ClientTypeOK'
  <2>1. Send("error")
    BY <1>6 DEF ErrorWithEvent, ForwardError
  <2> QED BY <1>6, <2>1, BacklogKept DEF ClientTypeOK, ErrorWithEvent, ForwardError, Notify
<1>7. ASSUME NEW o \in Ops, NEW event_ \in {"error", "other"}, ForwardEvent(o, event_)
      PROVE ClientTypeOK'
  <2>1. Send(event_)
    BY <1>7 DEF ForwardEvent
  <2> QED BY <1>7, <2>1, BacklogKept DEF ClientTypeOK, ForwardEvent
<1>8. CASE UNCHANGED <<vars, clientVars>>
  BY <1>8 DEF ClientTypeOK, clientVars, subscription
<1> QED BY <1>1, <1>2, <1>3, <1>4, <1>5, <1>6, <1>7, <1>8 DEF ClientNext, ClientReceives

\* A subscription never holds more than the channel's capacity of events, and the
\* client is always at one of its waits.
THEOREM ClientTypeCorrect == ClientSpec => []ClientTypeOK
BY ClientTypeInit, ClientTypeStep, PTL DEF ClientSpec

-----------------------------------------------------------------------------
(* The answer of a join *)

\* The client has not got its answer.
Unanswered == waiter \in {"subscribed", "starting", "waiting"}

\* Its subscription holds an error event, or will report that it has dropped events.
ErrorComing == lagged \/ \E i \in DOMAIN events : events[i] = "error"

\* What the client has made of the last status it received was no answer.
StatusSeen == Unanswered /\ ~unseen => status.phase \in {"Starting", "Stopping"}

\* No error is published, and none copied to be published, without its event.
SomeError ==
  status.err # None \/ eventErr # {} \/ \E o \in Ops : snapshot[o].err # None
ErrorSent == Unanswered /\ SomeError => ErrorComing

\* The start that the client awaits is its own.
Attaching == caller[Client].pc = "attach" => waiter = "starting"

ClientInv == ClientTypeOK /\ StatusSeen /\ ErrorSent /\ Attaching

\* A client whose service has come to rest has something to receive that ends its wait.
AnswerWaits ==
  waiter = "waiting" /\ state.kind \in {"Idle", "Active"} =>
    \/ unseen /\ AfterStatus(status.phase) # "waiting"
    \/ ErrorComing

\* Only publish_error and the event task bring an error into the status.
LEMMA NoNewErrors ==
  ASSUME TypeOK, SomeError',
         \/ \E c \in Callers : CallerNext(c)
         \/ \E o \in Ops : task[o] # "erring" /\ TaskNext(o)
         \/ \E o \in Ops : RefreshConnections(o) \/ EventTaskEnds(o)
  PROVE  SomeError
<1> DEFINE NoError(s) == s.err = None
<1>1. NoError(IdleStatus) /\ \A k, o : NoError(StatusOf(k, o))
  BY DEF IdleStatus, StatusOf
<1>2. \A o : EventStatus(o, o \in eventErr).err # None => eventErr # {}
  BY DEF EventStatus
<1>3. ASSUME eventErr' = eventErr, snapshot' = snapshot,
             status' = status \/ NoError(status')
      PROVE  SomeError
  BY <1>3 DEF SomeError
<1>4. ASSUME NEW c \in Callers, CallerNext(c) PROVE SomeError
  <2>1. eventErr' = eventErr /\ snapshot' = snapshot
    BY <1>4 DEF CallerNext, BeginStart, AttachStartTask, StopStarting, StopActive, StopPublishes,
                CloseActive, FinishStop, DropCall
  <2>2. status' = status \/ NoError(status')
    <3> HIDE DEF NoError
    <3> QED BY <1>1, <1>4 DEF CallerNext, BeginStart, AttachStartTask, StopStarting, StopActive,
               StopPublishes, CloseActive, FinishStop, DropCall, ResetOperation
  <2> QED BY <2>1, <2>2, <1>3
<1>5. ASSUME NEW o \in Ops, ReadStatus(o) PROVE SomeError
  <2>1. snapshot' = [snapshot EXCEPT ![o] = status] /\ UNCHANGED <<status, eventErr>>
    BY <1>5 DEF ReadStatus
  <2>2. \A r \in Ops : snapshot'[r] = snapshot[r] \/ snapshot'[r] = status
    BY <2>1 DEF TypeOK
  <2> QED BY <2>1, <2>2 DEF SomeError
<1>6. ASSUME NEW o \in Ops, task[o] # "erring", TaskNext(o), ~ReadStatus(o) PROVE SomeError
  <2>1. eventErr' = eventErr /\ snapshot' = snapshot
    BY <1>6 DEF TaskNext, CreateTunnel, CreateFails, FinishStart, PublishActive, FinishStaleStart,
                CloseStaleStart, FailStart, PublishError, DropStartTask, RunReset
  <2>2. status' = status \/ NoError(status')
    <3> HIDE DEF NoError
    <3> QED BY <1>1, <1>6 DEF TaskNext, CreateTunnel, CreateFails, FinishStart, PublishActive,
               FinishStaleStart, CloseStaleStart, FailStart, PublishError, DropStartTask, RunReset,
               ResetOperation
  <2> QED BY <2>1, <2>2, <1>3
<1>7. ASSUME NEW o \in Ops, RefreshConnections(o) PROVE SomeError
  BY <1>2, <1>7 DEF RefreshConnections, SomeError
<1>8. ASSUME NEW o \in Ops, EventTaskEnds(o) PROVE SomeError
  BY <1>8 DEF EventTaskEnds, SomeError
<1> QED BY <1>4, <1>5, <1>6, <1>7, <1>8

\* A full channel drops an event, perhaps the error, but tells the receiver.
LEMMA SentComes ==
  ASSUME ClientTypeOK, NEW event_ \in {"error", "other"}, Send(event_)
  PROVE  ErrorComing \/ event_ = "error" => ErrorComing'
<1>0. events \in Seq({"error", "other"})
  BY DEF ClientTypeOK
<1>1. CASE Len(events) < Backlog
  <2>1. events' = Append(events, event_) /\ lagged' = lagged
    BY <1>1 DEF Send
  <2>2. /\ \A i \in DOMAIN events : i \in DOMAIN events' /\ events'[i] = events[i]
        /\ Len(events) + 1 \in DOMAIN events' /\ events'[Len(events) + 1] = event_
    BY <1>0, <2>1
  <2> QED BY <2>1, <2>2 DEF ErrorComing
<1>2. CASE ~(Len(events) < Backlog)
  BY <1>2 DEF Send, ErrorComing
<1> QED BY <1>1, <1>2

\* An event that is received is the first; the others are kept.
LEMMA ReceivedComes ==
  ASSUME ClientTypeOK, ReceiveEvent, ErrorComing, Unanswered'
  PROVE  ErrorComing'
<1>1. /\ events \in Seq({"error", "other"}) /\ events # <<>> /\ events' = Tail(events)
      /\ waiter' = AfterEvent(Head(events)) /\ ~lagged
  BY DEF ClientTypeOK, ReceiveEvent
<1>2. PICK i \in DOMAIN events : events[i] = "error"
  BY <1>1 DEF ErrorComing
<1>3. Head(events) = events[1]
  BY <1>1
<1>4. i # 1
  <2>1. waiter \in {"waiting", "running"}
    BY DEF ReceiveEvent, Receiving
  <2> QED BY <1>1, <1>2, <1>3, <2>1 DEF AfterEvent, Unanswered
<1>5. i - 1 \in DOMAIN events' /\ events'[i - 1] = events[i]
  BY <1>1, <1>4
<1> QED BY <1>2, <1>5 DEF ErrorComing

\* A step of the client that receives nothing, or of another task that publishes no
\* error, keeps what has been sent.
LEMMA QuietKeeps ==
  ASSUME ClientInv, TypeOK, Notify, Quiet, Unanswered' => Unanswered,
         SomeError' => SomeError
  PROVE  StatusSeen' /\ ErrorSent'
BY DEF ClientInv, StatusSeen, ErrorSent, Notify, Quiet, ErrorComing

\* A status with an error comes with its event, sent in the same step.
LEMMA LoudKeeps ==
  ASSUME ClientInv, Notify, Send("error"), Unanswered' => Unanswered
  PROVE  StatusSeen' /\ ErrorSent'
<1>1. ErrorComing'
  BY SentComes DEF ClientInv
<1> QED BY <1>1 DEF ClientInv, StatusSeen, ErrorSent, Notify

\* Every step of the client or of the service keeps the answer on its way: a
\* status that is no answer has been looked at, and an error has its event.
LEMMA AnswerStep ==
  ASSUME TypeOK, ClientInv, [ClientNext]_<<vars, clientVars>>
  PROVE  StatusSeen' /\ ErrorSent'
<1>1. CASE ClientStarts \/ ClientStarted \/ ClientStops
  <2>1. CallerNext(Client) /\ Client \in Callers
    BY <1>1, ClientAssumption DEF ClientStarts, ClientStarted, ClientStops, CallerNext
  <2>2. SomeError' => SomeError
    BY <2>1, NoNewErrors
  <2>3. Unanswered' => Unanswered
    <3>1. ClientStarted => caller[Client].pc = "attach"
      BY DEF ClientStarted, AttachStartTask
    <3> QED BY <1>1, <3>1 DEF ClientStarts, ClientStops, ClientInv, Attaching, Unanswered
  <2> QED BY <1>1, <2>2, <2>3, QuietKeeps DEF ClientStarts, ClientStarted, ClientStops
<1>2. CASE ClientRefused \/ Interrupt \/ NothingToStop
  <2>1. ~Unanswered'
    BY <1>2 DEF ClientRefused, Interrupt, NothingToStop, Unanswered
  <2> QED BY <2>1 DEF StatusSeen, ErrorSent
<1>3. CASE ReceiveStatus
  <2>1. waiter \in {"waiting", "running"} /\ status.phase \in {"Idle", "Starting", "Active", "Stopping"}
    BY <1>3 DEF ReceiveStatus, Receiving, TypeOK, Statuses
  <2>2. Unanswered' => Unanswered /\ status.phase \in {"Starting", "Stopping"}
    BY <1>3, <2>1 DEF ReceiveStatus, AfterStatus, Unanswered
  <2> QED BY <1>3, <2>2 DEF ReceiveStatus, ClientInv, StatusSeen, ErrorSent, ErrorComing, SomeError,
             vars
<1>4. CASE ReceiveLag
  <2>1. waiter \in {"waiting", "running"} /\ waiter' = AfterEvent("error")
    BY <1>4 DEF ReceiveLag, Receiving
  <2>2. ~Unanswered'
    BY <2>1 DEF AfterEvent, Unanswered
  <2> QED BY <2>2 DEF StatusSeen, ErrorSent
<1>5. CASE ReceiveEvent
  <2>1. Unanswered' => Unanswered
    BY <1>5 DEF ReceiveEvent, Receiving, AfterEvent, Unanswered
  <2>2. UNCHANGED <<status, eventErr, snapshot, unseen>>
    BY <1>5 DEF ReceiveEvent, vars
  <2>3. StatusSeen'
    BY <2>1, <2>2 DEF ClientInv, StatusSeen
  <2>4. ErrorSent'
    BY <1>5, <2>1, <2>2, ReceivedComes DEF ClientInv, ErrorSent, SomeError
  <2> QED BY <2>3, <2>4
<1>6. ASSUME NEW c \in Callers, OtherCalls(c) PROVE StatusSeen' /\ ErrorSent'
  <2>1. SomeError' => SomeError
    BY <1>6, NoNewErrors DEF OtherCalls
  <2> QED BY <1>6, <2>1, QuietKeeps DEF OtherCalls, Unanswered
<1>7. ASSUME NEW o \in Ops, StartTaskRuns(o) \/ StatusRefreshed(o) PROVE StatusSeen' /\ ErrorSent'
  <2>1. SomeError' => SomeError
    BY <1>7, NoNewErrors DEF StartTaskRuns, StatusRefreshed
  <2> QED BY <1>7, <2>1, QuietKeeps DEF StartTaskRuns, StatusRefreshed, Unanswered
<1>8. ASSUME NEW o \in Ops, ErrorWithEvent(o) \/ ForwardError(o) PROVE StatusSeen' /\ ErrorSent'
  BY <1>8, LoudKeeps DEF ErrorWithEvent, ForwardError, Unanswered
<1>9. ASSUME NEW o \in Ops, NEW event_ \in {"error", "other"}, ForwardEvent(o, event_)
      PROVE StatusSeen' /\ ErrorSent'
  <2>1. ErrorComing => ErrorComing'
    BY <1>9, SentComes DEF ForwardEvent, ClientInv
  <2>2. UNCHANGED <<status, eventErr, snapshot, unseen, waiter>>
    BY <1>9 DEF ForwardEvent, vars
  <2> QED BY <2>1, <2>2 DEF ClientInv, StatusSeen, ErrorSent, SomeError, Unanswered
<1>10. CASE UNCHANGED <<vars, clientVars>>
  BY <1>10 DEF vars, clientVars, subscription, ClientInv, StatusSeen, ErrorSent, SomeError,
               ErrorComing, Unanswered
<1> QED BY <1>1, <1>2, <1>3, <1>4, <1>5, <1>6, <1>7, <1>8, <1>9, <1>10 DEF ClientNext, ClientReceives

\* Nobody else begins or ends the start that the client awaits.
LEMMA AttachingStep ==
  ASSUME TypeOK, ClientInv, [ClientNext]_<<vars, clientVars>>
  PROVE  Attaching'
<1>0. Attaching /\ Client \in Callers /\ caller \in [Callers -> [pc : CallerPcs, life : Lives, op : Lives]]
  BY ClientAssumption DEF ClientInv, TypeOK
<1>1. CASE ClientStarts
  BY <1>1 DEF ClientStarts, Attaching
<1>2. CASE ClientStarted
  <2>1. caller'[Client] = NoCall
    BY <1>0, <1>2 DEF ClientStarted, AttachStartTask
  <2> QED BY <2>1 DEF Attaching, NoCall
<1>3. CASE ClientStops
  <2>1. \/ caller' = caller
        \/ \E c : caller' = [caller EXCEPT ![Client] = c] /\ c.pc # "attach"
    <3>1. NoCall.pc # "attach"
      BY DEF NoCall
    <3> HIDE DEF NoCall
    <3>2. CASE StopStarting(Client)
      BY <3>2 DEF StopStarting
    <3>3. CASE StopActive(Client)
      <4> DEFINE c == [pc |-> "stopEvents", life |-> state.id, op |-> nextOp]
      <4>1. c.pc # "attach"
        OBVIOUS
      <4>2. caller' = [caller EXCEPT ![Client] = c]
        BY <3>3 DEF StopActive
      <4> QED BY <4>1, <4>2
    <3>4. CASE StopPublishes(Client)
      <4> DEFINE c == [caller[Client] EXCEPT !.pc = "closing"]
      <4>1. c.pc # "attach"
        BY <1>0
      <4>2. caller' = [caller EXCEPT ![Client] = c]
        BY <3>4 DEF StopPublishes
      <4> QED BY <4>1, <4>2
    <3>5. CASE CloseActive(Client)
      <4> DEFINE c == [caller[Client] EXCEPT !.pc = "finishing"]
      <4>1. c.pc # "attach"
        BY <1>0
      <4>2. caller' = [caller EXCEPT ![Client] = c]
        BY <3>5 DEF CloseActive
      <4> QED BY <4>1, <4>2
    <3>6. CASE FinishStop(Client)
      BY <3>1, <3>6 DEF FinishStop
    <3> QED BY <1>3, <3>2, <3>3, <3>4, <3>5, <3>6 DEF ClientStops
  <2>2. caller'[Client].pc = "attach" => caller[Client].pc = "attach"
    BY <1>0, <2>1
  <2>3. waiter = "leaving"
    BY <1>3 DEF ClientStops
  <2> QED BY <1>0, <2>2, <2>3 DEF Attaching
<1>4. CASE ClientRefused \/ ClientReceives \/ Interrupt \/ NothingToStop
  <2>1. caller' = caller /\ waiter # "starting"
    BY <1>4 DEF ClientRefused, ClientReceives, ReceiveStatus, ReceiveLag, ReceiveEvent, Receiving,
       Interrupt, NothingToStop, vars
  <2> QED BY <1>0, <2>1 DEF Attaching
<1>5. ASSUME NEW c \in Callers, OtherCalls(c) PROVE Attaching'
  <2>1. caller'[Client] = caller[Client] /\ waiter' = waiter
    BY <1>0, <1>5 DEF OtherCalls, CallerNext, BeginStart, AttachStartTask, StopStarting, StopActive,
       StopPublishes, CloseActive, FinishStop, DropCall
  <2> QED BY <1>0, <2>1 DEF Attaching
<1>6. ASSUME NEW o \in Ops,
             \/ StartTaskRuns(o) \/ ErrorWithEvent(o) \/ StatusRefreshed(o) \/ ForwardError(o)
             \/ \E event_ \in {"error", "other"} : ForwardEvent(o, event_)
      PROVE  Attaching'
  <2>1. caller' = caller /\ waiter' = waiter
    BY <1>6 DEF StartTaskRuns, ErrorWithEvent, StatusRefreshed, ForwardError, ForwardEvent, TaskNext,
       CreateTunnel, CreateFails, FinishStart, PublishActive, FinishStaleStart, CloseStaleStart,
       FailStart, ReadStatus, PublishError, DropStartTask, RunReset, RefreshConnections,
       EventTaskEnds, RecordEventError, vars
  <2> QED BY <1>0, <2>1 DEF Attaching
<1>7. CASE UNCHANGED <<vars, clientVars>>
  BY <1>7, <1>0 DEF vars, clientVars, Attaching
<1> QED BY <1>1, <1>2, <1>3, <1>4, <1>5, <1>6, <1>7 DEF ClientNext

\* Whatever other callers do to the service, to the statuses they coalesce and to the
\* events they crowd out, a client of start_join whose service is idle or active again
\* already has the answer of wait_until_active in its subscription.
THEOREM AnswersWait == ClientSpec => []AnswerWaits
<1>1. ClientInit => ClientInv
  <2> SUFFICES ASSUME ClientInit PROVE ClientInv
    OBVIOUS
  <2>1. ClientTypeOK
    BY ClientTypeInit
  <2>2. unseen /\ waiter = "subscribed" /\ ~SomeError
    BY DEF ClientInit, Init, SomeError, IdleStatus
  <2>3. caller[Client].pc = "idle"
    BY ClientAssumption DEF ClientInit, Init, NoCall
  <2> QED BY <2>1, <2>2, <2>3 DEF ClientInv, StatusSeen, ErrorSent, Attaching
<1>2. IInv /\ ClientInv /\ [ClientNext]_<<vars, clientVars>> => ClientInv'
  BY ClientTypeStep, AnswerStep, AttachingStep DEF ClientInv, IInv, TypeInv
<1>3. IInv /\ ClientInv => AnswerWaits
  <2> SUFFICES ASSUME IInv, ClientInv, waiter = "waiting", state.kind \in {"Idle", "Active"},
                      ~ErrorComing
               PROVE  unseen /\ AfterStatus(status.phase) # "waiting"
    BY DEF AnswerWaits
  <2>1. ~SomeError
    BY DEF ClientInv, ErrorSent, Unanswered
  <2>2. status.phase \in {"Idle", "Active"}
    <3>1. status.err \notin Ops
      BY <2>1 DEF SomeError, Ops, None
    <3> QED BY <3>1 DEF IInv, StatusExplained
  <2>3. unseen
    BY <2>2 DEF ClientInv, StatusSeen, Unanswered
  <2> QED BY <2>2, <2>3 DEF AfterStatus
<1> QED BY <1>1, <1>2, <1>3, ClientsAreCallers, Invariance, PTL DEF ClientSpec
=============================================================================
