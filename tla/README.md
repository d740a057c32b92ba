# sculk in TLA+

sculk tunnels a Minecraft server to its players over iroh (QUIC). A host publishes its
server under a join URI; a player joins by that URI and gets a local TCP inlet. This
directory models the parts of `core/` and `cli/` where tasks, locks, timers, streams and
files interact, checks them with TLC on small instances, and proves their safety
properties for every instance with TLAPS.

```
tlc -workers 2 -config TunnelClient.cfg TunnelClient    # or any other pair of PROJECT.json
tlapm TunnelServiceProofs.tla
```

`PROJECT.json` lists the components, the runs, for each property of a run a mutation of
the code model that breaks it, the lines of `src/` behind each definition, the findings,
the hazards and the theorems.

## 1. Inventory

| Component | State | Operations | Hard behaviours | What makes it correct |
|---|---|---|---|---|
| `TunnelService` (`tunnel/service.rs`) | `ServiceState` behind a mutex, the published `TunnelStatus`, a start task, an event task, the event channel | `start_host`, `start_join`, `stop`, `status`, `subscribe`; the drop of any of these | a stop overtakes a start; futures dropped half-way; two places that publish; statuses coalesced and events lost | never stuck in Starting or Stopping, no tunnel lost, a cancelled start has no effect, a client is answered |
| Host sessions and admission (`iroh/host.rs`, `iroh/session.rs`) | one session per player with a generation, tracked connections, connection count, slots of the accept loop | admission, second look at a full service, replacement, removal at the end of a connection | check, wait, register; an old connection ends after the new one; stop during admission | capacity, one session per open player, joined and left pair up, every connection is taken |
| `SculkNode` (`iroh/node.rs`) | registry of services (RwLock), per service a token, a status, a `token_rotation` mutex; the accept loop and its slots | `start_service`, `stop_service`, `close`, drop, `rotate_token`, `join_uri`, `token_state`, the rotation loop, routing | two locks in two orders; an id stopped and published again; token and time read together; the look-up and the comparison of a token | calls return, a rotation or a failure never reaches another service, an old token admits nobody new |
| Token rotation (`iroh/node.rs`, `RotationSchedule`) | deadlines by two clocks, failures | sleep, wake, rotate, retry, reset; `resolve_token_state` | a wall clock that jumps, restarts, conflicts | a token is replaced in time, never early, without spinning |
| Admission protocol (`iroh/auth.rs`) | one control stream | one request, one answer, on both sides | timeouts on either side, close codes that mean a permanent rejection | a rejection has a cause, nobody holds a host that closes up |
| Bridge (`iroh/transport.rs`) | two copies, then the drain of one | copy, half-close, drain, timeout | one direction ends first; a copy is dropped with what it has read | nothing lost without a named cause, a session whose apps read ends |
| Join supervisor and proxy (`iroh/join.rs`, `iroh/mod.rs`) | the connection, the outage, the accept loop, its sessions | connect, serve, reconnect, give up, shut down | several timers ready at once, aborted tasks that still run | one acceptor, paced attempts, everything but a session ends with the join |
| Files (`persist/*.rs`) | key, profile, host state | load, exclusive creation, atomic replacement | crash between two steps, concurrent first loads | whole, durable, agreed upon |
| Command line (`cli/src/main.rs`) | what is saved, what was printed, `uri_generation` | `sculk host`, `sculk join`, `sculk relay` | a rotation between two reads; a kill between a rotation and its save; the next launch | saved, printed and served agree; a shared link survives |
| Path monitor (`iroh/monitor.rs`) | last path announced | poll, announce | throttling | not modelled, see 6 |
| LAN scan and broadcast (`minecraft/lan.rs`) | a thread, a stop channel | scan, broadcast, stop | a thread that blocks in a probe | not modelled, see 6 |
| Join URI (`join_uri.rs`) | none | encode, decode | pure codec | not modelled, see 6 |
| Endpoint construction, options, events, errors | none | conversions | none | no behaviour of their own |

How they interact: the command line and library users call `TunnelService` or
`SculkNode`. `TunnelService` creates one tunnel per start by a task of its own and
listens to the tunnel's events by another. A host tunnel and every service of a node
admit connections by `start_authenticated_host_connection`, which keeps the session
index and spawns one closer task per connection. The node's rotation loop and its users
share the registry and `token_rotation`. A join tunnel is run by
`reconnect_supervisor`, which spawns accept loops that share the listener; each local
client they accept gets a bridge, and so does each stream on the host. Statuses go
to `watch` channels, events to bounded channels that may drop.

## 2. Modules

| Module | Models | Correspondence |
|---|---|---|
| `TunnelLifecycle` | abstract: what a service promises about lifecycles | one lifecycle at a time, Starting, Active, over, never again |
| `TunnelService` | `service.rs` | `state`, `status` as in the code; `caller` is a user's future and where it awaits, `task[o]` and `event[o]` the start and event task of operation `o`, `resets` the resets that dropped `OperationGuard`s spawned, `tunnel[o]` what became of the tunnel. One action per piece of code between two points where another task can run: an await, or the end of a mutex section |
| `TunnelClient` | `TunnelService` composed with its subscriptions and the waits of `sculk join` | every step of the service is taken together with what it sends: `unseen` is the watch channel, `events` and `lagged` the broadcast channel as one receiver sees it, `waiter` where `wait_until_active` or `wait_for_shutdown` is |
| `HostSessions` | `host.rs`, `session.rs`, and the stop of `node.rs` | `sessions` is `by_id`, `handler[c]` and `closer[c]` the two tasks of a connection, `tracked` the connections a stop will close |
| `Admission` | `node_accept_loop`, `route_connection`, `close` and drop of `node.rs`; `host_accept_loop` of `host.rs`; `auth.rs` | `kind` selects a node or a single-service host; `loop` and `held` are the accept loop and the connection it waits with for a slot, `task[c]` the task of a connection, `found` and `answer` its locals, `client[c]` the other side of the stream, `conn[c]` the connection with its close code |
| `HostNode` | registry and tokens of `node.rs` | `readers` and `queue` are tokio's fair RwLock (external), `rotation[g]` the mutex, `proc[p]` a user or a rotation loop with the `Arc<HostedService>` it holds |
| `Rotation` | `RotationSchedule`, `rotation_loop`, `resolve_token_state` | `mono` and `offset` are the two clocks, `schedule` the struct; the histories `since` (when this process began to serve the token, and how old it took it to be) and `born` (when the token took effect, over restarts) |
| `HostCommand` | `sculk host` of `main.rs` over its files, launch after launch | `key`, `policy`, `file` are on disk, `pc` and `loaded` the process, `service`, `gen`, `rotation`, `changed` what it sees of the node, `printed` the last URI the user has seen; the history `retired` says under which period a token was replaced |
| `JoinSupervisor` | `join.rs`, `join_to` and `close` of `mod.rs` | `sup` is the supervisor's pc, connection and attempt; one action per ready branch of a `select!`; `loop[n]`, `aborted`, `sessions[n]` per connection |
| `Bridge` | `transport.rs` on both sides, `host_handle_conn`, the session task of `join_accept_loop` | `bridge[s]` says which copies of the bridge of side `s` run, `buffer[s][d]` is what `tokio::io::copy` has read and not written, `chan` the two TCP connections and the QUIC stream, one direction each |
| `AtomicFile` | `key.rs`, `profile.rs`, `host_state.rs` | one action per system call; `entries` is what the target's name has referred to, `durable` how much of it power loss must keep, `synced` the synced data |
| `TunnelServiceProofs`, `HostSessionsProofs`, `AdmissionProofs`, `HostNodeProofs`, `RotationProofs`, `HostCommandProofs`, `JoinSupervisorProofs`, `AtomicFileProofs` | theorems | see 5; the proofs about `Bridge`, a session of the join, are the second half of `JoinSupervisorProofs`, and those about `TunnelClient` the end of `TunnelServiceProofs` |
| `MCHostSessions`, `MCAtomicFile` | instances | symmetry, functions as constants |

`TunnelService` implements `TunnelLifecycle` under the mapping at the end of the module:
a stop that still waits for the event task counts as Active, although the code has
already replaced the state by Idle, because it holds the mutex.

Where modules meet: `HostSessions` starts where `Admission` ends, with a connection that
is authenticated. `Rotation` says when a token is rotated, `HostNode` what a rotation does
to the registry, `Admission` what it means for a client, `HostCommand` what becomes of it
on disk. `JoinSupervisor` counts the sessions of each accept loop, `Bridge` follows one of
them from app to app.

Names follow the source. What a history variable remembers is marked "History" at its
declaration. A definition whose comment begins with "Mutant" is a version of the one
below it as a bug would make it; no specification uses it.

## 3. Runs

The constants of each run are in its cfg.

| Run | Question | Bounds, and why they are enough |
|---|---|---|
| `tunnel_service` | safety, refinement and liveness of the service, and of a client beside another caller | 2 callers, one of them the client; 2 operations: one being started while the other is cancelled or stopping; an event channel of 1, so that it lags at the second event. The theorems cover any number of callers and operations |
| `tunnel_service_overwrite` | finding 1 | 2 callers, 2 operations, no dropped calls |
| `host_sessions` | capacity, pairing, tracking, no session that stays | 2 players, 1 place, 3 connections: replacement and contention both occur |
| `host_sessions_stale_closer` | finding 2 | 3 connections of one player: a generation must come back |
| `admission` | who is admitted, who is told his token is bad, whether everybody is taken | both kinds of host, 2 clients and 1 slot: one holds it while the other waits, for ever if it never authenticates; 2 tokens and 2 publications: each can change between a look-up and the comparison |
| `host_node` | tokens and failures at home, one way only to block | 2 users, 1 id published twice, 3 tokens: a stale loop and a stale call both occur; the circular wait needs the loop and two users |
| `host_node_stuck` | finding 3 | the same |
| `rotation` | deadlines and retries | period 3, clock check 2, retry 1 to 2, a wall clock 0 or 4 ahead, set forth and back, 8 ticks: two periods and a jump beyond one, and restarts after either jump |
| `host_command` | what is saved, printed and served | 3 launches, timed policies of 1 and 2 ticks, 5 ticks, 3 tokens: a launch, one killed half-way, and one that finds what both left, under the same policy, a shorter or a longer one; a token expires between two launches and within one |
| `join_supervisor` | supervision, pacing, ends | 3 connections, 3 attempts each, 1 permit, 1 client |
| `bridge` | losses and ends of a session | 3 units from each app over channels of 1: one unit read, one in a copy's buffer and one waiting, so that a unit can be lost between two others |
| `atomic_file` | files under crashes | 3 callers, 3 temporary files, each kind of file |

`CHECK_DEADLOCK FALSE` stands where the system may stop: everyone is idle and a bound
is reached, or no user asks for anything. `atomic_file` always has a step.

### Fairness

Weak fairness for every task that can run: tokio polls a task that has been woken.
Strong fairness for taking the mutex of `TunnelService`, which tokio hands over in
arrival order while the model leaves the choice open. `HostNode` models the queue of
the RwLock itself and needs weak fairness only. Nothing is assumed of users, of peers,
of a tunnel's creation (`Endpoint::online` may wait for ever), or of
`reconnect_once`, which may never answer. Closing an endpoint is assumed to return. In
`Rotation` time passes only while the loop sleeps or a rotation is under way, so the
deadline properties are about the schedule, not about a busy machine.

`TunnelClient` adds that the client is polled when its subscription has something, from
either source (`recv` selects at random). `Admission` assumes nothing of clients: a node
waits in `auth_accept` for as long as a client stays connected, so `EveryOfferTaken` and
the part of `HostEnds` about a host that is only dropped name the clients that stay as
their one condition; a host that is closed ends unconditionally. `HostCommand`
assumes that the process runs and that a rotation that has taken its token ends; launches,
kills and failures are free. `Bridge` assumes nothing of the apps either. A bridge has no
timeout in its first phase, and a copy that waits for its target looks at nothing else, so
`BothBridgesEnd` has one condition: no app stays for ever without reading what a bridge of
that phase holds for it (`Stalled`). `JoinSupervisor` assumes nothing of sessions, for the
same reason: `ShutdownEnds` is about the supervisor, the accept loops and the connections,
and how a session ends is the matter of `Bridge`.

## 4. Findings

1. `CancelledStartNeverOverwrites`: `publish_error` (`service.rs:608`) writes a status
   it has read before, without the mutex and without the operation id. A failed start may
   put its status over that of the idle service or of the next start.
2. `OpenKeepsSession`: generations start at 1 for every new entry (`session.rs:47`). The
   closer of an old connection can find its generation again and remove a session that
   is in use: the first of three connections of a player registers with generation 1, the
   second with 2, the second's closer removes the entry, the third gets 1 again, and the
   first's slow closer removes the session of the third.
3. `CallsReturn`: `join_uri` and `token_state` wait for `token_rotation` while they hold
   the registry (`node.rs:849`), `rotate_token_inner` waits for the registry
   (`node.rs:572`) while it holds `token_rotation`. With a writer queued in between all
   three wait for ever, and every later reader behind them. `OnlyCircularWaitBlocks`
   shows that nothing else blocks a call.

Seen while modelling, in the models, and without a run of their own:

- `stop_service` (`node.rs:493`) drains the connections that are tracked at that moment.
  One that has authenticated and is not tracked yet is served by a service that says
  Stopped, although `HostedServicePhase::Stopped` (`node.rs:212`) reads "Service and its
  tracked connections have been stopped".
- Each accept loop of a join makes a semaphore of its own (`join.rs:314`), so the limit
  of local sessions (`event.rs:87`) is per connection, while sessions of a lost
  connection still drain.
- When one direction of a bridge ends, `select!` drops the copy of the other with what it
  has read and not written, and the copy that drains that direction goes on after it
  (`transport.rs:43`): the app may miss units in the middle of its stream. It takes a
  reader slow enough for the channel to be full. `LossesExplained` names this as the one
  cause of a gap (`cut`). The comment at `transport.rs:35` says the drain avoids truncation.
- A single-service host closes a connection whose request is late with the code for a bad
  token (`host.rs`), which a client takes for a permanent rejection. It is one of the
  causes `RejectionsHaveCause` lists.
- The slots of a node (`node.rs:938`) cover the TLS handshake and the grace of a refused
  connection, not only the wait for a request. That wait has no timeout (`node.rs:959`): a
  client that stays connected and sends no request keeps its slot, and clients that keep
  them all keep everybody else out. They also keep a node alive that is only dropped.
- The first phase of `bridge` has no timeout (`transport.rs:43-60`): an app that stays and
  stops reading keeps its session, the permit and the stream, after the other app has
  ended, the connection is lost or the join is shut down.
- A wall clock that is set back between a save and a restart makes a saved token look
  younger, and it is served for up to a period more, each time (`node.rs:798-816`).
  `TokenNeverOverstays` excludes just that.
- The state file does not say that a token was replaced. A host that is killed between a
  rotation and its save, and launched again under a longer policy, serves the old token
  again (`main.rs:46-74`, `node.rs:794-810`). `RetiredStaysRetired` covers the others.
- Counts may be published out of order (`host.rs:155`), and a loader may replace a
  profile saved in between by the defaults (`profile.rs:126`).

## 5. Proofs

The proofs hold for every value of the constants, under the assumptions named beside
them: bounds are natural numbers, durations are positive, a name such as `NoConn` is not
one of the things it stands beside. Every safety property that a passing run checks is
proved. Type invariants are proved and not run again. Only `RetryAssumption` of `Rotation`
is about more than a sort: it says that the delays `RetryDelay` computes are positive
integers, which the provers cannot derive from `2 ^ n`; TLC evaluates it in the run.

Each module has an inductive invariant `IInv`, the conjunction of the type invariant, the
properties and the parts below, without which the properties are true but not inductive;
one lemma per part with one step per action; and a theorem that puts them together
(`Invariance`, or `Inductive` in two modules).

Liveness is out of the prover's reach, and so is `ENABLED`. What can be proved of a
liveness property is its safety part: that as long as the goal is not reached and its
condition, if it has one, is met, a step that nobody outside has to allow is there to be
taken. The modules state such steps by
their guards, in operators named `...Proceeds`, and prove that one of them always holds, or
that the goal is reached (`MutexIsHandedOn`, `EndedSessionsAreNeverStuck`,
`EndingIsNeverStuck`, `OffersAreNeverStuck`, `ShutdownIsNeverStuck`, `SessionIsNeverStuck`,
`OnlyCircularWaitDeadlocks`). These theorems exclude every deadlock of the tasks involved,
for any number of them. That the steps run out is proved for a host and a join that are
closed (`CloseIsFinal`, `ShutdownIsFinal`): everything only goes forward from there. For the
others it is what the liveness runs add. The guards were compared with the `ENABLED` of
their actions by TLC, on the instances of the runs; no run keeps that comparison. Two more
theorems say that an answer or a wake-up that a task waits for cannot be lost
(`AnswersWait`, `NoRotationIsMissed`), and two that a timer is not run down or taken back
(`SleepsAlwaysLast`, `OutagesRunOut`).

`TunnelServiceProofs`: `TypeCorrect`, `ServiceNeverWedged`, `TunnelsNeverLeaked`,
`PhasesAreExplained`, `CancelledNeverAct`, the refinement `ImplementsLifecycle`, and for
the client `ClientsAreCallers` (what the service does beside a client it may do without
one, so the theorems hold there too) and `ClientTypeCorrect`. The invariant adds
- `CallsCarryOps`: a call or a holder of the mutex that is under way has an operation
  and not `None`;
- `FreshOps`: an operation id that has not been drawn is used by nobody, so the start
  that draws it is alone;
- `HolderKnowsState`: between the two halves of a section under the mutex the state is
  the one the first half left;
- `TunnelsOwned`, `EventsOwned`: where the tunnel of an operation is, that one stop at
  most has it, and which event tasks may still publish;
- `StatusExplained`: `PhaseExplained` with the mutex held as well as free;
- `CancelledGone`: a cancelled start owns the state no more.

`MutexIsHandedOn` is the reason why the mutex does not deadlock: `begin_stop` awaits the
event task while it holds it. The part `StopsAwaitTheEnd` says that this task has been
aborted, so that it ends without the mutex, whatever it is doing.

`AnswersWait` is about a client beside any number of other callers: when the service has
come to rest, what ends `wait_until_active` is in the client's subscription. Its invariant
relates the subscription to the service: `StatusSeen` (a status the client has looked at,
and which is still the last one, was no answer) and `ErrorSent` (no error is in the status,
or about to be copied into it, without an error event or a report of lost events for the
client). So coalesced statuses and a full event channel lose no answer.

For the refinement every action is mapped to a step of `TunnelLifecycle` or to none:
`LifeOfState`, `LifeOfStop` and `LifeOfNextStop` say what the mapping does to a state,
`LifecycleCalls` and `LifecycleTasks` go through the actions, and `LifecycleStutters`,
`LifecycleEnds`, `LifecycleAbandons` and `LifecycleWaits` are the shapes a step can have.

`HostSessionsProofs`: `TypeCorrect`, `CapacityIsRespected` (`CapacityRespected`),
`EverySessionHasACloser` (`SessionsHaveClosers`), `AdmittedIsTracked` (`OpenIsTracked`),
`JoinsPairWithLeaves` (`JoinsMatchLeaves`). These properties are inductive together once
`TasksInOrder` is added: a connection has a closer just when its handler is done, a join is
announced by a handler that is done, a leave by a closer that is done. From the same facts
`EndedSessionsAreNeverStuck`: a session whose connection is over, at whatever point of the
admission it ended, has a handler still to spawn its closer or a closer ready to look.
`UpsertFits` and `FewerFit` carry the capacity through a registration and a removal, under
the lock that the code takes for the second look; the pairing is a count of the connections of a player that
have announced a join and of those that have announced a leave (`JoinsAfterRegistration`,
`LeavesAfterRemoval`, `JoinsAndLeavesKept`).

`AdmissionProofs`: `TypeCorrect`, `NewTokenIsNeeded` (`NewConnectionsNeedNewToken`),
`RejectionsAreCaused` (`RejectionsHaveCause`). The invariant adds
- `Sessioned`: no session has a newer token than the current one;
- `Outdated`: an outdated token matches no session that is or will be looked up;
- `Unexcused`: a client with no excuse against it has the current token of the published
  service, which is the one its task has found;
- `Attempts`: nothing is done for a client that has not connected;
- `Tended`: a connection is offered until its task has shaken hands, and a task that reads
  has a client that is yet to send or waits for the answer;
- `Ending`: nothing of the host ends over an endpoint that stays open, and a closed
  endpoint has no connection left.

The last two give `EndingIsNeverStuck` and `OffersAreNeverStuck`: slots that are taken are
held by tasks (`FullIsBusy`), and a task that has not ended has a step that no client has
to allow, or reads from a client that stays (`BusyProceeds`), which is the condition in
both. `CloseIsFinal` adds that
over a closed endpoint the accept loop, the tasks and the clients run down, and that no
task begins but that of the connection already held for a slot, whatever the user does.

`HostNodeProofs`: `TypeCorrect`, `LocksAreAccountedFor`, `FailuresAreHome`
(`FailuresStayHome`), and the action properties `AnswersAreMatched` (`AnswersMatch`) and
`TokensAreChangedAtHome` (`TokensChangeAtHome`). The invariant adds
- `Queued`: a request in the queue of the lock belongs to a process that waits for it;
- `Drawn`: nothing is known of a generation before it is drawn, a published service was
  drawn for its id, and two starts draw different ones;
- `Rotating`, `Awaiting`: a rotation, and a query that waits for one, holds a generation
  that was published, and a loop its own;
- `Locked`: who holds a mutex or the registry is at a step where the code holds it, and
  conversely;
- `Dated`, `Written`: a token and its creation time differ only inside the section that
  writes both.

The actions change this state in few ways. A `...Moves` and an `...Effect` lemma per action
say where it takes its process and what it writes, `Shapes` sorts every step into ten
shapes (it asks for a lock, takes one, writes a token, dates it, ...), and each part is
carried through these.

`OnlyCircularWaitDeadlocks` is `OnlyCircularWaitBlocks` without its fairness: if a call is
under way and no process can go on, the head of the queue is a writer that waits for a
reader, the reader waits for a mutex, and who holds the mutex waits in the queue behind
the writer. `Locked` gives each of these three steps. `CircularWaitIsForEver` says that the
circle never opens again, so finding 3 is not a matter of luck once it is closed.

`RotationProofs`: `TypeCorrect`, `TokensAreReplaced` (`TokenNeverOverstays`),
`WallExpiryIsNoticed` (`WallExpiryNoticed`), `NoneRotatesEarly` (`NoEarlyRotation`),
`DeadlinesAreWithinPeriod` and `SleepsAlwaysLast` (whatever step of the loop ends asleep
ends with a sleep of a tick at least, one that goes back to the same sleep included, which
is why `LoopNeverSpins`; it is stated for a step from `IInv`, as a step that changes
nothing would escape an action property). The invariant adds
- `LoopAlone`: no rotation by hand runs beside the loop's own, and only a running loop
  has one to see;
- `WakesInTime`: a loop that does not retry wakes by its deadline, and within the clock
  check of the moment the wall clock passed it;
- `DeadlinesDated`: the deadlines leave the token what its age at the start of the process
  left of the period, but for a rotation by hand the loop has yet to see;
- `PendingFresh`, `LateExplained`: such a rotation is seen before time passes, and the
  wall clock counts as late only while it is past the deadline.

`HostCommandProofs`: `TypeCorrect`, `LoopAgreement` (`LoopAgrees`), `LinkIdIsKept`,
`RetirementIsFinal` (`RetiredStaysRetired`), `NoRotationIsMissed`, `LinksSurvive` (the
action property `SharedLinkSurvives`). The invariant adds
- `Generations`: what the command has seen is not ahead of the node, and what it has
  saved is current unless there is a generation it will see;
- `NothingMissed`: a generation that the command has not seen is one its subscription will
  report, so the command never waits with an old token on disk (`NoRotationIsMissed`);
- `Ids`: a service is published under the id in the file, once there is a file;
- `Tokens`: copies of a token agree on its age (`Copies`), and a retired one has reached
  the period under which it was retired, so that only a longer one takes it up
  (`Outlived`);
- `Left`: what a settled process leaves behind is what it printed.

`JoinSupervisorProofs`: `TypeCorrect`, `OneAcceptorOnly` (`OneAcceptor`),
`AttemptsArePaced` (`ConnectsPaced`), `NoneAfterEnd` (the action property
`NoConnectAfterEnd`). The invariant adds
- `ConnsNumbered`: connections are numbered in order and the supervisor's is the last,
  so that the one served next is new and has no loop yet;
- `PlaceExplained`: no timeout runs before the first connection, and nothing can be shut
  down before it;
- `AttemptsCounted`: how many calls each place of the supervisor has left, which bounds
  the calls while it serves and before it calls again, not only during an outage;
- `OthersLost`: a connection that is open or rejected for good is the one being served,
  unless the supervisor is done.

From the same invariant `ShutdownIsNeverStuck` (until the supervisor, the accept loops and
the connections have ended, one of them has a step, whatever sessions and permits the
clients keep), and two action properties. `ShutdownIsFinal`:
after a shutdown the supervisor goes one way, through at most three places, no connection
is established and no accept loop begins or is let off; only an accept loop that has not
ended yet may still take a local client, which ends with its own connection. With
`ShutdownIsNeverStuck` this is the argument for `ShutdownEnds`, up to fairness and the
number of those clients. `OutagesRunOut`: a timeout or a signal is not taken back by
whatever else is ready, so the branch that ends the outage stays ready.

The proofs about `Bridge` follow in the same module, which extends both:
`SessionTypeCorrect`, `UnitsAreOnTheWay`, `LossesAreExplained` (`LossesExplained`) and
`SessionIsNeverStuck`, for any capacity of the channels and however much the apps write.
The units an app writes are numbered, so what is anywhere on the way is a run of
consecutive numbers. The invariant `SessionInv` says
- `InOrder`: as long as both bridges carry a direction and no copy with data was dropped,
  the five places a unit passes (what the app has yet to read, the far copy, the stream,
  the near copy, what the near app has written) hold runs that join up without a gap;
- `Accounted`: unless data were dropped or a bridge gave up, a bridge that carries a
  direction no more has left nothing of it behind: all that was written is past it, and
  the app has ended what it writes;
- `EndedByBridge`: only a bridge that carries a direction no more has ended its stream
  cleanly, and only one that is over has ended the connection to its app.

`RunMoves`, `RunJoins` and their like say what moving a unit or a chunk does to two runs;
the `...Effect` lemmas reduce each action to a shape (`Moves` within one direction, `Keeps`
of the other), which `MovesInOrder` and `MovesAccounted` carry the invariant through. For
`SessionIsNeverStuck` the part `EndsInPlace` is added: a bridge that is over has ended its
stream, and only the host's is waited for, whose app is not there yet. The proof follows
the end an app has made from its channel to the next: a copy that cannot go on holds data
for a full channel (`StillIsFull`), which is either a stream that the next bridge reads or
that of an app that has stopped reading (`Stalled`), the one case left. It does not hold for a session
that nobody has ended, where both bridges may wait for data.

`AtomicFileProofs`: `TypeCorrect`, `FilesAreWhole` (`TargetsWhole`), `SuccessIsDurable`
(`SavedIsDurable`), `OneKeyForAll` (`LoadsAgree`), `NoStrayTemps` (`TempsOwned`). The
invariant adds
- `FilesPrepared`: the data of a file about to be published is written and synced, and
  power loss damages only data that is not;
- `EntriesInPlace`: a call that has published has an entry in the directory, among the
  durable ones once `sync_parent` is over;
- `PublishedIsTarget`: as long as nothing replaces the key, who has published one has
  published the one that is there.

Five lemmas (`QuietSteps`, `PreparingSteps`, `PublishingSteps`, `EndingSteps`,
`PowerLossEnds`) say what groups of actions leave alone; each conjunct then has a lemma
of its own (`WholeStep`, `DurableStep`, `AgreeStep`, `TempsStep`).

Only model-checked: the liveness properties themselves, which need fairness. Proved of
them is the safety part named beside each: `StopReturns`, `StoppingEnds` and
`TunnelSettles` (`ServiceNeverWedged`, `MutexIsHandedOn`), `JoinAnswers` (`AnswersWait`),
`EndedSessionsGo` (`EndedSessionsAreNeverStuck`), `EveryOfferTaken`
(`OffersAreNeverStuck`), `HostEnds` (`EndingIsNeverStuck`, `CloseIsFinal`), `OnlyCircularWaitBlocks`
(`OnlyCircularWaitDeadlocks`), `LoopNeverSpins` (`SleepsAlwaysLast`), `RotationsReachFile`
(`NoRotationIsMissed`), `ShutdownEnds` (`ShutdownIsNeverStuck`,
`ShutdownIsFinal`), `OutagesEnd` (`OutagesRunOut`), `BothBridgesEnd`
(`SessionIsNeverStuck`).

## 6. Not modelled, and why

- Path monitor: one task that announces the selected path of one connection, by a
  throttle of two local variables. It sends best-effort events and nothing reads its state;
  the loss of such events is in `TunnelClient`.
- LAN scanner and broadcaster: one thread each over a socket, stopped by a channel that is
  polled between two blocking calls with timeouts. Nothing else in the program shares
  their state, and what they promise is about seconds (a stop waits for at most one probe,
  announcements follow the last probe by at most `PROBE_INTERVAL`).
- Join URI codec, parsing and formatting (TOML, the layout of files), tracing, error texts,
  argument parsing, the clipboard; `sculk relay`, which rewrites two fields of the profile.
- Endpoint construction, options, events, types and errors: no behaviour of their own.
- `TunnelClient` has callers that join only: a client of mode Join that finds another
  caller hosting waits on, and that wait is not modelled.
- `Admission`: streams after the control stream, and requests of another version, which no
  client of this version sends, count as a wrong token. A retry is a new client.
- `HostSessions` starts with a connection that is authenticated; who gets there is
  `Admission`. The composition of both would multiply two state spaces that share only
  that step and the stop of the service.
- `Bridge`: one stream of one connection. What streams of one connection share is its
  loss, which is here, and its permits, which are in `JoinSupervisor`. `tokio::io::copy`,
  quinn and the kernel are external, modelled by what their documentation promises of a
  dropped or half-closed end.
- Events other than those a client waits for are best effort; joined and left are paired
  up by `HostSessions` before the channel.
- `Rotation` leaves out the overflow of a clock (`checked_add`).
- Directories that have to be created before a file (`create_dir_all`), and file
  systems that do not order directory entries.

## 7. What is left

1. Variants: that the steps the `...Proceeds` operators name run out is proved of
   a host and a join that are closed (`CloseIsFinal`, `ShutdownIsFinal`) and left to TLC
   elsewhere; `HostSessions` after a stop and `TunnelService` under a stop are next.
2. Path monitor, and the LAN threads with their timeouts as a module like `Rotation`.
3. A host as the other caller in `TunnelClient`.
4. A composition of `JoinSupervisor` with `TunnelService`: what the status says when the
   supervisor has ended (it stays Active; the code promises nothing else).
