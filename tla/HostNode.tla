------------------------------ MODULE HostNode ------------------------------
(***************************************************************************)
(* The registry of a SculkNode (core/src/tunnel/iroh/node.rs): which       *)
(* services are published, the token of each, and the calls that publish,  *)
(* stop, rotate and query them, with the locks they wait for.              *)
(*                                                                         *)
(* Two locks matter.  The registry is behind a tokio RwLock, which serves  *)
(* requests in arrival order, so a reader that arrives after a queued      *)
(* writer waits for it.  Each service has a token_rotation mutex.  A       *)
(* process is a user of the node or the rotation loop of a published       *)
(* service; its calls are cut where they wait for one of these locks, and  *)
(* where a rotation changes the token and then the status.  A section that *)
(* takes the registry lock and waits for nothing while holding it is a     *)
(* single action.                                                          *)
(*                                                                         *)
(* A published service is named by its session generation, a token by the  *)
(* order in which it was generated; the time a token was created is that   *)
(* number too.  When a loop wakes up, and the timer that a manual rotation *)
(* resets, are the business of module Rotation; the uri_generation that    *)
(* each rotation increments is left out.                                   *)
(* The connections a stop closes are those of module HostSessions.         *)
(***************************************************************************)
EXTENDS Naturals, Sequences, FiniteSets

CONSTANTS
  Users,       \* Tasks that call the node.
  ServiceIds,  \* Ids under which services are published.
  MaxStarts,   \* Bound on session generations.
  MaxTokens,   \* Bound on tokens generated.
  NoProc       \* No process.

Generations == 1 .. MaxStarts
Procs == Users \cup Generations
None == 0

ASSUME UsersAssumption ==
  /\ IsFiniteSet(Users)
  /\ NoProc \notin Procs
  /\ Users \cap Nat = {}
ASSUME BoundsAssumption == MaxStarts \in Nat /\ MaxTokens \in Nat

VARIABLES
  services,   \* The registry: the generation published under each id, or None.
  idOf,       \* The id each generation was drawn for.
  nextGen,    \* service_session_next.
  nextToken,  \* The next token AccessToken::generate returns.
  token,      \* HostedService.token.
  created,    \* HostedServiceStatus.token_created_at.
  readers,    \* Processes that hold the registry for reading.
  queue,      \* Requests for the registry, in arrival order.
  rotation,   \* Holder of each token_rotation mutex.
  proc,       \* Where each process is, and its local variables.
  lastError   \* HostedServiceStatus.last_error: the loop that recorded it.

vars == <<services, idOf, nextGen, nextToken, token, created, readers, queue,
          rotation, proc, lastError>>

registry == <<services, idOf, nextGen>>
tokens == <<nextToken, token, created>>
locks == <<readers, queue, rotation>>

-----------------------------------------------------------------------------
(* Types and helpers *)

Pcs == {"idle", "start", "stop", "close", "lookup", "rotating", "commit", "publish",
        "query", "await", "fail", "record", "over"}

\* gen is the Arc<HostedService> the process holds, new the token it generated.
Locals == [pc : Pcs, id : ServiceIds, gen : Generations \cup {None},
           new : 0 .. MaxTokens]

IdleAt(id) == [pc |-> "idle", id |-> id, gen |-> None, new |-> None]

Requests == [proc : Procs, write : BOOLEAN]

\* A loop is over when its service is gone; a user may call again.
Rest(p) == IF p \in Users THEN "idle" ELSE "over"

Ask(p, write) == Append(queue, [proc |-> p, write |-> write])

\* The request of p is the next to be served, and no reader bars its way.
Served(p, write) ==
  /\ queue # <<>>
  /\ Head(queue).proc = p
  /\ Head(queue).write = write
  /\ write => readers = {}

Waits(g) == {p \in Procs : proc[p].pc = "await" /\ proc[p].gen = g}

Registered(g) == g # None /\ services[idOf[g]] = g

TypeOK ==
  /\ services \in [ServiceIds -> Generations \cup {None}]
  /\ idOf \in [Generations -> ServiceIds]
  /\ nextGen \in 1 .. MaxStarts + 1
  /\ nextToken \in 1 .. MaxTokens + 1
  /\ token \in [Generations -> 0 .. MaxTokens]
  /\ created \in [Generations -> 0 .. MaxTokens]
  /\ readers \subseteq Procs
  /\ queue \in Seq(Requests)
  /\ \A i, j \in DOMAIN queue : queue[i].proc = queue[j].proc => i = j
  /\ rotation \in [Generations -> Procs \cup {NoProc}]
  /\ proc \in [Procs -> Locals]
  /\ lastError \in [Generations -> Generations \cup {None}]

Init ==
  /\ services = [id \in ServiceIds |-> None]
  /\ idOf \in [Generations -> ServiceIds]
  /\ nextGen = 1
  /\ nextToken = 1
  /\ token = [g \in Generations |-> None]
  /\ created = [g \in Generations |-> None]
  /\ readers = {}
  /\ queue = <<>>
  /\ rotation = [g \in Generations |-> NoProc]
  /\ \E id \in ServiceIds :
       proc = [p \in Procs |-> [IdleAt(id) EXCEPT !.pc = Rest(p)]]
  /\ lastError = [g \in Generations |-> None]

-----------------------------------------------------------------------------
(* start_service, stop_service and close *)

\* start_service up to the await of the registry: its first token and its
\* session generation are drawn.
BeginStart(u) ==
  /\ u \in Users
  /\ proc[u].pc = "idle"
  /\ nextGen \in Generations
  /\ nextToken <= MaxTokens
  /\ proc' = [proc EXCEPT ![u] = [IdleAt(idOf[nextGen]) EXCEPT !.pc = "start", !.gen = nextGen]]
  /\ nextGen' = nextGen + 1
  /\ nextToken' = nextToken + 1
  /\ token' = [token EXCEPT ![nextGen] = nextToken]
  /\ created' = [created EXCEPT ![nextGen] = nextToken]
  /\ queue' = Ask(u, TRUE)
  /\ UNCHANGED <<services, idOf, readers, rotation, lastError>>

\* The service is inserted and its rotation loop spawned, unless the id is taken.
EndStart(u) ==
  /\ u \in Users
  /\ proc[u].pc = "start"
  /\ Served(u, TRUE)
  /\ queue' = Tail(queue)
  /\ IF services[proc[u].id] = None
     THEN /\ services' = [services EXCEPT ![proc[u].id] = proc[u].gen]
          /\ proc' = [proc EXCEPT ![u] = IdleAt(@.id),
                                  ![proc[u].gen] = IdleAt(proc[u].id)]
     ELSE /\ proc' = [proc EXCEPT ![u] = IdleAt(@.id)]
          /\ UNCHANGED services
  /\ UNCHANGED <<idOf, nextGen, tokens, readers, rotation, lastError>>

BeginStop(u, id) ==
  /\ u \in Users
  /\ proc[u].pc = "idle"
  /\ proc' = [proc EXCEPT ![u] = [IdleAt(id) EXCEPT !.pc = "stop"]]
  /\ queue' = Ask(u, TRUE)
  /\ UNCHANGED <<registry, tokens, readers, rotation, lastError>>

\* The service, if there is one, is removed; ServiceNotFound otherwise.
EndStop(u) ==
  /\ u \in Users
  /\ proc[u].pc = "stop"
  /\ Served(u, TRUE)
  /\ queue' = Tail(queue)
  /\ services' = [services EXCEPT ![proc[u].id] = None]
  /\ proc' = [proc EXCEPT ![u] = IdleAt(@.id)]
  /\ UNCHANGED <<idOf, nextGen, tokens, readers, rotation, lastError>>

BeginClose(u) ==
  /\ u \in Users
  /\ proc[u].pc = "idle"
  /\ proc' = [proc EXCEPT ![u].pc = "close"]
  /\ queue' = Ask(u, TRUE)
  /\ UNCHANGED <<registry, tokens, readers, rotation, lastError>>

\* Every service is removed and the endpoint closed.
EndClose(u) ==
  /\ u \in Users
  /\ proc[u].pc = "close"
  /\ Served(u, TRUE)
  /\ queue' = Tail(queue)
  /\ services' = [id \in ServiceIds |-> None]
  /\ proc' = [proc EXCEPT ![u] = IdleAt(@.id)]
  /\ UNCHANGED <<idOf, nextGen, tokens, readers, rotation, lastError>>

-----------------------------------------------------------------------------
(* rotate_token_inner *)

\* A user rotates a service, or a loop finds its token due.
BeginRotate(p, id) ==
  /\ proc[p].pc = "idle"
  /\ p \in Generations => id = idOf[p]
  /\ proc' = [proc EXCEPT ![p] = [IdleAt(id) EXCEPT !.pc = "lookup"]]
  /\ queue' = Ask(p, FALSE)
  /\ UNCHANGED <<registry, tokens, readers, rotation, lastError>>

\* expected_session_generation: a loop rotates the service it was spawned for.
ExpectedGeneration(p, g) == p \in Generations => p = g

\* The first look at the registry, whose lock is released at once, then try_lock
\* and the new token.
LookUp(p) ==
  LET g == services[proc[p].id]
      found == g # None /\ ExpectedGeneration(p, g)
      free == rotation[g] = NoProc /\ Waits(g) = {}
  IN  /\ proc[p].pc = "lookup"
      /\ Served(p, FALSE)
      /\ queue' = Tail(queue)
      /\ \/ /\ ~found
            /\ proc' = [proc EXCEPT ![p] = [IdleAt(@.id) EXCEPT !.pc = Rest(p)]]
            /\ UNCHANGED <<nextToken, rotation>>
         \* RotationInProgress
         \/ /\ found /\ ~free
            /\ proc' = [proc EXCEPT ![p] = IdleAt(@.id)]
            /\ UNCHANGED <<nextToken, rotation>>
         \* The new token makes no valid URI, or its deadline overflows.
         \/ /\ found /\ free
            /\ proc' = [proc EXCEPT ![p] = [IdleAt(@.id) EXCEPT
                          !.pc = IF p \in Users THEN "idle" ELSE "fail"]]
            /\ UNCHANGED <<nextToken, rotation>>
         \/ /\ found /\ free /\ nextToken <= MaxTokens
            /\ proc' = [proc EXCEPT ![p].pc = "rotating", ![p].gen = g, ![p].new = nextToken]
            /\ nextToken' = nextToken + 1
            /\ rotation' = [rotation EXCEPT ![g] = p]
      /\ UNCHANGED <<registry, token, created, readers, lastError>>

\* The second request for the registry, with token_rotation held.
AskToCommit(p) ==
  /\ proc[p].pc = "rotating"
  /\ proc' = [proc EXCEPT ![p].pc = "commit"]
  /\ queue' = Ask(p, FALSE)
  /\ UNCHANGED <<registry, tokens, readers, rotation, lastError>>

\* Mutant: the service under that id need not be the one looked up.
SomethingRegistered(p) == services[proc[p].id] # None

\* Arc::ptr_eq(current, &service)
StillRegistered(p) == services[proc[p].id] = proc[p].gen

\* The token is written while the registry is held for reading, if the service
\* is still the registered one.
Commit(p) ==
  LET g == proc[p].gen
  IN  /\ proc[p].pc = "commit"
      /\ Served(p, FALSE)
      /\ queue' = Tail(queue)
      /\ IF StillRegistered(p)
         THEN /\ token' = [token EXCEPT ![g] = proc[p].new]
              /\ readers' = readers \cup {p}
              /\ proc' = [proc EXCEPT ![p].pc = "publish"]
              /\ UNCHANGED rotation
         ELSE /\ rotation' = [rotation EXCEPT ![g] = NoProc]
              /\ proc' = [proc EXCEPT ![p] = [IdleAt(@.id) EXCEPT !.pc = Rest(p)]]
              /\ UNCHANGED <<token, readers>>
      /\ UNCHANGED <<registry, nextToken, created, lastError>>

\* Mutant: the token_rotation mutex outlives the rotation.
PublishKeepsRotation(p) ==
  LET g == proc[p].gen
  IN  /\ proc[p].pc = "publish"
      /\ created' = [created EXCEPT ![g] = proc[p].new]
      /\ readers' = readers \ {p}
      /\ proc' = [proc EXCEPT ![p] = IdleAt(@.id)]
      /\ UNCHANGED <<registry, nextToken, token, queue, rotation, lastError>>

\* rotate_uri, and the release of both locks.
PublishRotation(p) ==
  LET g == proc[p].gen
  IN  /\ proc[p].pc = "publish"
      /\ created' = [created EXCEPT ![g] = proc[p].new]
      /\ readers' = readers \ {p}
      /\ rotation' = [rotation EXCEPT ![g] = NoProc]
      /\ proc' = [proc EXCEPT ![p] = IdleAt(@.id)]
      /\ UNCHANGED <<registry, nextToken, token, queue, lastError>>

\* Mutant: the failure goes to whatever service has the id now.
AnyRecipient(p, g) == g # None

\* The service a loop's failure is recorded on is still its own.
FailureRecipient(p, g) == g = p

\* record_rotation_failure waits for the registry ...
AskToRecord(p) ==
  /\ proc[p].pc = "fail"
  /\ proc' = [proc EXCEPT ![p].pc = "record"]
  /\ queue' = Ask(p, FALSE)
  /\ UNCHANGED <<registry, tokens, readers, rotation, lastError>>

\* ... and records the failure on the loop's own service, if it is still there.
RecordFailure(p) ==
  LET g == services[proc[p].id]
  IN  /\ proc[p].pc = "record"
      /\ Served(p, FALSE)
      /\ queue' = Tail(queue)
      /\ lastError' = IF FailureRecipient(p, g) THEN [lastError EXCEPT ![g] = p] ELSE lastError
      /\ proc' = [proc EXCEPT ![p] = IdleAt(@.id)]
      /\ UNCHANGED <<registry, tokens, readers, rotation>>

-----------------------------------------------------------------------------
(* HostedServiceHandle::join_uri and ::token_state *)

BeginQuery(u, id) ==
  /\ u \in Users
  /\ proc[u].pc = "idle"
  /\ proc' = [proc EXCEPT ![u] = [IdleAt(id) EXCEPT !.pc = "query"]]
  /\ queue' = Ask(u, FALSE)
  /\ UNCHANGED <<registry, tokens, readers, rotation, lastError>>

\* The registry stays held for reading while the query waits for token_rotation.
AwaitRotation(u) ==
  LET g == services[proc[u].id]
  IN  /\ proc[u].pc = "query"
      /\ Served(u, FALSE)
      /\ queue' = Tail(queue)
      /\ IF g = None
         THEN /\ proc' = [proc EXCEPT ![u] = IdleAt(@.id)]
              /\ UNCHANGED readers
         ELSE /\ proc' = [proc EXCEPT ![u].pc = "await", ![u].gen = g]
              /\ readers' = readers \cup {u}
      /\ UNCHANGED <<registry, tokens, rotation, lastError>>

\* Mutant: the query does not wait for a rotation to finish.
AnswerAtOnce(u) ==
  /\ proc[u].pc = "await"
  /\ readers' = readers \ {u}
  /\ proc' = [proc EXCEPT ![u] = IdleAt(@.id)]
  /\ UNCHANGED <<registry, tokens, queue, rotation, lastError>>

\* With both locks held the token, and the time it was created, are read; the
\* URI or the TokenState of them is returned.
Answer(u) ==
  /\ proc[u].pc = "await"
  /\ rotation[proc[u].gen] = NoProc
  /\ readers' = readers \ {u}
  /\ proc' = [proc EXCEPT ![u] = IdleAt(@.id)]
  /\ UNCHANGED <<registry, tokens, queue, rotation, lastError>>

-----------------------------------------------------------------------------
Calls ==
  \/ \E u \in Users :
       \/ BeginStart(u) \/ BeginClose(u)
       \/ \E id \in ServiceIds :
            BeginStop(u, id) \/ BeginRotate(u, id) \/ BeginQuery(u, id)
  \/ \E g \in Generations : BeginRotate(g, idOf[g])

Continue(p) ==
  \/ EndStart(p) \/ EndStop(p) \/ EndClose(p)
  \/ LookUp(p) \/ AskToCommit(p) \/ Commit(p) \/ PublishRotation(p)
  \/ AskToRecord(p) \/ RecordFailure(p)
  \/ AwaitRotation(p) \/ Answer(p)

Next == Calls \/ \E p \in Procs : Continue(p)

\* A task that can go on does; nobody has to call.
Spec == Init /\ [][Next]_vars
FairSpec == Spec /\ \A p \in Procs : WF_vars(Continue(p))

-----------------------------------------------------------------------------
(* Safety *)

\* Whoever holds a lock is in the call that takes it and will come to the line that
\* releases it: no early return leaves one held.
LocksAccountedFor ==
  /\ \A g \in Generations : rotation[g] # NoProc =>
       LET p == rotation[g]
       IN  proc[p].pc \in {"rotating", "commit", "publish"} /\ proc[p].gen = g
  /\ \A p \in readers : proc[p].pc \in {"await", "publish"}
  /\ \A p \in Procs :
       /\ proc[p].pc \in {"await", "publish"} => p \in readers
       /\ proc[p].pc \in {"rotating", "commit", "publish"} => rotation[proc[p].gen] = p

\* A loop never records its failure on another service than its own, though the
\* id may have been stopped and published again while it waited.
FailuresStayHome == \A g \in Generations : lastError[g] \in {None, g}

\* A query waits for a rotation that waits for the registry, behind a writer that
\* waits for the query.
CircularWait ==
  \E p, q \in Procs :
    /\ proc[q].pc = "await" /\ q \in readers
    /\ rotation[proc[q].gen] = p
    /\ proc[p].pc = "commit"
    /\ \E i, j \in DOMAIN queue : i < j /\ queue[i].write /\ queue[j].proc = p

\* token_state returns a token with its own creation time, whatever rotations run:
\* what an instance manager saves is never a new token with an old date.
AnswersMatch ==
  [][\A u \in Users : proc[u].pc = "await" /\ proc'[u].pc = "idle" =>
       token[proc[u].gen] = created[proc[u].gen]]_vars

\* A token only changes while its service is published, and a loop only changes the
\* token of the service it was spawned for, though the id may have been stopped and
\* published again since the loop or the call looked it up.
TokensChangeAtHome ==
  [][\A g \in Generations : token'[g] # token[g] /\ token[g] # None =>
       /\ Registered(g)
       /\ \A l \in Generations \ {g} : proc'[l] = proc[l]]_vars

-----------------------------------------------------------------------------
(* Liveness *)

Calling(p) == proc[p].pc \notin {"idle", "over"}

\* Every call returns: stop_service stops "one service; it does not affect other
\* services", and close "stops all services".
CallsReturn == \A p \in Procs : Calling(p) ~> ~Calling(p)

\* Nothing but the circular wait keeps a call from returning.
OnlyCircularWaitBlocks == \A p \in Procs : Calling(p) ~> (~Calling(p) \/ CircularWait)
=============================================================================
