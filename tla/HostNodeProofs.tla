------------------------------ MODULE HostNodeProofs ------------------------------
(***************************************************************************)
(* Proofs about module HostNode, for any users, any service ids and any    *)
(* bounds on session generations and tokens.                               *)
(*                                                                         *)
(* The actions are reduced first to ten shapes of step, which say where    *)
(* the process goes and what it does to the locks and the tokens and       *)
(* mention no record; each part of the inductive invariant is then         *)
(* preserved by every shape.  At the end, the one way in which all calls   *)
(* can wait for each other.                                                *)
(***************************************************************************)
EXTENDS HostNode, TLAPS

-----------------------------------------------------------------------------
(* The inductive invariant *)

WritingPcs == {"start", "stop", "close"}
AskingPcs == WritingPcs \cup {"lookup", "commit", "query", "record"}
RotatingPcs == {"rotating", "commit", "publish"}
HoldingPcs == RotatingPcs \cup {"await"}

\* A process that has a request in the queue waits for it.
Queued == \A i \in DOMAIN queue : proc[queue[i].proc].pc \in AskingPcs

\* A process that waits for the registry has a request in the queue, for writing if
\* it is to write.
AsksOnce == \A p \in Procs : proc[p].pc \in AskingPcs =>
  \E i \in DOMAIN queue : queue[i].proc = p
AsksRightly == \A i \in DOMAIN queue :
  queue[i].write <=> proc[queue[i].proc].pc \in WritingPcs

\* Nothing is known of a generation before it is drawn.
Undrawn == \A g \in Generations : g >= nextGen =>
  proc[g].pc = "over" /\ token[g] = None /\ created[g] = None

\* A published service was drawn for its id.
Published == \A id \in ServiceIds : services[id] # None =>
  services[id] < nextGen /\ idOf[services[id]] = id

\* A start has drawn a generation whose loop does not run ...
Starting == \A u \in Users : proc[u].pc = "start" =>
  /\ proc[u].gen \in Generations /\ proc[u].gen < nextGen
  /\ proc[u].id = idOf[proc[u].gen]
  /\ proc[proc[u].gen].pc = "over"

\* ... and no other start has.
Apart == \A u, v \in Users :
  u # v /\ proc[u].pc = "start" /\ proc[v].pc = "start" => proc[u].gen # proc[v].gen

\* A rotation holds a generation that was published; a loop holds its own.
Rotating == \A p \in Procs : proc[p].pc \in RotatingPcs =>
  /\ proc[p].gen \in Generations /\ proc[p].gen < nextGen
  /\ proc[p].id = idOf[proc[p].gen]
  /\ p \in Generations => p = proc[p].gen

\* So does a query that waits for a rotation.
Awaiting == \A p \in Procs : proc[p].pc = "await" => proc[p].gen \in Generations

\* The locks, each from both ends.
MutexHeld == \A g \in Generations : rotation[g] # NoProc =>
  proc[rotation[g]].pc \in RotatingPcs /\ proc[rotation[g]].gen = g
MutexOwned == \A p \in Procs : proc[p].pc \in RotatingPcs => rotation[proc[p].gen] = p
ReadersHeld == \A p \in readers : proc[p].pc \in {"await", "publish"}
ReadersOwned == \A p \in Procs : proc[p].pc \in {"await", "publish"} => p \in readers

\* A token and its creation time differ only inside the section that writes both ...
Dated == \A g \in Generations : token[g] # created[g] =>
  rotation[g] # NoProc /\ proc[rotation[g]].pc = "publish"

\* ... which has written the token it will date.
Written == \A p \in Procs : proc[p].pc = "publish" => token[proc[p].gen] = proc[p].new

Drawn == Undrawn /\ Published /\ Starting /\ Apart
Locked == MutexHeld /\ MutexOwned /\ ReadersHeld /\ ReadersOwned

IInv ==
  /\ TypeOK /\ Queued /\ AsksOnce /\ AsksRightly /\ Drawn /\ Rotating /\ Awaiting
  /\ Locked /\ Dated /\ Written /\ FailuresStayHome

-----------------------------------------------------------------------------
(* The queue *)

\* The types of everything but the queue's order.
LEMMA AskTypes ==
  ASSUME TypeOK, Queued, NEW p \in Procs, NEW w \in BOOLEAN,
         proc[p].pc \notin AskingPcs, queue' = Ask(p, w)
  PROVE  /\ queue' \in Seq(Requests)
         /\ \A i, j \in DOMAIN queue' : queue'[i].proc = queue'[j].proc => i = j
         /\ \A i \in DOMAIN queue' :
              queue'[i] = [proc |-> p, write |-> w] \/ \E j \in DOMAIN queue : queue'[i] = queue[j]
         /\ \A j \in DOMAIN queue : j \in DOMAIN queue' /\ queue'[j] = queue[j]
         /\ \E i \in DOMAIN queue' : queue'[i].proc = p
<1> DEFINE r == [proc |-> p, write |-> w]
<1>1. r \in Requests /\ queue \in Seq(Requests) /\ queue' = Append(queue, r)
  BY DEF TypeOK, Requests, Ask
<1>2. \A i \in DOMAIN queue : queue[i].proc # p
  BY DEF Queued
<1>3. /\ queue' \in Seq(Requests) /\ DOMAIN queue' = 1 .. Len(queue) + 1
      /\ DOMAIN queue = 1 .. Len(queue) /\ Len(queue) \in Nat
      /\ \A i \in DOMAIN queue : queue'[i] = queue[i]
      /\ queue'[Len(queue) + 1] = r
  <2> HIDE DEF r
  <2> QED BY <1>1
<1>4. r.proc = p
  OBVIOUS
<1>5. \A i \in DOMAIN queue' : i \in DOMAIN queue \/ i = Len(queue) + 1
  BY <1>3
<1>6. \A i, j \in DOMAIN queue : queue[i].proc = queue[j].proc => i = j
  BY DEF TypeOK
<1>7. Len(queue) + 1 \in DOMAIN queue'
  BY <1>3
<1>8. \A i \in DOMAIN queue' : queue'[i] = r \/ \E j \in DOMAIN queue : queue'[i] = queue[j]
  BY <1>3, <1>5
<1> HIDE DEF r
<1>9. \A j \in DOMAIN queue : j \in DOMAIN queue' /\ queue'[j] = queue[j]
  BY <1>3
<1>10. \A i, j \in DOMAIN queue' : queue'[i].proc = queue'[j].proc => i = j
  BY <1>2, <1>3, <1>4, <1>5, <1>6
<1>11. \E i \in DOMAIN queue' : queue'[i].proc = p
  BY <1>3, <1>4, <1>7
<1> QED BY <1>3, <1>8, <1>9, <1>10, <1>11 DEF r

\* What is left of a queue whose head is served is a queue.
LEMMA ServedTypes ==
  ASSUME TypeOK, NEW p \in Procs, NEW w \in BOOLEAN, Served(p, w), queue' = Tail(queue)
  PROVE  /\ queue' \in Seq(Requests)
         /\ \A i, j \in DOMAIN queue' : queue'[i].proc = queue'[j].proc => i = j
         /\ \A i \in DOMAIN queue' :
              queue'[i].proc # p /\ \E j \in DOMAIN queue : queue'[i] = queue[j]
         /\ \A j \in DOMAIN queue : queue[j].proc # p => \E i \in DOMAIN queue' : queue'[i] = queue[j]
<1>1. queue \in Seq(Requests) /\ queue # <<>> /\ queue[1].proc = p
  BY DEF TypeOK, Served
<1>2. /\ queue' \in Seq(Requests) /\ DOMAIN queue' = 1 .. Len(queue) - 1
      /\ DOMAIN queue = 1 .. Len(queue) /\ Len(queue) \in Nat /\ Len(queue) > 0
      /\ \A i \in DOMAIN queue' : queue'[i] = queue[i + 1]
  BY <1>1
<1>3. \A i, j \in DOMAIN queue : queue[i].proc = queue[j].proc => i = j
  BY DEF TypeOK
<1>4. \A i \in DOMAIN queue' : i + 1 \in DOMAIN queue /\ i + 1 # 1
  BY <1>2
<1>5. 1 \in DOMAIN queue
  BY <1>2
<1>6. \A j \in DOMAIN queue : j # 1 => j - 1 \in DOMAIN queue' /\ queue'[j - 1] = queue[j]
  BY <1>2
<1>7. \A i \in DOMAIN queue' :
        queue'[i].proc # p /\ \E j \in DOMAIN queue : queue'[i] = queue[j]
  BY <1>1, <1>2, <1>3, <1>4, <1>5
<1>8. \A i, j \in DOMAIN queue' : queue'[i].proc = queue'[j].proc => i = j
  BY <1>2, <1>3, <1>4
<1> QED BY <1>1, <1>2, <1>6, <1>7, <1>8

\* What a request in the queue is.
LEMMA QueueTypes ==
  ASSUME TypeOK
  PROVE  \A i \in DOMAIN queue : queue[i].proc \in Procs
<1>1. queue \in Seq(Requests)
  BY DEF TypeOK
<1>2. \A i \in DOMAIN queue : queue[i] \in Requests
  BY <1>1
<1> QED BY <1>2 DEF Requests

\* What a step of p does to the queue.
QueueMove(p) ==
  \/ /\ proc[p].pc \notin AskingPcs /\ proc'[p].pc \notin AskingPcs
     /\ queue' = queue
  \/ /\ proc[p].pc \notin AskingPcs /\ proc'[p].pc \in AskingPcs
     /\ \E w \in BOOLEAN : /\ queue' = Ask(p, w)
                           /\ w <=> proc'[p].pc \in WritingPcs
  \/ /\ proc[p].pc \in AskingPcs /\ proc'[p].pc \notin AskingPcs
     /\ queue' = Tail(queue)
     /\ \E w \in BOOLEAN : /\ Served(p, w)
                           /\ w <=> proc[p].pc \in WritingPcs

\* What is known of the queue.
QueueKept ==
  /\ queue \in Seq(Requests)
  /\ \A i, j \in DOMAIN queue : queue[i].proc = queue[j].proc => i = j
  /\ Queued /\ AsksOnce /\ AsksRightly

\* Only the process whose request was served leaves the queue, and a process that
\* asks is not in it yet.
LEMMA QueueStep ==
  ASSUME TypeOK, Queued, AsksOnce, AsksRightly, NEW p \in Procs, QueueMove(p),
         \A r \in Procs \ {p} :
           proc[r].pc \in AskingPcs \/ proc'[r].pc \in AskingPcs => proc'[r] = proc[r]
  PROVE  QueueKept'
<1>1. \A i \in DOMAIN queue : queue[i].proc \in Procs /\ proc[queue[i].proc].pc \in AskingPcs
  BY QueueTypes DEF Queued
<1>2. CASE /\ proc[p].pc \notin AskingPcs /\ proc'[p].pc \notin AskingPcs
           /\ queue' = queue
  <2>1. \A r \in Procs : proc[r].pc \in AskingPcs \/ proc'[r].pc \in AskingPcs =>
          proc'[r] = proc[r]
    BY <1>2
  <2>2. QueueKept
    BY DEF QueueKept, TypeOK
  <2> QED BY <1>1, <1>2, <2>1, <2>2 DEF QueueKept, Queued, AsksOnce, AsksRightly
<1>3. ASSUME NEW w \in BOOLEAN, proc[p].pc \notin AskingPcs, proc'[p].pc \in AskingPcs,
             queue' = Ask(p, w), w <=> proc'[p].pc \in WritingPcs
      PROVE  QueueKept'
  <2>1. /\ queue' \in Seq(Requests)
        /\ \A i, j \in DOMAIN queue' : queue'[i].proc = queue'[j].proc => i = j
        /\ \A i \in DOMAIN queue' :
             queue'[i] = [proc |-> p, write |-> w] \/ \E j \in DOMAIN queue : queue'[i] = queue[j]
        /\ \A j \in DOMAIN queue : j \in DOMAIN queue' /\ queue'[j] = queue[j]
        /\ \E i \in DOMAIN queue' : queue'[i].proc = p
    BY <1>3, AskTypes
  <2>2. Queued' /\ AsksRightly'
    BY <1>1, <1>3, <2>1 DEF Queued, AsksRightly
  <2>3. AsksOnce'
    BY <1>3, <2>1 DEF AsksOnce
  <2> QED BY <2>1, <2>2, <2>3 DEF QueueKept
<1>4. ASSUME NEW w \in BOOLEAN, Served(p, w), queue' = Tail(queue), proc'[p].pc \notin AskingPcs
      PROVE  QueueKept'
  <2>1. /\ queue' \in Seq(Requests)
        /\ \A i, j \in DOMAIN queue' : queue'[i].proc = queue'[j].proc => i = j
        /\ \A i \in DOMAIN queue' :
             queue'[i].proc # p /\ \E j \in DOMAIN queue : queue'[i] = queue[j]
        /\ \A j \in DOMAIN queue : queue[j].proc # p => \E i \in DOMAIN queue' : queue'[i] = queue[j]
    BY <1>4, ServedTypes
  <2>2. Queued' /\ AsksRightly'
    BY <1>1, <2>1 DEF Queued, AsksRightly
  <2>3. AsksOnce'
    <3> SUFFICES ASSUME NEW r \in Procs, proc'[r].pc \in AskingPcs
                 PROVE  \E i \in DOMAIN queue' : queue'[i].proc = r
      BY DEF AsksOnce
    <3>1. r # p /\ proc[r].pc \in AskingPcs
      BY <1>4
    <3> QED BY <2>1, <3>1 DEF AsksOnce
  <2> QED BY <2>1, <2>2, <2>3 DEF QueueKept
<1> QED BY <1>2, <1>3, <1>4 DEF QueueMove

-----------------------------------------------------------------------------
(* How a step moves the process that takes it *)

MovedTo(p, pc, id, g, n) ==
  /\ proc' \in [Procs -> Locals]
  /\ proc'[p].pc = pc /\ proc'[p].id = id /\ proc'[p].gen = g /\ proc'[p].new = n
  /\ \A r \in Procs : r # p => proc'[r] = proc[r]

\* A user is no generation, and neither is None.
LEMMA Kinds ==
  /\ \A p : p \in Procs <=> p \in Users \/ p \in Generations
  /\ \A u \in Users : u \notin Generations
  /\ \A u \in Procs : u # NoProc /\ u # None
  /\ None \notin Generations
  /\ \A g \in Generations : g \in Nat
BY UsersAssumption, BoundsAssumption DEF Procs, Generations, None

\* No generation and no token are values of the places that hold them.
LEMMA Nones == None \in Generations \cup {None} /\ None \in 0 .. MaxTokens
BY BoundsAssumption DEF None

\* What a process is.
LEMMA ProcTypes ==
  ASSUME TypeOK
  PROVE  /\ proc \in [Procs -> Locals]
         /\ \A p \in Procs :
              /\ proc[p] \in Locals
              /\ proc[p].pc \in Pcs /\ proc[p].id \in ServiceIds
              /\ proc[p].gen \in Generations \cup {None} /\ proc[p].new \in 0 .. MaxTokens
BY DEF TypeOK, Locals

\* A process that moves keeps its fields, but for those the move sets.
LEMMA Moving ==
  ASSUME proc \in [Procs -> Locals], NEW p \in Procs, NEW l \in Locals,
         proc' = [proc EXCEPT ![p] = l]
  PROVE  MovedTo(p, l.pc, l.id, l.gen, l.new)
BY DEF MovedTo

LEMMA BeginStartMoves ==
  ASSUME TypeOK, NEW p \in Users, BeginStart(p)
  PROVE  MovedTo(p, "start", idOf[nextGen], nextGen, None)
<1>1. p \in Procs /\ idOf[nextGen] \in ServiceIds /\ nextGen \in Generations
  BY ProcTypes DEF BeginStart, TypeOK, Procs
<1> DEFINE l == [IdleAt(idOf[nextGen]) EXCEPT !.pc = "start", !.gen = nextGen]
<1>2. l \in Locals /\ l.pc = "start" /\ l.id = idOf[nextGen] /\ l.gen = nextGen /\ l.new = None
  BY <1>1, ProcTypes, Nones DEF Locals, Pcs, IdleAt, Rest
<1>3. proc' = [proc EXCEPT ![p] = l]
  BY <1>1 DEF BeginStart
<1> HIDE DEF l
<1> QED
  BY <1>1, <1>2, <1>3, ProcTypes, Moving

LEMMA BeginCloseMoves ==
  ASSUME TypeOK, NEW p \in Users, BeginClose(p)
  PROVE  MovedTo(p, "close", proc[p].id, proc[p].gen, proc[p].new)
<1>1. p \in Procs
  BY DEF Procs
<1> DEFINE l == [proc[p] EXCEPT !.pc = "close"]
<1>2. l \in Locals /\ l.pc = "close" /\ l.id = proc[p].id /\ l.gen = proc[p].gen /\ l.new = proc[p].new
  BY <1>1, ProcTypes, Nones DEF Locals, Pcs, IdleAt, Rest
<1>3. proc' = [proc EXCEPT ![p] = l]
  BY <1>1 DEF BeginClose
<1> HIDE DEF l
<1> QED
  BY <1>1, <1>2, <1>3, ProcTypes, Moving

LEMMA BeginStopMoves ==
  ASSUME TypeOK, NEW p \in Users, NEW id \in ServiceIds, BeginStop(p, id)
  PROVE  MovedTo(p, "stop", id, None, None)
<1>1. p \in Procs
  BY DEF Procs
<1> DEFINE l == [IdleAt(id) EXCEPT !.pc = "stop"]
<1>2. l \in Locals /\ l.pc = "stop" /\ l.id = id /\ l.gen = None /\ l.new = None
  BY <1>1, ProcTypes, Nones DEF Locals, Pcs, IdleAt, Rest
<1>3. proc' = [proc EXCEPT ![p] = l]
  BY <1>1 DEF BeginStop
<1> HIDE DEF l
<1> QED
  BY <1>1, <1>2, <1>3, ProcTypes, Moving

LEMMA BeginQueryMoves ==
  ASSUME TypeOK, NEW p \in Users, NEW id \in ServiceIds, BeginQuery(p, id)
  PROVE  MovedTo(p, "query", id, None, None)
<1>1. p \in Procs
  BY DEF Procs
<1> DEFINE l == [IdleAt(id) EXCEPT !.pc = "query"]
<1>2. l \in Locals /\ l.pc = "query" /\ l.id = id /\ l.gen = None /\ l.new = None
  BY <1>1, ProcTypes, Nones DEF Locals, Pcs, IdleAt, Rest
<1>3. proc' = [proc EXCEPT ![p] = l]
  BY <1>1 DEF BeginQuery
<1> HIDE DEF l
<1> QED
  BY <1>1, <1>2, <1>3, ProcTypes, Moving

LEMMA BeginRotateMoves ==
  ASSUME TypeOK, NEW p \in Procs, NEW id \in ServiceIds, BeginRotate(p, id)
  PROVE  MovedTo(p, "lookup", id, None, None)
<1>1. p \in Procs
  BY DEF Procs
<1> DEFINE l == [IdleAt(id) EXCEPT !.pc = "lookup"]
<1>2. l \in Locals /\ l.pc = "lookup" /\ l.id = id /\ l.gen = None /\ l.new = None
  BY <1>1, ProcTypes, Nones DEF Locals, Pcs, IdleAt, Rest
<1>3. proc' = [proc EXCEPT ![p] = l]
  BY <1>1 DEF BeginRotate
<1> HIDE DEF l
<1> QED
  BY <1>1, <1>2, <1>3, ProcTypes, Moving

LEMMA EndStopMoves ==
  ASSUME TypeOK, NEW p \in Procs, EndStop(p)
  PROVE  MovedTo(p, "idle", proc[p].id, None, None)
<1>1. p \in Procs
  BY DEF Procs
<1> DEFINE l == IdleAt(proc[p].id)
<1>2. l \in Locals /\ l.pc = "idle" /\ l.id = proc[p].id /\ l.gen = None /\ l.new = None
  BY <1>1, ProcTypes, Nones DEF Locals, Pcs, IdleAt, Rest
<1>3. proc' = [proc EXCEPT ![p] = l]
  BY <1>1 DEF EndStop
<1> HIDE DEF l
<1> QED
  BY <1>1, <1>2, <1>3, ProcTypes, Moving

LEMMA EndCloseMoves ==
  ASSUME TypeOK, NEW p \in Procs, EndClose(p)
  PROVE  MovedTo(p, "idle", proc[p].id, None, None)
<1>1. p \in Procs
  BY DEF Procs
<1> DEFINE l == IdleAt(proc[p].id)
<1>2. l \in Locals /\ l.pc = "idle" /\ l.id = proc[p].id /\ l.gen = None /\ l.new = None
  BY <1>1, ProcTypes, Nones DEF Locals, Pcs, IdleAt, Rest
<1>3. proc' = [proc EXCEPT ![p] = l]
  BY <1>1 DEF EndClose
<1> HIDE DEF l
<1> QED
  BY <1>1, <1>2, <1>3, ProcTypes, Moving

LEMMA AskToCommitMoves ==
  ASSUME TypeOK, NEW p \in Procs, AskToCommit(p)
  PROVE  MovedTo(p, "commit", proc[p].id, proc[p].gen, proc[p].new)
<1>1. p \in Procs
  BY DEF Procs
<1> DEFINE l == [proc[p] EXCEPT !.pc = "commit"]
<1>2. l \in Locals /\ l.pc = "commit" /\ l.id = proc[p].id /\ l.gen = proc[p].gen /\ l.new = proc[p].new
  BY <1>1, ProcTypes, Nones DEF Locals, Pcs, IdleAt, Rest
<1>3. proc' = [proc EXCEPT ![p] = l]
  BY <1>1 DEF AskToCommit
<1> HIDE DEF l
<1> QED
  BY <1>1, <1>2, <1>3, ProcTypes, Moving

LEMMA CommitMoves ==
  ASSUME TypeOK, NEW p \in Procs, Commit(p)
  PROVE  /\ StillRegistered(p) => MovedTo(p, "publish", proc[p].id, proc[p].gen, proc[p].new)
         /\ ~StillRegistered(p) => MovedTo(p, Rest(p), proc[p].id, None, None)
<1>1. p \in Procs
  BY DEF Procs
<1>2. CASE StillRegistered(p)
  <2> DEFINE l == [proc[p] EXCEPT !.pc = "publish"]
  <2>2. l \in Locals /\ l.pc = "publish" /\ l.id = proc[p].id /\ l.gen = proc[p].gen /\ l.new = proc[p].new
    BY <1>1, <1>2, ProcTypes, Nones DEF Locals, Pcs, IdleAt, Rest
  <2>3. proc' = [proc EXCEPT ![p] = l]
    BY <1>1, <1>2 DEF Commit
  <2> HIDE DEF l
  <2> QED
    BY <1>1, <1>2, <2>2, <2>3, ProcTypes, Moving
<1>3. CASE ~StillRegistered(p)
  <2> DEFINE l == [IdleAt(proc[p].id) EXCEPT !.pc = Rest(p)]
  <2>2. l \in Locals /\ l.pc = Rest(p) /\ l.id = proc[p].id /\ l.gen = None /\ l.new = None
    BY <1>1, <1>3, ProcTypes, Nones DEF Locals, Pcs, IdleAt, Rest
  <2>3. proc' = [proc EXCEPT ![p] = l]
    BY <1>1, <1>3 DEF Commit
  <2> HIDE DEF l
  <2> QED
    BY <1>1, <1>3, <2>2, <2>3, ProcTypes, Moving
<1> QED
  BY <1>2, <1>3

LEMMA PublishRotationMoves ==
  ASSUME TypeOK, NEW p \in Procs, PublishRotation(p)
  PROVE  MovedTo(p, "idle", proc[p].id, None, None)
<1>1. p \in Procs
  BY DEF Procs
<1> DEFINE l == IdleAt(proc[p].id)
<1>2. l \in Locals /\ l.pc = "idle" /\ l.id = proc[p].id /\ l.gen = None /\ l.new = None
  BY <1>1, ProcTypes, Nones DEF Locals, Pcs, IdleAt, Rest
<1>3. proc' = [proc EXCEPT ![p] = l]
  BY <1>1 DEF PublishRotation
<1> HIDE DEF l
<1> QED
  BY <1>1, <1>2, <1>3, ProcTypes, Moving

LEMMA AskToRecordMoves ==
  ASSUME TypeOK, NEW p \in Procs, AskToRecord(p)
  PROVE  MovedTo(p, "record", proc[p].id, proc[p].gen, proc[p].new)
<1>1. p \in Procs
  BY DEF Procs
<1> DEFINE l == [proc[p] EXCEPT !.pc = "record"]
<1>2. l \in Locals /\ l.pc = "record" /\ l.id = proc[p].id /\ l.gen = proc[p].gen /\ l.new = proc[p].new
  BY <1>1, ProcTypes, Nones DEF Locals, Pcs, IdleAt, Rest
<1>3. proc' = [proc EXCEPT ![p] = l]
  BY <1>1 DEF AskToRecord
<1> HIDE DEF l
<1> QED
  BY <1>1, <1>2, <1>3, ProcTypes, Moving

LEMMA RecordFailureMoves ==
  ASSUME TypeOK, NEW p \in Procs, RecordFailure(p)
  PROVE  MovedTo(p, "idle", proc[p].id, None, None)
<1>1. p \in Procs
  BY DEF Procs
<1> DEFINE l == IdleAt(proc[p].id)
<1>2. l \in Locals /\ l.pc = "idle" /\ l.id = proc[p].id /\ l.gen = None /\ l.new = None
  BY <1>1, ProcTypes, Nones DEF Locals, Pcs, IdleAt, Rest
<1>3. proc' = [proc EXCEPT ![p] = l]
  BY <1>1 DEF RecordFailure
<1> HIDE DEF l
<1> QED
  BY <1>1, <1>2, <1>3, ProcTypes, Moving

LEMMA AwaitRotationMoves ==
  ASSUME TypeOK, NEW p \in Procs, AwaitRotation(p)
  PROVE  /\ services[proc[p].id] # None => MovedTo(p, "await", proc[p].id, services[proc[p].id], proc[p].new)
         /\ services[proc[p].id] = None => MovedTo(p, "idle", proc[p].id, None, None)
<1>1. p \in Procs /\ services[proc[p].id] \in Generations \cup {None}
  BY ProcTypes DEF AwaitRotation, TypeOK, Procs
<1>2. CASE services[proc[p].id] # None
  <2> DEFINE l == [proc[p] EXCEPT !.pc = "await", !.gen = services[proc[p].id]]
  <2>2. l \in Locals /\ l.pc = "await" /\ l.id = proc[p].id /\ l.gen = services[proc[p].id] /\ l.new = proc[p].new
    BY <1>1, <1>2, ProcTypes, Nones DEF Locals, Pcs, IdleAt, Rest
  <2>3. proc' = [proc EXCEPT ![p] = l]
    BY <1>1, <1>2 DEF AwaitRotation
  <2> HIDE DEF l
  <2> QED
    BY <1>1, <1>2, <2>2, <2>3, ProcTypes, Moving
<1>3. CASE services[proc[p].id] = None
  <2> DEFINE l == IdleAt(proc[p].id)
  <2>2. l \in Locals /\ l.pc = "idle" /\ l.id = proc[p].id /\ l.gen = None /\ l.new = None
    BY <1>1, <1>3, ProcTypes, Nones DEF Locals, Pcs, IdleAt, Rest
  <2>3. proc' = [proc EXCEPT ![p] = l]
    BY <1>1, <1>3 DEF AwaitRotation
  <2> HIDE DEF l
  <2> QED
    BY <1>1, <1>3, <2>2, <2>3, ProcTypes, Moving
<1> QED
  BY <1>2, <1>3

LEMMA AnswerMoves ==
  ASSUME TypeOK, NEW p \in Procs, Answer(p)
  PROVE  MovedTo(p, "idle", proc[p].id, None, None)
<1>1. p \in Procs
  BY DEF Procs
<1> DEFINE l == IdleAt(proc[p].id)
<1>2. l \in Locals /\ l.pc = "idle" /\ l.id = proc[p].id /\ l.gen = None /\ l.new = None
  BY <1>1, ProcTypes, Nones DEF Locals, Pcs, IdleAt, Rest
<1>3. proc' = [proc EXCEPT ![p] = l]
  BY <1>1 DEF Answer
<1> HIDE DEF l
<1> QED
  BY <1>1, <1>2, <1>3, ProcTypes, Moving

LEMMA EndStartMoves ==
  ASSUME TypeOK, NEW p \in Procs, EndStart(p), proc[p].gen \in Generations,
         proc[p].gen # p
  PROVE  /\ services[proc[p].id] # None => MovedTo(p, "idle", proc[p].id, None, None)
         /\ services[proc[p].id] = None =>
              /\ proc' \in [Procs -> Locals]
              /\ proc'[p].pc = "idle" /\ proc'[proc[p].gen].pc = "idle"
              /\ \A r \in Procs : r # p /\ r # proc[p].gen => proc'[r] = proc[r]
<1> DEFINE l == IdleAt(proc[p].id)
<1>1. proc[p].gen \in Procs
  BY DEF Procs
<1>2. l \in Locals /\ l.pc = "idle" /\ l.id = proc[p].id /\ l.gen = None /\ l.new = None
  BY ProcTypes, Nones DEF Locals, Pcs, IdleAt
<1>3. CASE services[proc[p].id] # None
  <2>1. proc' = [proc EXCEPT ![p] = l]
    BY <1>3 DEF EndStart
  <2> HIDE DEF l
  <2> QED BY <1>2, <1>3, <2>1, ProcTypes, Moving
<1>4. CASE services[proc[p].id] = None
  <2>1. proc' = [proc EXCEPT ![p] = l, ![proc[p].gen] = l]
    BY <1>4 DEF EndStart
  <2>2. proc \in [Procs -> Locals]
    BY ProcTypes
  <2> HIDE DEF l
  <2> QED BY <1>1, <1>2, <1>4, <2>1, <2>2
<1> QED BY <1>3, <1>4

\* What a look-up may come to.
LookUpFails(p) ==
  /\ UNCHANGED <<nextToken, rotation>>
  /\ MovedTo(p, proc'[p].pc, proc[p].id, None, None)
  /\ proc'[p].pc \in {"idle", "over", "fail"}
  /\ p \in Users => proc'[p].pc = "idle"

LookUpFinds(p) ==
  LET g == services[proc[p].id]
  IN  /\ g \in Generations /\ ExpectedGeneration(p, g)
      /\ rotation[g] = NoProc /\ Waits(g) = {}
      /\ nextToken <= MaxTokens
      /\ nextToken' = nextToken + 1
      /\ rotation' = [rotation EXCEPT ![g] = p]
      /\ MovedTo(p, "rotating", proc[p].id, g, nextToken)

LEMMA LookUpMoves ==
  ASSUME TypeOK, NEW p \in Procs, LookUp(p)
  PROVE  LookUpFails(p) \/ LookUpFinds(p)
<1> DEFINE g == services[proc[p].id]
<1>0. g \in Generations \cup {None}
  BY ProcTypes DEF TypeOK
<1>1. ASSUME NEW pc \in {"idle", "over", "fail"}, UNCHANGED <<nextToken, rotation>>,
             p \in Users => pc = "idle",
             proc' = [proc EXCEPT ![p] = [IdleAt(proc[p].id) EXCEPT !.pc = pc]]
      PROVE  LookUpFails(p)
  <2> DEFINE l == [IdleAt(proc[p].id) EXCEPT !.pc = pc]
  <2>1. l \in Locals /\ l.pc = pc /\ l.id = proc[p].id /\ l.gen = None /\ l.new = None
    BY ProcTypes, Nones DEF Locals, Pcs, IdleAt
  <2>2. proc' = [proc EXCEPT ![p] = l]
    BY <1>1
  <2> HIDE DEF l
  <2>3. MovedTo(p, pc, proc[p].id, None, None)
    BY <2>1, <2>2, ProcTypes, Moving
  <2> QED BY <1>1, <2>3 DEF LookUpFails, MovedTo
<1>2. ASSUME g # None, ExpectedGeneration(p, g), rotation[g] = NoProc, Waits(g) = {},
             nextToken <= MaxTokens, nextToken' = nextToken + 1,
             rotation' = [rotation EXCEPT ![g] = p],
             proc' = [proc EXCEPT ![p] = [proc[p] EXCEPT !.pc = "rotating", !.gen = g, !.new = nextToken]]
      PROVE  LookUpFinds(p)
  <2> DEFINE l == [proc[p] EXCEPT !.pc = "rotating", !.gen = g, !.new = nextToken]
  <2>0. nextToken \in 0 .. MaxTokens
    BY <1>2, BoundsAssumption DEF TypeOK
  <2>1. l \in Locals /\ l.pc = "rotating" /\ l.id = proc[p].id /\ l.gen = g /\ l.new = nextToken
    BY <1>0, <2>0, ProcTypes DEF Locals, Pcs
  <2>2. proc' = [proc EXCEPT ![p] = l]
    BY <1>2
  <2> HIDE DEF l
  <2>3. MovedTo(p, "rotating", proc[p].id, g, nextToken)
    BY <2>1, <2>2, ProcTypes, Moving
  <2> QED BY <1>0, <1>2, <2>3 DEF LookUpFinds
<1>3. IdleAt(proc[p].id) = [IdleAt(proc[p].id) EXCEPT !.pc = "idle"]
  BY DEF IdleAt
<1>4. Rest(p) \in {"idle", "over"} /\ (p \in Users => Rest(p) = "idle")
  BY DEF Rest
<1> DEFINE gone == ~(g # None /\ ExpectedGeneration(p, g))
<1> DEFINE free == rotation[g] = NoProc /\ Waits(g) = {}
<1>5. \/ /\ proc' = [proc EXCEPT ![p] = [IdleAt(proc[p].id) EXCEPT !.pc = Rest(p)]]
          /\ UNCHANGED <<nextToken, rotation>>
      \/ /\ proc' = [proc EXCEPT ![p] = IdleAt(proc[p].id)]
          /\ UNCHANGED <<nextToken, rotation>>
      \/ /\ proc' = [proc EXCEPT ![p] = [IdleAt(proc[p].id) EXCEPT
                        !.pc = IF p \in Users THEN "idle" ELSE "fail"]]
          /\ UNCHANGED <<nextToken, rotation>>
      \/ /\ ~gone /\ free /\ nextToken <= MaxTokens
          /\ proc' = [proc EXCEPT ![p] = [proc[p] EXCEPT !.pc = "rotating", !.gen = g, !.new = nextToken]]
          /\ nextToken' = nextToken + 1
          /\ rotation' = [rotation EXCEPT ![g] = p]
  BY DEF LookUp
<1> QED
  BY <1>1, <1>2, <1>3, <1>4, <1>5
-----------------------------------------------------------------------------
(* What a step does to the rest of the state *)

LEMMA BeginStartEffect ==
  ASSUME TypeOK, NEW p \in Users, BeginStart(p)
  PROVE  /\ proc[p].pc = "idle" /\ nextGen \in Generations /\ nextToken <= MaxTokens
         /\ nextGen' = nextGen + 1 /\ nextToken' = nextToken + 1
         /\ token' = [token EXCEPT ![nextGen] = nextToken]
         /\ created' = [created EXCEPT ![nextGen] = nextToken]
         /\ queue' = Ask(p, TRUE)
         /\ UNCHANGED <<services, idOf, readers, rotation, lastError>>
BY Kinds DEF BeginStart, registry, tokens, locks

LEMMA BeginCloseEffect ==
  ASSUME TypeOK, NEW p \in Users, BeginClose(p)
  PROVE  /\ proc[p].pc = "idle"
         /\ queue' = Ask(p, TRUE)
         /\ UNCHANGED <<services, idOf, nextGen, nextToken, token, created, readers, rotation, lastError>>
BY Kinds DEF BeginClose, registry, tokens, locks

LEMMA BeginStopEffect ==
  ASSUME TypeOK, NEW p \in Users, NEW id \in ServiceIds, BeginStop(p, id)
  PROVE  /\ proc[p].pc = "idle"
         /\ queue' = Ask(p, TRUE)
         /\ UNCHANGED <<services, idOf, nextGen, nextToken, token, created, readers, rotation, lastError>>
BY Kinds DEF BeginStop, registry, tokens, locks

LEMMA BeginQueryEffect ==
  ASSUME TypeOK, NEW p \in Users, NEW id \in ServiceIds, BeginQuery(p, id)
  PROVE  /\ proc[p].pc = "idle"
         /\ queue' = Ask(p, FALSE)
         /\ UNCHANGED <<services, idOf, nextGen, nextToken, token, created, readers, rotation, lastError>>
BY Kinds DEF BeginQuery, registry, tokens, locks

LEMMA BeginRotateEffect ==
  ASSUME TypeOK, NEW p \in Procs, NEW id \in ServiceIds, BeginRotate(p, id)
  PROVE  /\ proc[p].pc = "idle" /\ (p \in Generations => id = idOf[p])
         /\ queue' = Ask(p, FALSE)
         /\ UNCHANGED <<services, idOf, nextGen, nextToken, token, created, readers, rotation, lastError>>
BY Kinds DEF BeginRotate, registry, tokens, locks

LEMMA EndStartEffect ==
  ASSUME TypeOK, NEW p \in Procs, EndStart(p)
  PROVE  /\ p \in Users /\ proc[p].pc = "start" /\ Served(p, TRUE)
         /\ queue' = Tail(queue)
         /\ services[proc[p].id] = None => services' = [services EXCEPT ![proc[p].id] = proc[p].gen]
         /\ services[proc[p].id] # None => UNCHANGED services
         /\ UNCHANGED <<idOf, nextGen, nextToken, token, created, readers, rotation, lastError>>
BY Kinds DEF EndStart, registry, tokens, locks

LEMMA EndStopEffect ==
  ASSUME TypeOK, NEW p \in Procs, EndStop(p)
  PROVE  /\ p \in Users /\ proc[p].pc = "stop" /\ Served(p, TRUE)
         /\ queue' = Tail(queue)
         /\ services' = [services EXCEPT ![proc[p].id] = None]
         /\ UNCHANGED <<idOf, nextGen, nextToken, token, created, readers, rotation, lastError>>
BY Kinds DEF EndStop, registry, tokens, locks

LEMMA EndCloseEffect ==
  ASSUME TypeOK, NEW p \in Procs, EndClose(p)
  PROVE  /\ p \in Users /\ proc[p].pc = "close" /\ Served(p, TRUE)
         /\ queue' = Tail(queue)
         /\ services' = [id \in ServiceIds |-> None]
         /\ UNCHANGED <<idOf, nextGen, nextToken, token, created, readers, rotation, lastError>>
BY Kinds DEF EndClose, registry, tokens, locks

LEMMA LookUpEffect ==
  ASSUME TypeOK, NEW p \in Procs, LookUp(p)
  PROVE  /\ proc[p].pc = "lookup" /\ Served(p, FALSE)
         /\ queue' = Tail(queue)
         /\ UNCHANGED <<services, idOf, nextGen, token, created, readers, lastError>>
BY Kinds DEF LookUp, registry, tokens, locks

LEMMA AskToCommitEffect ==
  ASSUME TypeOK, NEW p \in Procs, AskToCommit(p)
  PROVE  /\ proc[p].pc = "rotating"
         /\ queue' = Ask(p, FALSE)
         /\ UNCHANGED <<services, idOf, nextGen, nextToken, token, created, readers, rotation, lastError>>
BY Kinds DEF AskToCommit, registry, tokens, locks

LEMMA CommitEffect ==
  ASSUME TypeOK, NEW p \in Procs, Commit(p)
  PROVE  /\ proc[p].pc = "commit" /\ Served(p, FALSE)
         /\ queue' = Tail(queue)
         /\ StillRegistered(p) =>
              /\ token' = [token EXCEPT ![proc[p].gen] = proc[p].new]
              /\ readers' = readers \cup {p} /\ UNCHANGED rotation
         /\ ~StillRegistered(p) =>
              /\ rotation' = [rotation EXCEPT ![proc[p].gen] = NoProc]
              /\ UNCHANGED <<token, readers>>
         /\ UNCHANGED <<services, idOf, nextGen, nextToken, created, lastError>>
BY Kinds DEF Commit, registry, tokens, locks

LEMMA PublishRotationEffect ==
  ASSUME TypeOK, NEW p \in Procs, PublishRotation(p)
  PROVE  /\ proc[p].pc = "publish"
         /\ created' = [created EXCEPT ![proc[p].gen] = proc[p].new]
         /\ readers' = readers \ {p}
         /\ rotation' = [rotation EXCEPT ![proc[p].gen] = NoProc]
         /\ UNCHANGED <<services, idOf, nextGen, nextToken, token, queue, lastError>>
BY Kinds DEF PublishRotation, registry, tokens, locks

LEMMA AskToRecordEffect ==
  ASSUME TypeOK, NEW p \in Procs, AskToRecord(p)
  PROVE  /\ proc[p].pc = "fail"
         /\ queue' = Ask(p, FALSE)
         /\ UNCHANGED <<services, idOf, nextGen, nextToken, token, created, readers, rotation, lastError>>
BY Kinds DEF AskToRecord, registry, tokens, locks

LEMMA RecordFailureEffect ==
  ASSUME TypeOK, NEW p \in Procs, RecordFailure(p)
  PROVE  /\ proc[p].pc = "record" /\ Served(p, FALSE)
         /\ queue' = Tail(queue)
         /\ \A g \in Generations : lastError'[g] # lastError[g] => lastError'[g] = g
         /\ lastError' \in [Generations -> Generations \cup {None}]
         /\ UNCHANGED <<services, idOf, nextGen, nextToken, token, created, readers, rotation>>
<1>1. lastError' = lastError \/ (p \in Generations /\ lastError' = [lastError EXCEPT ![p] = p])
  <2>1. services[proc[p].id] \in Generations \cup {None}
    BY ProcTypes DEF TypeOK
  <2>2. CASE FailureRecipient(p, services[proc[p].id])
    <3>1. services[proc[p].id] = p
      BY <2>2 DEF FailureRecipient
    <3>2. lastError' = [lastError EXCEPT ![p] = p]
      BY <2>2, <3>1 DEF RecordFailure
    <3>3. p # None
      BY Kinds
    <3> QED BY <2>1, <3>1, <3>2, <3>3
  <2>3. CASE ~FailureRecipient(p, services[proc[p].id])
    BY <2>3 DEF RecordFailure
  <2> QED BY <2>2, <2>3
<1>2. lastError \in [Generations -> Generations \cup {None}]
  BY DEF TypeOK
<1>3. /\ \A g \in Generations : lastError'[g] # lastError[g] => lastError'[g] = g
      /\ lastError' \in [Generations -> Generations \cup {None}]
  BY <1>1, <1>2
<1> QED
  BY <1>3 DEF RecordFailure, registry, tokens, locks

LEMMA AwaitRotationEffect ==
  ASSUME TypeOK, NEW p \in Procs, AwaitRotation(p)
  PROVE  /\ p \in Users \/ p \in Generations
         /\ proc[p].pc = "query" /\ Served(p, FALSE)
         /\ queue' = Tail(queue)
         /\ services[proc[p].id] # None => readers' = readers \cup {p}
         /\ services[proc[p].id] = None => UNCHANGED readers
         /\ UNCHANGED <<services, idOf, nextGen, nextToken, token, created, rotation, lastError>>
BY Kinds DEF AwaitRotation, registry, tokens, locks

LEMMA AnswerEffect ==
  ASSUME TypeOK, NEW p \in Procs, Answer(p)
  PROVE  /\ proc[p].pc = "await" /\ rotation[proc[p].gen] = NoProc
         /\ readers' = readers \ {p}
         /\ UNCHANGED <<services, idOf, nextGen, nextToken, token, created, queue, rotation, lastError>>
BY Kinds DEF Answer, registry, tokens, locks

-----------------------------------------------------------------------------
(* The shapes of step *)

tables == <<idOf, nextGen, lastError>>

\* A step that takes and releases nothing, and publishes nothing.
Quiet(p) ==
  /\ QueueMove(p)
  /\ proc' \in [Procs -> Locals]
  /\ proc[p].pc \notin HoldingPcs \cup {"over"}
  /\ proc'[p].pc \notin HoldingPcs \cup {"start"}
  /\ \A r \in Procs : r # p => proc'[r] = proc[r]
  /\ services' \in [ServiceIds -> Generations \cup {None}]
  /\ \A id \in ServiceIds : services'[id] \in {services[id], None}
  /\ lastError' \in [Generations -> Generations \cup {None}]
  /\ \A g \in Generations : lastError'[g] # lastError[g] => lastError'[g] = g
  /\ UNCHANGED <<idOf, nextGen, nextToken, token, created, readers, rotation>>

\* start_service draws its generation ...
Draws(p) ==
  /\ QueueMove(p) /\ p \in Users
  /\ proc[p].pc = "idle" /\ nextGen \in Generations /\ nextToken <= MaxTokens
  /\ MovedTo(p, "start", idOf[nextGen], nextGen, None)
  /\ nextGen' = nextGen + 1 /\ nextToken' = nextToken + 1
  /\ token' = [token EXCEPT ![nextGen] = nextToken]
  /\ created' = [created EXCEPT ![nextGen] = nextToken]
  /\ UNCHANGED <<services, idOf, readers, rotation, lastError>>

\* ... and publishes it.
Publishes(p) ==
  /\ QueueMove(p) /\ p \in Users
  /\ proc[p].pc = "start" /\ proc[p].gen \in Generations /\ proc[p].gen # p
  /\ proc' \in [Procs -> Locals]
  /\ proc'[p].pc = "idle" /\ proc'[proc[p].gen].pc = "idle"
  /\ \A r \in Procs : r # p /\ r # proc[p].gen => proc'[r] = proc[r]
  /\ services' = [services EXCEPT ![proc[p].id] = proc[p].gen]
  /\ UNCHANGED <<tables, nextToken, token, created, readers, rotation>>

\* A rotation takes the mutex ...
Takes(p) ==
  /\ QueueMove(p) /\ proc[p].pc = "lookup" /\ LookUpFinds(p)
  /\ UNCHANGED <<services, tables, token, created, readers>>

\* ... asks for the registry ...
Asks(p) ==
  /\ QueueMove(p) /\ proc[p].pc = "rotating"
  /\ MovedTo(p, "commit", proc[p].id, proc[p].gen, proc[p].new)
  /\ UNCHANGED <<services, tables, nextToken, token, created, readers, rotation>>

\* ... writes the token ...
Writes(p) ==
  /\ QueueMove(p) /\ proc[p].pc = "commit" /\ StillRegistered(p)
  /\ MovedTo(p, "publish", proc[p].id, proc[p].gen, proc[p].new)
  /\ token' = [token EXCEPT ![proc[p].gen] = proc[p].new]
  /\ readers' = readers \cup {p}
  /\ UNCHANGED <<services, tables, nextToken, created, rotation>>

\* ... or finds its service gone ...
Abandons(p) ==
  /\ QueueMove(p) /\ proc[p].pc = "commit"
  /\ MovedTo(p, Rest(p), proc[p].id, None, None)
  /\ rotation' = [rotation EXCEPT ![proc[p].gen] = NoProc]
  /\ UNCHANGED <<services, tables, nextToken, token, created, readers>>

\* ... and dates the token.
Dates(p) ==
  /\ QueueMove(p) /\ proc[p].pc = "publish"
  /\ MovedTo(p, "idle", proc[p].id, None, None)
  /\ created' = [created EXCEPT ![proc[p].gen] = proc[p].new]
  /\ readers' = readers \ {p}
  /\ rotation' = [rotation EXCEPT ![proc[p].gen] = NoProc]
  /\ UNCHANGED <<services, tables, nextToken, token>>

\* A query keeps the registry ...
Keeps(p) ==
  /\ QueueMove(p) /\ proc[p].pc = "query"
  /\ services[proc[p].id] \in Generations
  /\ MovedTo(p, "await", proc[p].id, services[proc[p].id], proc[p].new)
  /\ readers' = readers \cup {p}
  /\ UNCHANGED <<services, tables, nextToken, token, created, rotation>>

\* ... until no rotation runs.
Reads(p) ==
  /\ QueueMove(p) /\ proc[p].pc = "await" /\ rotation[proc[p].gen] = NoProc
  /\ MovedTo(p, "idle", proc[p].id, None, None)
  /\ readers' = readers \ {p}
  /\ UNCHANGED <<services, tables, nextToken, token, created, rotation>>

Shaped(p) ==
  \/ Quiet(p) \/ Draws(p) \/ Publishes(p) \/ Takes(p) \/ Asks(p) \/ Writes(p)
  \/ Abandons(p) \/ Dates(p) \/ Keeps(p) \/ Reads(p)

\* Every step has one of these shapes.
LEMMA Shapes ==
  ASSUME TypeOK, Starting, [Next]_vars
  PROVE  UNCHANGED vars \/ \E p \in Procs : Shaped(p)
<1>1. ASSUME NEW p \in Users, BeginStart(p) PROVE Shaped(p)
  <2>1. p \in Procs
    BY Kinds
  <2>2. QueueMove(p)
    BY <1>1, BeginStartEffect, BeginStartMoves DEF QueueMove, MovedTo, AskingPcs, WritingPcs
  <2> QED
    BY <1>1, BeginStartEffect, BeginStartMoves, <2>2 DEF Draws, tables, Shaped
<1>2. ASSUME NEW p \in Users, BeginClose(p) PROVE Shaped(p)
  <2>1. p \in Procs
    BY Kinds
  <2>2. QueueMove(p)
    BY <1>2, BeginCloseEffect, BeginCloseMoves DEF QueueMove, MovedTo, AskingPcs, WritingPcs
  <2> QED
    BY <1>2, BeginCloseEffect, BeginCloseMoves, <2>2 DEF Quiet, MovedTo, HoldingPcs, RotatingPcs, TypeOK, Shaped
<1>3. ASSUME NEW p \in Users, NEW id \in ServiceIds, BeginStop(p, id) PROVE Shaped(p)
  <2>1. p \in Procs
    BY Kinds
  <2>2. QueueMove(p)
    BY <1>3, BeginStopEffect, BeginStopMoves DEF QueueMove, MovedTo, AskingPcs, WritingPcs
  <2> QED
    BY <1>3, BeginStopEffect, BeginStopMoves, <2>2 DEF Quiet, MovedTo, HoldingPcs, RotatingPcs, TypeOK, Shaped
<1>4. ASSUME NEW p \in Users, NEW id \in ServiceIds, BeginQuery(p, id) PROVE Shaped(p)
  <2>1. p \in Procs
    BY Kinds
  <2>2. QueueMove(p)
    BY <1>4, BeginQueryEffect, BeginQueryMoves DEF QueueMove, MovedTo, AskingPcs, WritingPcs
  <2> QED
    BY <1>4, BeginQueryEffect, BeginQueryMoves, <2>2 DEF Quiet, MovedTo, HoldingPcs, RotatingPcs, TypeOK, Shaped
<1>5. ASSUME NEW p \in Procs, NEW id \in ServiceIds, BeginRotate(p, id) PROVE Shaped(p)
  <2>1. p \in Procs
    BY Kinds
  <2>2. QueueMove(p)
    BY <1>5, BeginRotateEffect, BeginRotateMoves DEF QueueMove, MovedTo, AskingPcs, WritingPcs
  <2> QED
    BY <1>5, BeginRotateEffect, BeginRotateMoves, <2>2 DEF Quiet, MovedTo, HoldingPcs, RotatingPcs, TypeOK, Shaped
<1>6. ASSUME NEW p \in Procs, EndStart(p) PROVE Shaped(p)
  <2>1. p \in Procs
    BY Kinds
  <2>2. proc[p].gen \in Generations /\ proc[p].gen # p
    BY <1>6, EndStartEffect, Kinds DEF Starting
  <2>3. QueueMove(p)
    BY <1>6, <2>2, EndStartEffect, EndStartMoves DEF QueueMove, MovedTo, AskingPcs, WritingPcs
  <2>4. CASE services[proc[p].id] = None
    BY <1>6, EndStartEffect, EndStartMoves, <2>2, <2>3, <2>4 DEF Publishes, tables, Shaped
  <2>5. CASE services[proc[p].id] # None
    <3>1. MovedTo(p, "idle", proc[p].id, None, None)
      BY <1>6, <2>2, <2>5, EndStartMoves
    <3> QED
      BY <1>6, EndStartEffect, <2>3, <2>5, <3>1 DEF Quiet, MovedTo, HoldingPcs, RotatingPcs, TypeOK, Shaped
  <2> QED BY <2>4, <2>5
<1>7. ASSUME NEW p \in Procs, EndStop(p) PROVE Shaped(p)
  <2>1. p \in Procs
    BY Kinds
  <2>2. QueueMove(p)
    BY <1>7, EndStopEffect, EndStopMoves DEF QueueMove, MovedTo, AskingPcs, WritingPcs
  <2>3. /\ services' \in [ServiceIds -> Generations \cup {None}]
        /\ \A id \in ServiceIds : services'[id] \in {services[id], None}
    BY <1>7, EndStopEffect DEF TypeOK
  <2> QED
    BY <1>7, EndStopEffect, EndStopMoves, <2>2, <2>3 DEF Quiet, MovedTo, HoldingPcs, RotatingPcs, TypeOK, Shaped
<1>8. ASSUME NEW p \in Procs, EndClose(p) PROVE Shaped(p)
  <2>1. p \in Procs
    BY Kinds
  <2>2. QueueMove(p)
    BY <1>8, EndCloseEffect, EndCloseMoves DEF QueueMove, MovedTo, AskingPcs, WritingPcs
  <2>3. /\ services' \in [ServiceIds -> Generations \cup {None}]
        /\ \A id \in ServiceIds : services'[id] \in {services[id], None}
    BY <1>8, EndCloseEffect DEF TypeOK
  <2> QED
    BY <1>8, EndCloseEffect, EndCloseMoves, <2>2, <2>3 DEF Quiet, MovedTo, HoldingPcs, RotatingPcs, TypeOK, Shaped
<1>9. ASSUME NEW p \in Procs, LookUp(p) PROVE Shaped(p)
  <2>1. p \in Procs
    BY Kinds
  <2>2. QueueMove(p)
    BY <1>9, LookUpEffect, LookUpMoves
    DEF QueueMove, LookUpFinds, LookUpFails, MovedTo, AskingPcs, WritingPcs
  <2>3. CASE LookUpFinds(p)
    BY <1>9, LookUpEffect, <2>2, <2>3 DEF Takes, tables, Shaped
  <2>4. CASE LookUpFails(p)
    BY <1>9, LookUpEffect, <2>2, <2>4 DEF LookUpFails, Quiet, MovedTo, HoldingPcs, RotatingPcs, TypeOK, Shaped
  <2> QED BY <1>9, <2>1, <2>3, <2>4, LookUpMoves
<1>10. ASSUME NEW p \in Procs, AskToCommit(p) PROVE Shaped(p)
  <2>1. p \in Procs
    BY Kinds
  <2>2. QueueMove(p)
    BY <1>10, AskToCommitEffect, AskToCommitMoves DEF QueueMove, MovedTo, AskingPcs, WritingPcs
  <2> QED
    BY <1>10, AskToCommitEffect, AskToCommitMoves, <2>2 DEF Asks, tables, Shaped
<1>11. ASSUME NEW p \in Procs, Commit(p) PROVE Shaped(p)
  <2>1. p \in Procs
    BY Kinds
  <2>2. QueueMove(p)
    BY <1>11, CommitEffect, CommitMoves DEF QueueMove, MovedTo, Rest, AskingPcs, WritingPcs
  <2>3. CASE StillRegistered(p)
    BY <1>11, CommitEffect, CommitMoves, <2>2, <2>3 DEF Writes, tables, Shaped
  <2>4. CASE ~StillRegistered(p)
    BY <1>11, CommitEffect, CommitMoves, <2>2, <2>4 DEF Abandons, tables, Shaped
  <2> QED BY <2>3, <2>4
<1>12. ASSUME NEW p \in Procs, PublishRotation(p) PROVE Shaped(p)
  <2>1. p \in Procs
    BY Kinds
  <2>2. QueueMove(p)
    BY <1>12, PublishRotationEffect, PublishRotationMoves DEF QueueMove, MovedTo, AskingPcs, WritingPcs
  <2> QED
    BY <1>12, PublishRotationEffect, PublishRotationMoves, <2>2 DEF Dates, tables, Shaped
<1>13. ASSUME NEW p \in Procs, AskToRecord(p) PROVE Shaped(p)
  <2>1. p \in Procs
    BY Kinds
  <2>2. QueueMove(p)
    BY <1>13, AskToRecordEffect, AskToRecordMoves DEF QueueMove, MovedTo, AskingPcs, WritingPcs
  <2> QED
    BY <1>13, AskToRecordEffect, AskToRecordMoves, <2>2 DEF Quiet, MovedTo, HoldingPcs, RotatingPcs, TypeOK, Shaped
<1>14. ASSUME NEW p \in Procs, RecordFailure(p) PROVE Shaped(p)
  <2>1. p \in Procs
    BY Kinds
  <2>2. QueueMove(p)
    BY <1>14, RecordFailureEffect, RecordFailureMoves DEF QueueMove, MovedTo, AskingPcs, WritingPcs
  <2> QED
    BY <1>14, RecordFailureEffect, RecordFailureMoves, <2>2 DEF Quiet, MovedTo, HoldingPcs, RotatingPcs, TypeOK, Shaped
<1>15. ASSUME NEW p \in Procs, AwaitRotation(p) PROVE Shaped(p)
  <2>1. p \in Procs
    BY Kinds
  <2>2. QueueMove(p)
    BY <1>15, AwaitRotationEffect, AwaitRotationMoves
    DEF QueueMove, MovedTo, AskingPcs, WritingPcs
  <2>3. CASE services[proc[p].id] # None
    BY <1>15, AwaitRotationEffect, AwaitRotationMoves, <2>1, <2>2, <2>3, ProcTypes DEF Keeps, tables, Shaped, TypeOK
  <2>4. CASE services[proc[p].id] = None
    <3>1. MovedTo(p, "idle", proc[p].id, None, None)
      BY <1>15, <2>4, AwaitRotationMoves
    <3> QED
      BY <1>15, AwaitRotationEffect, <2>2, <2>4, <3>1 DEF Quiet, MovedTo, HoldingPcs, RotatingPcs, TypeOK, Shaped
  <2> QED BY <2>3, <2>4
<1>16. ASSUME NEW p \in Procs, Answer(p) PROVE Shaped(p)
  <2>1. p \in Procs
    BY Kinds
  <2>2. QueueMove(p)
    BY <1>16, AnswerEffect, AnswerMoves DEF QueueMove, MovedTo, AskingPcs, WritingPcs
  <2> QED
    BY <1>16, AnswerEffect, AnswerMoves, <2>2 DEF Reads, tables, Shaped
<1>a. \A g \in Generations : g \in Procs /\ idOf[g] \in ServiceIds
  BY Kinds DEF TypeOK
<1>b. \A u \in Users : u \in Procs
  BY Kinds
<1> QED
  BY <1>a, <1>b, <1>1, <1>2, <1>3, <1>4, <1>5, <1>6, <1>7, <1>8, <1>9, <1>10, <1>11, <1>12, <1>13, <1>14, <1>15, <1>16
  DEF Next, Calls, Continue

\* The types that do not concern the queue.
LEMMA Types ==
  ASSUME TypeOK
  PROVE  /\ proc \in [Procs -> Locals]
         /\ services \in [ServiceIds -> Generations \cup {None}]
         /\ idOf \in [Generations -> ServiceIds]
         /\ nextGen \in Nat /\ nextToken \in Nat
         /\ token \in [Generations -> 0 .. MaxTokens]
         /\ created \in [Generations -> 0 .. MaxTokens]
         /\ readers \subseteq Procs
         /\ rotation \in [Generations -> Procs \cup {NoProc}]
         /\ lastError \in [Generations -> Generations \cup {None}]
         /\ \A g \in Generations : g \in Procs
BY Kinds DEF TypeOK

\* A process that asks is not in the queue yet.
LEMMA TypeStep ==
  ASSUME IInv, NEW p \in Procs, Shaped(p)
  PROVE  TypeOK' /\ Queued' /\ AsksOnce' /\ AsksRightly'
<1>0. TypeOK /\ Queued /\ AsksOnce /\ AsksRightly /\ Starting /\ Rotating
  BY DEF IInv, Drawn
<1>1. \A r \in Procs \ {p} :
        proc[r].pc \in AskingPcs \/ proc'[r].pc \in AskingPcs => proc'[r] = proc[r]
  <2>1. CASE Publishes(p)
    <3>1. proc[proc[p].gen].pc = "over"
      BY <1>0, <2>1 DEF Publishes, Starting
    <3> QED BY <2>1, <3>1 DEF Publishes, AskingPcs, WritingPcs
  <2>2. CASE ~Publishes(p)
    <3>1. \A r \in Procs : r # p => proc'[r] = proc[r]
      BY <2>2 DEF Shaped, Quiet, Draws, Takes, Asks, Writes, Abandons, Dates, Keeps, Reads,
                  LookUpFinds, MovedTo
    <3> QED BY <3>1
  <2> QED BY <2>1, <2>2
<1>2. QueueMove(p)
  BY DEF Shaped, Quiet, Draws, Publishes, Takes, Asks, Writes, Abandons, Dates, Keeps, Reads
<1>3. /\ queue' \in Seq(Requests)
      /\ \A i, j \in DOMAIN queue' : queue'[i].proc = queue'[j].proc => i = j
      /\ Queued' /\ AsksOnce' /\ AsksRightly'
  BY <1>0, <1>1, <1>2, QueueStep DEF QueueKept
<1>4. proc' \in [Procs -> Locals] /\ idOf' \in [Generations -> ServiceIds]
  BY <1>0, Types DEF Shaped, Quiet, Draws, Publishes, Takes, Asks, Writes, Abandons, Dates, Keeps,
     Reads, LookUpFinds, MovedTo, tables
<1>5. services' \in [ServiceIds -> Generations \cup {None}]
  BY <1>0, Types DEF Shaped, Quiet, Draws, Publishes, Takes, Asks, Writes, Abandons, Dates, Keeps,
     Reads
<1>6. nextGen' \in 1 .. MaxStarts + 1
  <2>1. nextGen \in 1 .. MaxStarts + 1
    BY <1>0 DEF TypeOK
  <2>2. CASE Draws(p)
    <3>1. nextGen \in 1 .. MaxStarts /\ nextGen' = nextGen + 1
      BY <2>2 DEF Draws, Generations
    <3> QED BY <3>1, BoundsAssumption
  <2>3. CASE ~Draws(p)
    BY <2>1, <2>3 DEF Shaped, Quiet, Publishes, Takes, Asks, Writes, Abandons, Dates, Keeps, Reads,
       tables
  <2> QED BY <2>2, <2>3
<1>7. nextToken' \in 1 .. MaxTokens + 1 /\ nextToken \in 1 .. MaxTokens + 1
  <2>1. nextToken \in 1 .. MaxTokens + 1
    BY <1>0 DEF TypeOK
  <2>2. nextToken' = nextToken \/ (nextToken <= MaxTokens /\ nextToken' = nextToken + 1)
    BY DEF Shaped, Quiet, Draws, Publishes, Takes, Asks, Writes, Abandons, Dates, Keeps, Reads,
       LookUpFinds
  <2> QED BY <2>1, <2>2, BoundsAssumption
<1>8. token' \in [Generations -> 0 .. MaxTokens] /\ created' \in [Generations -> 0 .. MaxTokens]
  <2>1. CASE Draws(p)
    <3>1. nextToken \in 0 .. MaxTokens
      BY <1>7, <2>1, BoundsAssumption DEF Draws
    <3> QED BY <1>0, <2>1, <3>1, Types DEF Draws
  <2>2. CASE ~Draws(p)
    BY <1>0, <2>2, Types, ProcTypes DEF Shaped, Quiet, Publishes, Takes, Asks, Writes, Abandons,
       Dates, Keeps, Reads
  <2> QED BY <2>1, <2>2
<1>9. readers' \subseteq Procs /\ rotation' \in [Generations -> Procs \cup {NoProc}]
  BY <1>0, Types DEF Shaped, Quiet, Draws, Publishes, Takes, Asks, Writes, Abandons, Dates, Keeps,
     Reads, LookUpFinds
<1>10. lastError' \in [Generations -> Generations \cup {None}]
  BY <1>0, Types DEF Shaped, Quiet, Draws, Publishes, Takes, Asks, Writes, Abandons, Dates, Keeps,
     Reads, tables
<1> QED
  BY <1>3, <1>4, <1>5, <1>6, <1>7, <1>8, <1>9, <1>10 DEF TypeOK

-----------------------------------------------------------------------------
(* Each part of the invariant is preserved *)

\* A generation is drawn once.
LEMMA UndrawnStep ==
  ASSUME IInv, NEW p \in Procs, Shaped(p)
  PROVE  Undrawn'
<1>0. TypeOK /\ Undrawn /\ Starting /\ Rotating
  BY DEF IInv, Drawn, Locked
<1>1. CASE Quiet(p)
  BY <1>0, <1>1, Kinds, Types, ProcTypes DEF Quiet, Undrawn, Starting, Rotating
<1>2. CASE Draws(p)
  BY <1>0, <1>2, Kinds, Types, ProcTypes DEF Draws, Undrawn, Starting, Rotating, MovedTo
<1>3. CASE Publishes(p)
  BY <1>0, <1>3, Kinds, Types, ProcTypes DEF Publishes, Undrawn, Starting, Rotating, tables
<1>4. CASE Takes(p)
  BY <1>0, <1>4, Kinds, Types, ProcTypes DEF Takes, Undrawn, Starting, Rotating, MovedTo, LookUpFinds, tables
<1>5. CASE Asks(p)
  BY <1>0, <1>5, Kinds, Types, ProcTypes DEF Asks, Undrawn, Starting, Rotating, MovedTo, tables
<1>6. CASE Writes(p)
  <2>1. proc[p].gen \in Generations /\ proc[p].gen < nextGen
    BY <1>0, <1>6 DEF Writes, Rotating, RotatingPcs
  <2>2. \A g \in Generations : g >= nextGen => g # proc[p].gen /\ g # p
    BY <1>0, <1>6, <2>1, Kinds, Types DEF Writes, Undrawn
  <2> QED
    BY <1>0, <1>6, <2>1, <2>2, Kinds, Types DEF Writes, Undrawn, MovedTo, tables
<1>7. CASE Abandons(p)
  BY <1>0, <1>7, Kinds, Types, ProcTypes DEF Abandons, Undrawn, Starting, Rotating, MovedTo, tables, Rest
<1>8. CASE Dates(p)
  <2>1. proc[p].gen \in Generations /\ proc[p].gen < nextGen
    BY <1>0, <1>8 DEF Dates, Rotating, RotatingPcs
  <2>2. \A g \in Generations : g >= nextGen => g # proc[p].gen /\ g # p
    BY <1>0, <1>8, <2>1, Kinds, Types DEF Dates, Undrawn
  <2> QED
    BY <1>0, <1>8, <2>1, <2>2, Kinds, Types DEF Dates, Undrawn, MovedTo, tables
<1>9. CASE Keeps(p)
  BY <1>0, <1>9, Kinds, Types, ProcTypes DEF Keeps, Undrawn, Starting, Rotating, MovedTo, tables
<1>10. CASE Reads(p)
  BY <1>0, <1>10, Kinds, Types, ProcTypes DEF Reads, Undrawn, Starting, Rotating, MovedTo, tables
<1> QED BY <1>1, <1>2, <1>3, <1>4, <1>5, <1>6, <1>7, <1>8, <1>9, <1>10 DEF Shaped

\* A service is published under the id it was drawn for.
LEMMA PublishedStep ==
  ASSUME IInv, NEW p \in Procs, Shaped(p)
  PROVE  Published'
<1>0. TypeOK /\ Published /\ Starting
  BY DEF IInv, Drawn, Locked
<1>1. CASE Quiet(p)
  BY <1>0, <1>1, Kinds, Types, ProcTypes DEF Quiet, Published, Starting
<1>2. CASE Draws(p)
  BY <1>0, <1>2, Kinds, Types, ProcTypes DEF Draws, Published, Starting, MovedTo
<1>3. CASE Publishes(p)
  BY <1>0, <1>3, Kinds, Types, ProcTypes DEF Publishes, Published, Starting, tables
<1>4. CASE Takes(p)
  BY <1>0, <1>4, Kinds, Types, ProcTypes DEF Takes, Published, Starting, MovedTo, LookUpFinds, tables
<1>5. CASE Asks(p)
  BY <1>0, <1>5, Kinds, Types, ProcTypes DEF Asks, Published, Starting, MovedTo, tables
<1>6. CASE Writes(p)
  BY <1>0, <1>6, Kinds, Types, ProcTypes DEF Writes, Published, Starting, MovedTo, tables
<1>7. CASE Abandons(p)
  BY <1>0, <1>7, Kinds, Types, ProcTypes DEF Abandons, Published, Starting, MovedTo, tables, Rest
<1>8. CASE Dates(p)
  BY <1>0, <1>8, Kinds, Types, ProcTypes DEF Dates, Published, Starting, MovedTo, tables
<1>9. CASE Keeps(p)
  BY <1>0, <1>9, Kinds, Types, ProcTypes DEF Keeps, Published, Starting, MovedTo, tables
<1>10. CASE Reads(p)
  BY <1>0, <1>10, Kinds, Types, ProcTypes DEF Reads, Published, Starting, MovedTo, tables
<1> QED BY <1>1, <1>2, <1>3, <1>4, <1>5, <1>6, <1>7, <1>8, <1>9, <1>10 DEF Shaped

\* A drawn generation belongs to its start until it is published.
LEMMA StartingStep ==
  ASSUME IInv, NEW p \in Procs, Shaped(p)
  PROVE  Starting'
<1>0. TypeOK /\ Undrawn /\ Starting /\ Apart
  BY DEF IInv, Drawn, Locked
<1>1. CASE Quiet(p)
  <2>1. \A u \in Users : proc'[u].pc = "start" => proc'[u] = proc[u]
    BY <1>1, Kinds DEF Quiet
  <2>2. \A g \in Generations : proc[g].pc = "over" => proc'[g] = proc[g]
    BY <1>1, Kinds DEF Quiet
  <2>3. UNCHANGED <<nextGen, idOf>>
    BY <1>1 DEF Quiet
  <2> QED
    BY <1>0, <2>1, <2>2, <2>3, Kinds DEF Starting
<1>2. CASE Draws(p)
  BY <1>0, <1>2, Kinds, Types, ProcTypes DEF Draws, Starting, Undrawn, Apart, MovedTo, HoldingPcs, RotatingPcs
<1>3. CASE Publishes(p)
  BY <1>0, <1>3, Kinds, Types, ProcTypes DEF Publishes, Starting, Undrawn, Apart, tables, HoldingPcs, RotatingPcs
<1>4. CASE Takes(p)
  <2>1. \A u \in Users : proc'[u].pc = "start" => proc'[u] = proc[u]
    BY <1>4, Kinds DEF Takes, LookUpFinds, MovedTo
  <2>2. \A g \in Generations : proc[g].pc = "over" => proc'[g] = proc[g]
    BY <1>4, Kinds DEF Takes, LookUpFinds, MovedTo
  <2>3. UNCHANGED <<nextGen, idOf>>
    BY <1>4 DEF Takes, tables
  <2> QED
    BY <1>0, <2>1, <2>2, <2>3, Kinds DEF Starting
<1>5. CASE Asks(p)
  <2>1. \A u \in Users : proc'[u].pc = "start" => proc'[u] = proc[u]
    BY <1>5, Kinds DEF Asks, MovedTo
  <2>2. \A g \in Generations : proc[g].pc = "over" => proc'[g] = proc[g]
    BY <1>5, Kinds DEF Asks, MovedTo
  <2>3. UNCHANGED <<nextGen, idOf>>
    BY <1>5 DEF Asks, tables
  <2> QED
    BY <1>0, <2>1, <2>2, <2>3, Kinds DEF Starting
<1>6. CASE Writes(p)
  <2>1. \A u \in Users : proc'[u].pc = "start" => proc'[u] = proc[u]
    BY <1>6, Kinds DEF Writes, MovedTo
  <2>2. \A g \in Generations : proc[g].pc = "over" => proc'[g] = proc[g]
    BY <1>6, Kinds DEF Writes, MovedTo
  <2>3. UNCHANGED <<nextGen, idOf>>
    BY <1>6 DEF Writes, tables
  <2> QED
    BY <1>0, <2>1, <2>2, <2>3, Kinds DEF Starting
<1>7. CASE Abandons(p)
  <2>1. \A u \in Users : proc'[u].pc = "start" => proc'[u] = proc[u]
    BY <1>7, Kinds DEF Abandons, MovedTo, Rest
  <2>2. \A g \in Generations : proc[g].pc = "over" => proc'[g] = proc[g]
    BY <1>7, Kinds DEF Abandons, MovedTo, Rest
  <2>3. UNCHANGED <<nextGen, idOf>>
    BY <1>7 DEF Abandons, tables
  <2> QED
    BY <1>0, <2>1, <2>2, <2>3, Kinds DEF Starting
<1>8. CASE Dates(p)
  <2>1. \A u \in Users : proc'[u].pc = "start" => proc'[u] = proc[u]
    BY <1>8, Kinds DEF Dates, MovedTo
  <2>2. \A g \in Generations : proc[g].pc = "over" => proc'[g] = proc[g]
    BY <1>8, Kinds DEF Dates, MovedTo
  <2>3. UNCHANGED <<nextGen, idOf>>
    BY <1>8 DEF Dates, tables
  <2> QED
    BY <1>0, <2>1, <2>2, <2>3, Kinds DEF Starting
<1>9. CASE Keeps(p)
  <2>1. \A u \in Users : proc'[u].pc = "start" => proc'[u] = proc[u]
    BY <1>9, Kinds DEF Keeps, MovedTo
  <2>2. \A g \in Generations : proc[g].pc = "over" => proc'[g] = proc[g]
    BY <1>9, Kinds DEF Keeps, MovedTo
  <2>3. UNCHANGED <<nextGen, idOf>>
    BY <1>9 DEF Keeps, tables
  <2> QED
    BY <1>0, <2>1, <2>2, <2>3, Kinds DEF Starting
<1>10. CASE Reads(p)
  <2>1. \A u \in Users : proc'[u].pc = "start" => proc'[u] = proc[u]
    BY <1>10, Kinds DEF Reads, MovedTo
  <2>2. \A g \in Generations : proc[g].pc = "over" => proc'[g] = proc[g]
    BY <1>10, Kinds DEF Reads, MovedTo
  <2>3. UNCHANGED <<nextGen, idOf>>
    BY <1>10 DEF Reads, tables
  <2> QED
    BY <1>0, <2>1, <2>2, <2>3, Kinds DEF Starting
<1> QED BY <1>1, <1>2, <1>3, <1>4, <1>5, <1>6, <1>7, <1>8, <1>9, <1>10 DEF Shaped

\* No generation is drawn twice.
LEMMA ApartStep ==
  ASSUME IInv, NEW p \in Procs, Shaped(p)
  PROVE  Apart'
<1>0. TypeOK /\ Starting /\ Apart
  BY DEF IInv, Drawn, Locked
<1>1. CASE Quiet(p)
  BY <1>0, <1>1, Kinds, Types, ProcTypes DEF Quiet, Apart, Starting, HoldingPcs, RotatingPcs
<1>2. CASE Draws(p)
  BY <1>0, <1>2, Kinds, Types, ProcTypes DEF Draws, Apart, Starting, MovedTo, HoldingPcs, RotatingPcs
<1>3. CASE Publishes(p)
  BY <1>0, <1>3, Kinds, Types, ProcTypes DEF Publishes, Apart, Starting, tables, HoldingPcs, RotatingPcs
<1>4. CASE Takes(p)
  BY <1>0, <1>4, Kinds, Types, ProcTypes DEF Takes, Apart, Starting, MovedTo, LookUpFinds, tables, HoldingPcs, RotatingPcs
<1>5. CASE Asks(p)
  BY <1>0, <1>5, Kinds, Types, ProcTypes DEF Asks, Apart, Starting, MovedTo, tables, HoldingPcs, RotatingPcs
<1>6. CASE Writes(p)
  BY <1>0, <1>6, Kinds, Types, ProcTypes DEF Writes, Apart, Starting, MovedTo, tables, HoldingPcs, RotatingPcs
<1>7. CASE Abandons(p)
  BY <1>0, <1>7, Kinds, Types, ProcTypes DEF Abandons, Apart, Starting, MovedTo, tables, HoldingPcs, RotatingPcs, Rest
<1>8. CASE Dates(p)
  BY <1>0, <1>8, Kinds, Types, ProcTypes DEF Dates, Apart, Starting, MovedTo, tables, HoldingPcs, RotatingPcs
<1>9. CASE Keeps(p)
  BY <1>0, <1>9, Kinds, Types, ProcTypes DEF Keeps, Apart, Starting, MovedTo, tables, HoldingPcs, RotatingPcs
<1>10. CASE Reads(p)
  BY <1>0, <1>10, Kinds, Types, ProcTypes DEF Reads, Apart, Starting, MovedTo, tables, HoldingPcs, RotatingPcs
<1> QED BY <1>1, <1>2, <1>3, <1>4, <1>5, <1>6, <1>7, <1>8, <1>9, <1>10 DEF Shaped

\* A rotation holds what its look-up found.
LEMMA RotatingStep ==
  ASSUME IInv, NEW p \in Procs, Shaped(p)
  PROVE  Rotating'
<1>0. TypeOK /\ Published /\ Starting /\ Rotating
  BY DEF IInv, Drawn, Locked
<1>1. CASE Quiet(p)
  BY <1>0, <1>1, Kinds, Types, ProcTypes DEF Quiet, Rotating, Published, Starting, ExpectedGeneration, HoldingPcs, RotatingPcs
<1>2. CASE Draws(p)
  BY <1>0, <1>2, Kinds, Types, ProcTypes DEF Draws, Rotating, Published, Starting, ExpectedGeneration, MovedTo, HoldingPcs, RotatingPcs
<1>3. CASE Publishes(p)
  BY <1>0, <1>3, Kinds, Types, ProcTypes DEF Publishes, Rotating, Published, Starting, ExpectedGeneration, tables, HoldingPcs, RotatingPcs
<1>4. CASE Takes(p)
  BY <1>0, <1>4, Kinds, Types, ProcTypes DEF Takes, Rotating, Published, Starting, ExpectedGeneration, MovedTo, LookUpFinds, tables, HoldingPcs, RotatingPcs
<1>5. CASE Asks(p)
  BY <1>0, <1>5, Kinds, Types, ProcTypes DEF Asks, Rotating, Published, Starting, ExpectedGeneration, MovedTo, tables, HoldingPcs, RotatingPcs
<1>6. CASE Writes(p)
  BY <1>0, <1>6, Kinds, Types, ProcTypes DEF Writes, Rotating, Published, Starting, ExpectedGeneration, MovedTo, tables, HoldingPcs, RotatingPcs
<1>7. CASE Abandons(p)
  BY <1>0, <1>7, Kinds, Types, ProcTypes DEF Abandons, Rotating, Published, Starting, ExpectedGeneration, MovedTo, tables, HoldingPcs, RotatingPcs, Rest
<1>8. CASE Dates(p)
  BY <1>0, <1>8, Kinds, Types, ProcTypes DEF Dates, Rotating, Published, Starting, ExpectedGeneration, MovedTo, tables, HoldingPcs, RotatingPcs
<1>9. CASE Keeps(p)
  BY <1>0, <1>9, Kinds, Types, ProcTypes DEF Keeps, Rotating, Published, Starting, ExpectedGeneration, MovedTo, tables, HoldingPcs, RotatingPcs
<1>10. CASE Reads(p)
  BY <1>0, <1>10, Kinds, Types, ProcTypes DEF Reads, Rotating, Published, Starting, ExpectedGeneration, MovedTo, tables, HoldingPcs, RotatingPcs
<1> QED BY <1>1, <1>2, <1>3, <1>4, <1>5, <1>6, <1>7, <1>8, <1>9, <1>10 DEF Shaped

\* A query waits for the rotation of a service it has found.
LEMMA AwaitingStep ==
  ASSUME IInv, NEW p \in Procs, Shaped(p)
  PROVE  Awaiting'
<1>0. TypeOK /\ Awaiting
  BY DEF IInv, Drawn, Locked
<1>1. CASE Quiet(p)
  BY <1>0, <1>1, Kinds, Types, ProcTypes DEF Quiet, Awaiting, HoldingPcs, RotatingPcs
<1>2. CASE Draws(p)
  BY <1>0, <1>2, Kinds, Types, ProcTypes DEF Draws, Awaiting, MovedTo, HoldingPcs, RotatingPcs
<1>3. CASE Publishes(p)
  BY <1>0, <1>3, Kinds, Types, ProcTypes DEF Publishes, Awaiting, tables, HoldingPcs, RotatingPcs
<1>4. CASE Takes(p)
  BY <1>0, <1>4, Kinds, Types, ProcTypes DEF Takes, Awaiting, MovedTo, LookUpFinds, tables, HoldingPcs, RotatingPcs
<1>5. CASE Asks(p)
  BY <1>0, <1>5, Kinds, Types, ProcTypes DEF Asks, Awaiting, MovedTo, tables, HoldingPcs, RotatingPcs
<1>6. CASE Writes(p)
  BY <1>0, <1>6, Kinds, Types, ProcTypes DEF Writes, Awaiting, MovedTo, tables, HoldingPcs, RotatingPcs
<1>7. CASE Abandons(p)
  BY <1>0, <1>7, Kinds, Types, ProcTypes DEF Abandons, Awaiting, MovedTo, tables, HoldingPcs, RotatingPcs, Rest
<1>8. CASE Dates(p)
  BY <1>0, <1>8, Kinds, Types, ProcTypes DEF Dates, Awaiting, MovedTo, tables, HoldingPcs, RotatingPcs
<1>9. CASE Keeps(p)
  BY <1>0, <1>9, Kinds, Types, ProcTypes DEF Keeps, Awaiting, MovedTo, tables, HoldingPcs, RotatingPcs
<1>10. CASE Reads(p)
  BY <1>0, <1>10, Kinds, Types, ProcTypes DEF Reads, Awaiting, MovedTo, tables, HoldingPcs, RotatingPcs
<1> QED BY <1>1, <1>2, <1>3, <1>4, <1>5, <1>6, <1>7, <1>8, <1>9, <1>10 DEF Shaped

\* Every way out of a rotation releases the mutex.
LEMMA MutexHeldStep ==
  ASSUME IInv, NEW p \in Procs, Shaped(p)
  PROVE  MutexHeld'
<1>0. TypeOK /\ Starting /\ Rotating /\ MutexHeld /\ MutexOwned
  BY DEF IInv, Drawn, Locked
<1>1. CASE Quiet(p)
  BY <1>0, <1>1, Kinds, Types, ProcTypes DEF Quiet, MutexHeld, MutexOwned, Rotating, Starting, HoldingPcs, RotatingPcs
<1>2. CASE Draws(p)
  BY <1>0, <1>2, Kinds, Types, ProcTypes DEF Draws, MutexHeld, MutexOwned, Rotating, Starting, MovedTo, HoldingPcs, RotatingPcs
<1>3. CASE Publishes(p)
  BY <1>0, <1>3, Kinds, Types, ProcTypes DEF Publishes, MutexHeld, MutexOwned, Rotating, Starting, tables, HoldingPcs, RotatingPcs
<1>4. CASE Takes(p)
  BY <1>0, <1>4, Kinds, Types, ProcTypes DEF Takes, MutexHeld, MutexOwned, Rotating, Starting, MovedTo, LookUpFinds, tables, HoldingPcs, RotatingPcs
<1>5. CASE Asks(p)
  BY <1>0, <1>5, Kinds, Types, ProcTypes DEF Asks, MutexHeld, MutexOwned, Rotating, Starting, MovedTo, tables, HoldingPcs, RotatingPcs
<1>6. CASE Writes(p)
  BY <1>0, <1>6, Kinds, Types, ProcTypes DEF Writes, MutexHeld, MutexOwned, Rotating, Starting, MovedTo, tables, HoldingPcs, RotatingPcs
<1>7. CASE Abandons(p)
  BY <1>0, <1>7, Kinds, Types, ProcTypes DEF Abandons, MutexHeld, MutexOwned, Rotating, Starting, MovedTo, tables, HoldingPcs, RotatingPcs, Rest
<1>8. CASE Dates(p)
  BY <1>0, <1>8, Kinds, Types, ProcTypes DEF Dates, MutexHeld, MutexOwned, Rotating, Starting, MovedTo, tables, HoldingPcs, RotatingPcs
<1>9. CASE Keeps(p)
  BY <1>0, <1>9, Kinds, Types, ProcTypes DEF Keeps, MutexHeld, MutexOwned, Rotating, Starting, MovedTo, tables, HoldingPcs, RotatingPcs
<1>10. CASE Reads(p)
  BY <1>0, <1>10, Kinds, Types, ProcTypes DEF Reads, MutexHeld, MutexOwned, Rotating, Starting, MovedTo, tables, HoldingPcs, RotatingPcs
<1> QED BY <1>1, <1>2, <1>3, <1>4, <1>5, <1>6, <1>7, <1>8, <1>9, <1>10 DEF Shaped

\* Nobody takes a mutex from its holder.
LEMMA MutexOwnedStep ==
  ASSUME IInv, NEW p \in Procs, Shaped(p)
  PROVE  MutexOwned'
<1>0. TypeOK /\ Starting /\ Rotating /\ MutexOwned
  BY DEF IInv, Drawn, Locked
<1>1. CASE Quiet(p)
  BY <1>0, <1>1, Kinds, Types, ProcTypes DEF Quiet, MutexOwned, Rotating, Starting, HoldingPcs, RotatingPcs
<1>2. CASE Draws(p)
  BY <1>0, <1>2, Kinds, Types, ProcTypes DEF Draws, MutexOwned, Rotating, Starting, MovedTo, HoldingPcs, RotatingPcs
<1>3. CASE Publishes(p)
  BY <1>0, <1>3, Kinds, Types, ProcTypes DEF Publishes, MutexOwned, Rotating, Starting, tables, HoldingPcs, RotatingPcs
<1>4. CASE Takes(p)
  BY <1>0, <1>4, Kinds, Types, ProcTypes DEF Takes, MutexOwned, Rotating, Starting, MovedTo, LookUpFinds, tables, HoldingPcs, RotatingPcs
<1>5. CASE Asks(p)
  BY <1>0, <1>5, Kinds, Types, ProcTypes DEF Asks, MutexOwned, Rotating, Starting, MovedTo, tables, HoldingPcs, RotatingPcs
<1>6. CASE Writes(p)
  BY <1>0, <1>6, Kinds, Types, ProcTypes DEF Writes, MutexOwned, Rotating, Starting, MovedTo, tables, HoldingPcs, RotatingPcs
<1>7. CASE Abandons(p)
  BY <1>0, <1>7, Kinds, Types, ProcTypes DEF Abandons, MutexOwned, Rotating, Starting, MovedTo, tables, HoldingPcs, RotatingPcs, Rest
<1>8. CASE Dates(p)
  BY <1>0, <1>8, Kinds, Types, ProcTypes DEF Dates, MutexOwned, Rotating, Starting, MovedTo, tables, HoldingPcs, RotatingPcs
<1>9. CASE Keeps(p)
  BY <1>0, <1>9, Kinds, Types, ProcTypes DEF Keeps, MutexOwned, Rotating, Starting, MovedTo, tables, HoldingPcs, RotatingPcs
<1>10. CASE Reads(p)
  BY <1>0, <1>10, Kinds, Types, ProcTypes DEF Reads, MutexOwned, Rotating, Starting, MovedTo, tables, HoldingPcs, RotatingPcs
<1> QED BY <1>1, <1>2, <1>3, <1>4, <1>5, <1>6, <1>7, <1>8, <1>9, <1>10 DEF Shaped

\* Every way out of a section that reads releases the registry.
LEMMA ReadersHeldStep ==
  ASSUME IInv, NEW p \in Procs, Shaped(p)
  PROVE  ReadersHeld'
<1>0. TypeOK /\ Starting /\ ReadersHeld
  BY DEF IInv, Drawn, Locked
<1>1. CASE Quiet(p)
  BY <1>0, <1>1, Kinds, Types, ProcTypes DEF Quiet, ReadersHeld, Starting, HoldingPcs, RotatingPcs
<1>2. CASE Draws(p)
  BY <1>0, <1>2, Kinds, Types, ProcTypes DEF Draws, ReadersHeld, Starting, MovedTo, HoldingPcs, RotatingPcs
<1>3. CASE Publishes(p)
  BY <1>0, <1>3, Kinds, Types, ProcTypes DEF Publishes, ReadersHeld, Starting, tables, HoldingPcs, RotatingPcs
<1>4. CASE Takes(p)
  BY <1>0, <1>4, Kinds, Types, ProcTypes DEF Takes, ReadersHeld, Starting, MovedTo, LookUpFinds, tables, HoldingPcs, RotatingPcs
<1>5. CASE Asks(p)
  BY <1>0, <1>5, Kinds, Types, ProcTypes DEF Asks, ReadersHeld, Starting, MovedTo, tables, HoldingPcs, RotatingPcs
<1>6. CASE Writes(p)
  BY <1>0, <1>6, Kinds, Types, ProcTypes DEF Writes, ReadersHeld, Starting, MovedTo, tables, HoldingPcs, RotatingPcs
<1>7. CASE Abandons(p)
  BY <1>0, <1>7, Kinds, Types, ProcTypes DEF Abandons, ReadersHeld, Starting, MovedTo, tables, HoldingPcs, RotatingPcs, Rest
<1>8. CASE Dates(p)
  BY <1>0, <1>8, Kinds, Types, ProcTypes DEF Dates, ReadersHeld, Starting, MovedTo, tables, HoldingPcs, RotatingPcs
<1>9. CASE Keeps(p)
  BY <1>0, <1>9, Kinds, Types, ProcTypes DEF Keeps, ReadersHeld, Starting, MovedTo, tables, HoldingPcs, RotatingPcs
<1>10. CASE Reads(p)
  BY <1>0, <1>10, Kinds, Types, ProcTypes DEF Reads, ReadersHeld, Starting, MovedTo, tables, HoldingPcs, RotatingPcs
<1> QED BY <1>1, <1>2, <1>3, <1>4, <1>5, <1>6, <1>7, <1>8, <1>9, <1>10 DEF Shaped

\* Nobody takes the registry from a reader.
LEMMA ReadersOwnedStep ==
  ASSUME IInv, NEW p \in Procs, Shaped(p)
  PROVE  ReadersOwned'
<1>0. TypeOK /\ Starting /\ ReadersOwned
  BY DEF IInv, Drawn, Locked
<1>1. CASE Quiet(p)
  BY <1>0, <1>1, Kinds, Types, ProcTypes DEF Quiet, ReadersOwned, Starting, HoldingPcs, RotatingPcs
<1>2. CASE Draws(p)
  BY <1>0, <1>2, Kinds, Types, ProcTypes DEF Draws, ReadersOwned, Starting, MovedTo, HoldingPcs, RotatingPcs
<1>3. CASE Publishes(p)
  BY <1>0, <1>3, Kinds, Types, ProcTypes DEF Publishes, ReadersOwned, Starting, tables, HoldingPcs, RotatingPcs
<1>4. CASE Takes(p)
  BY <1>0, <1>4, Kinds, Types, ProcTypes DEF Takes, ReadersOwned, Starting, MovedTo, LookUpFinds, tables, HoldingPcs, RotatingPcs
<1>5. CASE Asks(p)
  BY <1>0, <1>5, Kinds, Types, ProcTypes DEF Asks, ReadersOwned, Starting, MovedTo, tables, HoldingPcs, RotatingPcs
<1>6. CASE Writes(p)
  BY <1>0, <1>6, Kinds, Types, ProcTypes DEF Writes, ReadersOwned, Starting, MovedTo, tables, HoldingPcs, RotatingPcs
<1>7. CASE Abandons(p)
  BY <1>0, <1>7, Kinds, Types, ProcTypes DEF Abandons, ReadersOwned, Starting, MovedTo, tables, HoldingPcs, RotatingPcs, Rest
<1>8. CASE Dates(p)
  BY <1>0, <1>8, Kinds, Types, ProcTypes DEF Dates, ReadersOwned, Starting, MovedTo, tables, HoldingPcs, RotatingPcs
<1>9. CASE Keeps(p)
  BY <1>0, <1>9, Kinds, Types, ProcTypes DEF Keeps, ReadersOwned, Starting, MovedTo, tables, HoldingPcs, RotatingPcs
<1>10. CASE Reads(p)
  BY <1>0, <1>10, Kinds, Types, ProcTypes DEF Reads, ReadersOwned, Starting, MovedTo, tables, HoldingPcs, RotatingPcs
<1> QED BY <1>1, <1>2, <1>3, <1>4, <1>5, <1>6, <1>7, <1>8, <1>9, <1>10 DEF Shaped

\* A token is written by the holder of its mutex only.
LEMMA DatedStep ==
  ASSUME IInv, NEW p \in Procs, Shaped(p)
  PROVE  Dated'
<1>0. TypeOK /\ Undrawn /\ Starting /\ Rotating /\ MutexHeld /\ MutexOwned /\ Dated /\ Written
  BY DEF IInv, Drawn, Locked
<1>1. CASE Quiet(p)
  BY <1>0, <1>1, Kinds, Types, ProcTypes DEF Quiet, Dated, Written, MutexHeld, MutexOwned, Rotating, Starting, Undrawn, HoldingPcs, RotatingPcs
<1>2. CASE Draws(p)
  BY <1>0, <1>2, Kinds, Types, ProcTypes DEF Draws, Dated, Written, MutexHeld, MutexOwned, Rotating, Starting, Undrawn, MovedTo, HoldingPcs, RotatingPcs
<1>3. CASE Publishes(p)
  BY <1>0, <1>3, Kinds, Types, ProcTypes DEF Publishes, Dated, Written, MutexHeld, MutexOwned, Rotating, Starting, Undrawn, tables, HoldingPcs, RotatingPcs
<1>4. CASE Takes(p)
  BY <1>0, <1>4, Kinds, Types, ProcTypes DEF Takes, Dated, Written, MutexHeld, MutexOwned, Rotating, Starting, Undrawn, MovedTo, LookUpFinds, tables, HoldingPcs, RotatingPcs
<1>5. CASE Asks(p)
  BY <1>0, <1>5, Kinds, Types, ProcTypes DEF Asks, Dated, Written, MutexHeld, MutexOwned, Rotating, Starting, Undrawn, MovedTo, tables, HoldingPcs, RotatingPcs
<1>6. CASE Writes(p)
  BY <1>0, <1>6, Kinds, Types, ProcTypes DEF Writes, Dated, Written, MutexHeld, MutexOwned, Rotating, Starting, Undrawn, MovedTo, tables, HoldingPcs, RotatingPcs
<1>7. CASE Abandons(p)
  BY <1>0, <1>7, Kinds, Types, ProcTypes DEF Abandons, Dated, Written, MutexHeld, MutexOwned, Rotating, Starting, Undrawn, MovedTo, tables, HoldingPcs, RotatingPcs, Rest
<1>8. CASE Dates(p)
  BY <1>0, <1>8, Kinds, Types, ProcTypes DEF Dates, Dated, Written, MutexHeld, MutexOwned, Rotating, Starting, Undrawn, MovedTo, tables, HoldingPcs, RotatingPcs
<1>9. CASE Keeps(p)
  BY <1>0, <1>9, Kinds, Types, ProcTypes DEF Keeps, Dated, Written, MutexHeld, MutexOwned, Rotating, Starting, Undrawn, MovedTo, tables, HoldingPcs, RotatingPcs
<1>10. CASE Reads(p)
  BY <1>0, <1>10, Kinds, Types, ProcTypes DEF Reads, Dated, Written, MutexHeld, MutexOwned, Rotating, Starting, Undrawn, MovedTo, tables, HoldingPcs, RotatingPcs
<1> QED BY <1>1, <1>2, <1>3, <1>4, <1>5, <1>6, <1>7, <1>8, <1>9, <1>10 DEF Shaped

\* The token a rotation wrote is still there when it dates it.
LEMMA WrittenStep ==
  ASSUME IInv, NEW p \in Procs, Shaped(p)
  PROVE  Written'
<1>0. TypeOK /\ Undrawn /\ Starting /\ Rotating /\ MutexOwned /\ Written
  BY DEF IInv, Drawn, Locked
<1>1. CASE Quiet(p)
  BY <1>0, <1>1, Kinds, Types, ProcTypes DEF Quiet, Written, MutexOwned, Rotating, Starting, Undrawn, HoldingPcs, RotatingPcs
<1>2. CASE Draws(p)
  BY <1>0, <1>2, Kinds, Types, ProcTypes DEF Draws, Written, MutexOwned, Rotating, Starting, Undrawn, MovedTo, HoldingPcs, RotatingPcs
<1>3. CASE Publishes(p)
  BY <1>0, <1>3, Kinds, Types, ProcTypes DEF Publishes, Written, MutexOwned, Rotating, Starting, Undrawn, tables, HoldingPcs, RotatingPcs
<1>4. CASE Takes(p)
  BY <1>0, <1>4, Kinds, Types, ProcTypes DEF Takes, Written, MutexOwned, Rotating, Starting, Undrawn, MovedTo, LookUpFinds, tables, HoldingPcs, RotatingPcs
<1>5. CASE Asks(p)
  BY <1>0, <1>5, Kinds, Types, ProcTypes DEF Asks, Written, MutexOwned, Rotating, Starting, Undrawn, MovedTo, tables, HoldingPcs, RotatingPcs
<1>6. CASE Writes(p)
  BY <1>0, <1>6, Kinds, Types, ProcTypes DEF Writes, Written, MutexOwned, Rotating, Starting, Undrawn, MovedTo, tables, HoldingPcs, RotatingPcs
<1>7. CASE Abandons(p)
  BY <1>0, <1>7, Kinds, Types, ProcTypes DEF Abandons, Written, MutexOwned, Rotating, Starting, Undrawn, MovedTo, tables, HoldingPcs, RotatingPcs, Rest
<1>8. CASE Dates(p)
  BY <1>0, <1>8, Kinds, Types, ProcTypes DEF Dates, Written, MutexOwned, Rotating, Starting, Undrawn, MovedTo, tables, HoldingPcs, RotatingPcs
<1>9. CASE Keeps(p)
  BY <1>0, <1>9, Kinds, Types, ProcTypes DEF Keeps, Written, MutexOwned, Rotating, Starting, Undrawn, MovedTo, tables, HoldingPcs, RotatingPcs
<1>10. CASE Reads(p)
  BY <1>0, <1>10, Kinds, Types, ProcTypes DEF Reads, Written, MutexOwned, Rotating, Starting, Undrawn, MovedTo, tables, HoldingPcs, RotatingPcs
<1> QED BY <1>1, <1>2, <1>3, <1>4, <1>5, <1>6, <1>7, <1>8, <1>9, <1>10 DEF Shaped

\* A failure is recorded on the service of the loop.
LEMMA FailuresStep ==
  ASSUME IInv, NEW p \in Procs, Shaped(p)
  PROVE  FailuresStayHome'
<1>0. TypeOK /\ FailuresStayHome
  BY DEF IInv, Drawn, Locked
<1>1. CASE Quiet(p)
  BY <1>0, <1>1, Kinds, Types, ProcTypes DEF Quiet, FailuresStayHome
<1>2. CASE Draws(p)
  BY <1>0, <1>2, Kinds, Types, ProcTypes DEF Draws, FailuresStayHome, MovedTo
<1>3. CASE Publishes(p)
  BY <1>0, <1>3, Kinds, Types, ProcTypes DEF Publishes, FailuresStayHome, tables
<1>4. CASE Takes(p)
  BY <1>0, <1>4, Kinds, Types, ProcTypes DEF Takes, FailuresStayHome, MovedTo, LookUpFinds, tables
<1>5. CASE Asks(p)
  BY <1>0, <1>5, Kinds, Types, ProcTypes DEF Asks, FailuresStayHome, MovedTo, tables
<1>6. CASE Writes(p)
  BY <1>0, <1>6, Kinds, Types, ProcTypes DEF Writes, FailuresStayHome, MovedTo, tables
<1>7. CASE Abandons(p)
  BY <1>0, <1>7, Kinds, Types, ProcTypes DEF Abandons, FailuresStayHome, MovedTo, tables, Rest
<1>8. CASE Dates(p)
  BY <1>0, <1>8, Kinds, Types, ProcTypes DEF Dates, FailuresStayHome, MovedTo, tables
<1>9. CASE Keeps(p)
  BY <1>0, <1>9, Kinds, Types, ProcTypes DEF Keeps, FailuresStayHome, MovedTo, tables
<1>10. CASE Reads(p)
  BY <1>0, <1>10, Kinds, Types, ProcTypes DEF Reads, FailuresStayHome, MovedTo, tables
<1> QED BY <1>1, <1>2, <1>3, <1>4, <1>5, <1>6, <1>7, <1>8, <1>9, <1>10 DEF Shaped

\* The invariant holds before anything is published.
LEMMA Initially == Init => IInv
<1> SUFFICES ASSUME Init PROVE IInv
  OBVIOUS
<1>1. proc \in [Procs -> Locals] /\ \A p \in Procs : proc[p].pc = Rest(p)
  <2>1. PICK id \in ServiceIds : proc = [p \in Procs |-> [IdleAt(id) EXCEPT !.pc = Rest(p)]]
    BY DEF Init
  <2>2. \A p \in Procs : /\ [IdleAt(id) EXCEPT !.pc = Rest(p)] \in Locals
                         /\ [IdleAt(id) EXCEPT !.pc = Rest(p)].pc = Rest(p)
    BY Nones DEF IdleAt, Locals, Pcs, Rest
  <2> QED BY <2>1, <2>2
<1>2. \A p \in Procs : proc[p].pc \in {"idle", "over"} /\ (p \in Generations => proc[p].pc = "over")
  BY <1>1, Kinds DEF Rest
<1>3. queue \in Seq(Requests) /\ DOMAIN queue = {}
  BY DEF Init
<1>4. nextGen \in 1 .. MaxStarts + 1 /\ nextToken \in 1 .. MaxTokens + 1
  BY BoundsAssumption DEF Init
<1>5. TypeOK
  BY <1>1, <1>3, <1>4, Nones DEF TypeOK, Init
<1>6. Queued /\ AsksOnce /\ AsksRightly /\ Drawn /\ Rotating /\ Awaiting
  BY <1>2, <1>3, Kinds DEF Init, Queued, AsksOnce, AsksRightly, AskingPcs, WritingPcs, Drawn, Undrawn, Published, Starting, Apart, Rotating,
     RotatingPcs, Awaiting
<1>7. Locked /\ Dated /\ Written /\ FailuresStayHome
  BY <1>2, Kinds DEF Init, Locked, MutexHeld, MutexOwned, ReadersHeld, ReadersOwned, RotatingPcs,
     Dated, Written, FailuresStayHome
<1> QED BY <1>5, <1>6, <1>7 DEF IInv

-----------------------------------------------------------------------------
(* Theorems *)

\* Every step, being of one of the shapes, keeps the invariant.
LEMMA Inductive == IInv /\ [Next]_vars => IInv'
<1> SUFFICES ASSUME IInv, [Next]_vars PROVE IInv'
  OBVIOUS
<1>1. CASE UNCHANGED vars
  BY <1>1 DEF vars, IInv, TypeOK, Queued, AsksOnce, AsksRightly, Drawn, Undrawn, Published, Starting,
     Apart, Rotating, Awaiting, Locked, MutexHeld, MutexOwned, ReadersHeld, ReadersOwned, Dated, Written,
     FailuresStayHome
<1>2. ASSUME NEW p \in Procs, Shaped(p) PROVE IInv'
  BY <1>2, TypeStep, UndrawnStep, PublishedStep, StartingStep, ApartStep, RotatingStep,
     AwaitingStep, MutexHeldStep, MutexOwnedStep, ReadersHeldStep, ReadersOwnedStep, DatedStep,
     WrittenStep, FailuresStep
  DEF IInv, Drawn, Locked
<1>3. TypeOK /\ Starting
  BY DEF IInv, Drawn
<1> QED BY <1>1, <1>2, <1>3, Shapes

\* IInv is an inductive invariant of the registry.
THEOREM Invariance == Spec => []IInv
BY Initially, Inductive, PTL DEF Spec

\* Every variable keeps its type, whatever calls and loops run.
THEOREM TypeCorrect == Spec => []TypeOK
<1>1. IInv => TypeOK
  BY DEF IInv
<1> QED BY <1>1, Invariance, PTL

\* No early return of rotate_token_inner, join_uri or token_state leaves a lock held.
THEOREM LocksAreAccountedFor == Spec => []LocksAccountedFor
<1>1. IInv => LocksAccountedFor
  BY DEF IInv, Locked, MutexHeld, MutexOwned, ReadersHeld, ReadersOwned, RotatingPcs,
     LocksAccountedFor
<1> QED BY <1>1, Invariance, PTL

\* record_rotation_failure never records on a service published later under the id.
THEOREM FailuresAreHome == Spec => []FailuresStayHome
<1>1. IInv => FailuresStayHome
  BY DEF IInv
<1> QED BY <1>1, Invariance, PTL

\* token_state never pairs a token with the creation time of another.
THEOREM AnswersAreMatched == Spec => AnswersMatch
<1> DEFINE Match == \A u \in Users : proc[u].pc = "await" /\ proc'[u].pc = "idle" =>
                      token[proc[u].gen] = created[proc[u].gen]
<1>1. ASSUME IInv, [Next]_vars PROVE [Match]_vars
  <2> SUFFICES ASSUME NEW u \in Users, proc[u].pc = "await", proc'[u].pc = "idle"
               PROVE  token[proc[u].gen] = created[proc[u].gen]
    OBVIOUS
  <2>1. TypeOK /\ Starting /\ Awaiting /\ Dated
    BY <1>1 DEF IInv, Drawn
  <2>2. u \in Procs /\ proc'[u] # proc[u] /\ proc[u].gen \in Generations
    BY <2>1, Kinds DEF Awaiting
  <2>3. PICK p \in Procs : Shaped(p)
    BY <1>1, <2>1, <2>2, Shapes DEF vars
  <2>4. p = u
    <3>1. CASE Publishes(p)
      BY <2>2, <3>1, Kinds DEF Publishes
    <3>2. CASE ~Publishes(p)
      BY <2>2, <2>3, <3>2 DEF Shaped, Quiet, Draws, Takes, Asks, Writes, Abandons, Dates, Keeps,
         Reads, LookUpFinds, MovedTo
    <3> QED BY <3>1, <3>2
  <2>5. Reads(u)
    BY <2>3, <2>4 DEF Shaped, Quiet, HoldingPcs, Draws, Publishes, Takes, Asks, Writes, Abandons,
       Dates, Keeps
  <2> QED BY <2>1, <2>2, <2>5 DEF Reads, Dated
<1> QED BY <1>1, Invariance, PTL DEF Spec, AnswersMatch

\* A rotation that overlaps a stop, or a stop and a new start, changes no token.
THEOREM TokensAreChangedAtHome == Spec => TokensChangeAtHome
<1> DEFINE AtHome == \A g \in Generations : token'[g] # token[g] /\ token[g] # None =>
                       /\ Registered(g)
                       /\ \A l \in Generations \ {g} : proc'[l] = proc[l]
<1>1. ASSUME IInv, [Next]_vars PROVE [AtHome]_vars
  <2> SUFFICES ASSUME NEW g \in Generations, token'[g] # token[g], token[g] # None
               PROVE  /\ Registered(g)
                      /\ \A l \in Generations \ {g} : proc'[l] = proc[l]
    OBVIOUS
  <2>1. TypeOK /\ Starting /\ Rotating /\ Undrawn
    BY <1>1 DEF IInv, Drawn
  <2>2. PICK p \in Procs : Shaped(p)
    BY <1>1, <2>1, Shapes DEF vars
  <2>3. ~Draws(p)
    <3>1. ASSUME Draws(p) PROVE token[g] = None
      BY <2>1, <3>1, Types DEF Draws, Undrawn
    <3> QED BY <3>1
  <2>4. Writes(p)
    BY <2>2, <2>3 DEF Shaped, Quiet, Publishes, Takes, Asks, Abandons, Dates, Keeps, Reads
  <2>5. g = proc[p].gen /\ services[proc[p].id] = g /\ proc[p].id = idOf[g]
        /\ (p \in Generations => p = g)
    BY <2>1, <2>4, Types DEF Writes, StillRegistered, Rotating, RotatingPcs
  <2>6. \A r \in Procs : r # p => proc'[r] = proc[r]
    BY <2>4 DEF Writes, MovedTo
  <2> QED BY <2>5, <2>6, Kinds DEF Registered
<1> QED BY <1>1, Invariance, PTL DEF Spec, TokensChangeAtHome

-----------------------------------------------------------------------------
(* The circular wait *)

\* What a call waits for is there: its turn at the registry, a token_rotation mutex
\* that is free, or nothing at all.
Proceeds(p) ==
  \/ /\ proc[p].pc \in AskingPcs
     /\ \E w \in BOOLEAN : /\ Served(p, w)
                           /\ w <=> proc[p].pc \in WritingPcs
  \/ proc[p].pc \in {"rotating", "publish", "fail"}
  \/ proc[p].pc = "await" /\ rotation[proc[p].gen] = NoProc

OnlyCircularWaitStops ==
  (\E p \in Procs : Calling(p)) => CircularWait \/ \E p \in Procs : Proceeds(p)

\* A call that waits for a mutex waits for a rotation in the queue, whose head is a
\* writer that waits for readers.
LEMMA StoppedInCircle == IInv => OnlyCircularWaitStops
<1> SUFFICES ASSUME IInv, NEW c \in Procs, Calling(c), \A p \in Procs : ~Proceeds(p)
             PROVE  CircularWait
  BY DEF OnlyCircularWaitStops
<1>0. TypeOK /\ Queued /\ AsksOnce /\ AsksRightly /\ Awaiting /\ MutexHeld /\ ReadersHeld
  BY DEF IInv, Locked
<1>1. \A p \in Procs : proc[p].pc \in AskingPcs \cup {"await", "idle", "over"}
  BY <1>0, ProcTypes DEF Proceeds, Pcs, AskingPcs, WritingPcs
<1>2. ASSUME NEW q \in Procs, proc[q].pc = "await"
      PROVE  /\ rotation[proc[q].gen] \in Procs
             /\ proc[rotation[proc[q].gen]].pc = "commit"
             /\ \E j \in DOMAIN queue : queue[j].proc = rotation[proc[q].gen] /\ ~queue[j].write
  <2> DEFINE p == rotation[proc[q].gen]
  <2>1. proc[q].gen \in Generations /\ p # NoProc
    BY <1>0, <1>2 DEF Awaiting, Proceeds
  <2>2. p \in Procs
    BY <1>0, <2>1, Types
  <2>3. proc[p].pc = "commit"
    BY <1>0, <1>1, <2>1, <2>2 DEF MutexHeld, RotatingPcs, AskingPcs, WritingPcs
  <2>4. proc[p].pc \in AskingPcs /\ proc[p].pc \notin WritingPcs
    BY <2>3 DEF AskingPcs, WritingPcs
  <2>5. PICK j \in DOMAIN queue : queue[j].proc = p
    BY <1>0, <2>2, <2>4 DEF AsksOnce
  <2>6. ~queue[j].write
    BY <1>0, <2>4, <2>5 DEF AsksRightly
  <2> QED BY <2>2, <2>3, <2>5, <2>6
<1>3. \E j \in DOMAIN queue : TRUE
  <2>1. CASE proc[c].pc = "await"
    BY <1>2, <2>1
  <2>2. CASE proc[c].pc \in AskingPcs
    BY <1>0, <2>2 DEF AsksOnce
  <2> QED BY <1>1, <2>1, <2>2 DEF Calling
<1>4. queue \in Seq(Requests)
  BY <1>0 DEF TypeOK
<1>5. /\ 1 \in DOMAIN queue /\ queue # <<>> /\ Head(queue) = queue[1]
      /\ \A j \in DOMAIN queue : j \in Nat /\ 1 <= j
  BY <1>3, <1>4
<1>6. queue[1].write \in BOOLEAN
  <2>1. queue[1] \in Requests
    BY <1>4, <1>5
  <2> QED BY <2>1 DEF Requests
<1>7. queue[1].proc \in Procs /\ proc[queue[1].proc].pc \in AskingPcs
  BY <1>0, <1>5, QueueTypes DEF Queued
<1>8. queue[1].write <=> proc[queue[1].proc].pc \in WritingPcs
  BY <1>0, <1>5 DEF AsksRightly
<1>9. ~Served(queue[1].proc, queue[1].write)
  BY <1>6, <1>7, <1>8 DEF Proceeds
<1>10. queue[1].write /\ readers # {}
  BY <1>5, <1>6, <1>9 DEF Served
<1>11. PICK q \in readers : proc[q].pc = "await" /\ q \in Procs
  <2>1. \A q \in readers : q \in Procs /\ proc[q].pc \in {"await", "publish"}
    BY <1>0, Types DEF ReadersHeld
  <2>2. \A q \in readers : proc[q].pc # "publish"
    BY <1>1, <2>1 DEF AskingPcs, WritingPcs
  <2> QED BY <1>10, <2>1, <2>2
<1>12. PICK j \in DOMAIN queue : queue[j].proc = rotation[proc[q].gen] /\ ~queue[j].write
  BY <1>2, <1>11
<1>13. 1 < j
  BY <1>5, <1>10, <1>12
<1> QED BY <1>2, <1>5, <1>10, <1>11, <1>12, <1>13 DEF CircularWait

\* Neither the query nor the rotation of a circular wait can move, and whoever else
\* moves leaves the mutex, the reader and the order of the two requests as they are.
LEMMA CircularWaitStep ==
  ASSUME IInv, CircularWait, NEW r \in Procs, Shaped(r)
  PROVE  CircularWait'
<1>0. TypeOK /\ Queued /\ Starting /\ Awaiting /\ MutexOwned
  BY DEF IInv, Drawn, Locked
<1>1. PICK p \in Procs, q \in Procs :
        /\ proc[q].pc = "await" /\ q \in readers
        /\ rotation[proc[q].gen] = p
        /\ proc[p].pc = "commit"
        /\ \E i, j \in DOMAIN queue : i < j /\ queue[i].write /\ queue[j].proc = p
  BY DEF CircularWait
<1>2. PICK i \in DOMAIN queue, j \in DOMAIN queue : i < j /\ queue[i].write /\ queue[j].proc = p
  BY <1>1
<1>3. proc[q].gen \in Generations
  BY <1>0, <1>1 DEF Awaiting
<1>4. queue \in Seq(Requests) /\ DOMAIN queue = 1 .. Len(queue) /\ Len(queue) \in Nat
  BY <1>0 DEF TypeOK
<1>5. queue # <<>> /\ Head(queue) = queue[1] /\ 1 \in DOMAIN queue /\ j # 1
  BY <1>2, <1>4
<1>6. r # q
  <2>1. ASSUME r = q PROVE rotation[proc[q].gen] = NoProc
    BY <1>1, <2>1 DEF Shaped, Quiet, HoldingPcs, Draws, Publishes, Takes, Asks, Writes, Abandons,
       Dates, Keeps, Reads
  <2> QED BY <1>1, <2>1, Kinds
<1>7. QueueMove(r)
  BY DEF Shaped, Quiet, Draws, Publishes, Takes, Asks, Writes, Abandons, Dates, Keeps, Reads
<1>8. r # p
  <2>1. ASSUME r = p PROVE queue[1].proc = p
    <3>1. proc[r].pc \in AskingPcs
      BY <1>1, <2>1 DEF AskingPcs
    <3> QED BY <1>5, <1>7, <2>1, <3>1 DEF QueueMove, Served
  <2>2. \A k, l \in DOMAIN queue : queue[k].proc = queue[l].proc => k = l
    BY <1>0 DEF TypeOK
  <2> QED BY <1>2, <1>5, <2>1, <2>2
<1>9. proc'[p] = proc[p] /\ proc'[q] = proc[q]
  <2>1. CASE Publishes(r)
    <3>1. proc[proc[r].gen].pc = "over"
      BY <1>0, <2>1 DEF Publishes, Starting
    <3> QED BY <1>1, <1>6, <1>8, <2>1, <3>1 DEF Publishes
  <2>2. CASE ~Publishes(r)
    BY <1>6, <1>8, <2>2 DEF Shaped, Quiet, Draws, Takes, Asks, Writes, Abandons, Dates, Keeps,
       Reads, LookUpFinds, MovedTo
  <2> QED BY <2>1, <2>2
<1>10. q \in readers'
  BY <1>1, <1>6 DEF Shaped, Quiet, Draws, Publishes, Takes, Asks, Writes, Abandons, Dates, Keeps,
     Reads, tables
<1>11. rotation'[proc[q].gen] = p
  <2>1. CASE Takes(r)
    BY <1>0, <1>1, <1>3, <2>1, Kinds, Types DEF Takes, LookUpFinds
  <2>2. CASE Abandons(r) \/ Dates(r)
    <3>1. rotation[proc[r].gen] = r
      BY <1>0, <2>2 DEF Abandons, Dates, MutexOwned, RotatingPcs
    <3>2. proc[r].gen # proc[q].gen
      BY <1>1, <1>8, <3>1
    <3> QED BY <1>0, <1>1, <1>3, <2>2, <3>2, Types DEF Abandons, Dates
  <2>3. CASE ~(Takes(r) \/ Abandons(r) \/ Dates(r))
    BY <1>1, <2>3 DEF Shaped, Quiet, Draws, Publishes, Asks, Writes, Keeps, Reads, tables
  <2> QED BY <2>1, <2>2, <2>3
<1>12. \E k, l \in DOMAIN queue' : k < l /\ queue'[k].write /\ queue'[l].proc = p
  <2>1. CASE queue' = queue
    BY <1>2, <2>1
  <2>2. ASSUME NEW w \in BOOLEAN, proc[r].pc \notin AskingPcs, queue' = Ask(r, w)
        PROVE  \A k \in DOMAIN queue : k \in DOMAIN queue' /\ queue'[k] = queue[k]
    BY <1>0, <2>2, AskTypes
  <2>3. ASSUME NEW w \in BOOLEAN, Served(r, w), queue' = Tail(queue)
        PROVE  /\ i - 1 \in DOMAIN queue' /\ queue'[i - 1] = queue[i]
               /\ j - 1 \in DOMAIN queue' /\ queue'[j - 1] = queue[j]
    <3>1. i # 1
      BY <1>1, <1>2, <1>5, <2>3 DEF Served
    <3>2. DOMAIN queue' = 1 .. Len(queue) - 1 /\ \A k \in DOMAIN queue' : queue'[k] = queue[k + 1]
      BY <1>4, <1>5, <2>3
    <3> QED BY <1>2, <1>4, <1>5, <3>1, <3>2
  <2>4. i \in Nat /\ j \in Nat
    BY <1>4
  <2>5. CASE \E w \in BOOLEAN : Served(r, w) /\ queue' = Tail(queue)
    <3>1. i - 1 < j - 1
      BY <1>2, <2>4
    <3> QED BY <1>2, <2>3, <2>5, <3>1
  <2>6. CASE \E w \in BOOLEAN : proc[r].pc \notin AskingPcs /\ queue' = Ask(r, w)
    BY <1>2, <2>2, <2>6
  <2> QED BY <1>7, <2>1, <2>5, <2>6 DEF QueueMove
<1> QED BY <1>1, <1>9, <1>10, <1>11, <1>12 DEF CircularWait

\* Of the waits that start_service, stop_service, close, rotate_token_inner, join_uri
\* and token_state run into, only the circular one can leave every call waiting: short
\* of it, whatever calls and loops run, one of them can always go on.
THEOREM OnlyCircularWaitDeadlocks == Spec => []OnlyCircularWaitStops
BY StoppedInCircle, Invariance, PTL

\* Nothing breaks a circular wait: once a query, a rotation and a writer wait for each
\* other they do for ever, whatever is called after.
THEOREM CircularWaitIsForEver == Spec => [](CircularWait => []CircularWait)
<1>1. IInv /\ CircularWait /\ [Next]_vars => CircularWait'
  <2> SUFFICES ASSUME IInv, CircularWait, [Next]_vars PROVE CircularWait'
    OBVIOUS
  <2>1. CASE UNCHANGED vars
    BY <2>1 DEF vars, CircularWait
  <2>2. TypeOK /\ Starting
    BY DEF IInv, Drawn
  <2> QED BY <2>1, <2>2, Shapes, CircularWaitStep
<1> QED BY <1>1, Invariance, PTL DEF Spec

=============================================================================
