--------------------------- MODULE RotationProofs ---------------------------
(***************************************************************************)
(* Proofs about module Rotation, for any period, any bounds on the delays  *)
(* and any jumps of the wall clock: no token is kept too long or replaced  *)
(* too early, and the loop sleeps whenever it waits.                       *)
(***************************************************************************)
EXTENDS Rotation, TLAPS

-----------------------------------------------------------------------------
(* The inductive invariant *)

Asleep == loop.pc = "asleep"

\* Only a running loop has a rotation by hand to see, and none runs beside its own.
LoopAlone ==
  /\ pending => loop.pc # "none"
  /\ ~(manual.held /\ loop.pc = "rotating")

\* A loop that does not retry wakes up by its deadline, and within ClockCheckMax of
\* the moment from which the wall clock has been past it.
WakesInTime == Asleep /\ schedule.failures = 0 =>
  /\ mono <= loop.wake
  /\ loop.wake <= schedule.deadlineMono
  /\ late + loop.wake - mono <= ClockCheckMax

\* A token that the loop began with was not from the future, and the deadlines leave
\* it what its age then left of the period, except for a rotation by hand that the
\* loop has yet to see.
DeadlinesDated == loop.pc # "none" =>
  /\ since.mono <= mono
  /\ 0 <= since.age
  /\ schedule.deadlineMono <= since.mono - since.age + Period
  /\ ~pending => /\ schedule.deadlineMono = since.mono - since.age + Period
                 /\ schedule.deadline = since.wall - since.age + Period

\* A sleeping loop sees a rotation by hand before time passes.
PendingFresh == Asleep /\ pending =>
  since.mono = mono /\ since.wall = wall /\ since.age = 0 /\ late = 0

\* The wall clock counts as late while it is past the deadline.
LateExplained == Asleep /\ late > 0 => wall >= schedule.deadline

IInv ==
  /\ TypeOK /\ LoopAlone /\ WakesInTime /\ DeadlinesDated /\ PendingFresh /\ LateExplained

-----------------------------------------------------------------------------
(* Clocks and schedules *)

\* What the clocks, the schedule and the loop are.
LEMMA ClockTypes ==
  ASSUME TypeOK
  PROVE  /\ mono \in Nat /\ offset \in Int /\ wall \in Int /\ wall = mono + offset
         /\ Period \in Nat /\ Period > 0 /\ ClockCheckMax \in Nat /\ ClockCheckMax > 0
         /\ token \in Int /\ saved.created \in Int /\ saved.born \in Int /\ manual.new \in Int
         /\ schedule \in Schedules /\ schedule.deadline \in Int
         /\ schedule.deadlineMono \in Int /\ schedule.failures \in 0 .. MaxFailures
         /\ loop \in Loops /\ loop.wake \in Int /\ loop.new \in Int
         /\ since.mono \in Int /\ since.wall \in Int /\ since.age \in Int
         /\ born \in Int /\ late \in Nat
BY DurationsAssumption, BoundsAssumption, OffsetsAssumption DEF TypeOK, wall, Schedules, Loops

\* A loop that goes to sleep without a failure wakes up by its deadlines, and
\* within ClockCheckMax.
LEMMA SleepEnds ==
  ASSUME TypeOK, NEW s \in Schedules, Sleep(s)
  PROVE  /\ schedule' = s /\ loop' \in Loops /\ loop'.pc = "asleep" /\ loop'.wake \in Int
         /\ s.failures = 0 =>
              /\ mono <= loop'.wake /\ loop'.wake - mono <= ClockCheckMax
              /\ mono <= s.deadlineMono => loop'.wake <= s.deadlineMono
<1>1. s.deadline \in Int /\ s.deadlineMono \in Int /\ s.failures \in 0 .. MaxFailures
  BY DEF Schedules
<1>2. Delay(s) \in Nat
  <2>1. CASE s.failures > 0
    BY <1>1, <2>1, RetryAssumption, BoundsAssumption DEF Delay
  <2>2. CASE ~(s.failures > 0)
    BY <1>1, <2>2, ClockTypes DEF Delay, AtMost, AtLeast
  <2> QED BY <2>1, <2>2
<1>3. s.failures = 0 =>
        Delay(s) <= ClockCheckMax /\ (mono <= s.deadlineMono => mono + Delay(s) <= s.deadlineMono)
  BY <1>1, ClockTypes DEF Delay, AtMost, AtLeast
<1>4. loop' = [pc |-> "asleep", wake |-> mono + Delay(s), new |-> 0] /\ schedule' = s
  BY DEF Sleep
<1>5. loop'.wake = mono + Delay(s) /\ loop'.pc = "asleep"
  BY <1>4
<1>6. loop' \in Loops
  BY <1>2, <1>4, ClockTypes DEF Loops
<1> QED BY <1>2, <1>3, <1>4, <1>5, <1>6, ClockTypes

\* reset starts a period, and record_failure keeps the deadlines.
LEMMA ScheduleTypes ==
  ASSUME TypeOK
  PROVE  /\ ScheduleFromNow \in Schedules
         /\ ScheduleFromNow.failures = 0
         /\ ScheduleFromNow.deadline = wall + Period
         /\ ScheduleFromNow.deadlineMono = mono + Period
         /\ FailureRecorded \in Schedules
         /\ FailureRecorded.failures > 0
         /\ FailureRecorded.deadline = schedule.deadline
         /\ FailureRecorded.deadlineMono = schedule.deadlineMono
<1>1. /\ ScheduleFromNow \in Schedules /\ ScheduleFromNow.failures = 0
      /\ ScheduleFromNow.deadline = wall + Period
      /\ ScheduleFromNow.deadlineMono = mono + Period
  BY ClockTypes, BoundsAssumption DEF ScheduleFromNow, Schedules
<1> DEFINE n == AtMost(schedule.failures + 1, MaxFailures)
<1>2. n \in 1 .. MaxFailures
  BY ClockTypes, BoundsAssumption DEF AtMost
<1>3. FailureRecorded = [schedule EXCEPT !.failures = n]
  BY DEF FailureRecorded
<1> HIDE DEF n
<1>4. FailureRecorded \in Schedules /\ FailureRecorded.failures = n
  BY <1>2, <1>3, ClockTypes DEF Schedules
<1>5. /\ FailureRecorded.deadline = schedule.deadline
      /\ FailureRecorded.deadlineMono = schedule.deadlineMono
  BY <1>3, ClockTypes DEF Schedules
<1> QED BY <1>1, <1>2, <1>4, <1>5

-----------------------------------------------------------------------------
(* Steps *)

\* A start under After: the saved token has some of its period left, a new one all of it.
LEMMA StartAfterStep ==
  ASSUME IInv, StartAfter
  PROVE  IInv'
<1>0. TypeOK /\ LoopAlone /\ WakesInTime /\ DeadlinesDated /\ PendingFresh /\ LateExplained
  BY DEF IInv
<1>a. wall' = mono' + offset'
  BY DEF wall
<1> DEFINE c == IF Usable THEN saved.created ELSE wall
<1> DEFINE remaining == c + Period - wall
<1> DEFINE s == [deadline |-> c + Period, deadlineMono |-> mono + remaining, failures |-> 0]
<1>b. /\ c \in Int /\ c <= wall
      /\ remaining \in Int /\ 0 < remaining /\ remaining = Period - (wall - c)
  BY <1>0, ClockTypes DEF Usable
<1>c. /\ s \in Schedules /\ s.failures = 0
      /\ s.deadline = c + Period /\ s.deadlineMono = mono + remaining
  <2> HIDE DEF c, remaining
  <2> QED BY <1>b, <1>0, ClockTypes, BoundsAssumption DEF Schedules
<1>d. /\ Sleep(s) /\ policy = "none" /\ policy' = "After" /\ token' = c /\ late' = 0
      /\ since' = [mono |-> mono, wall |-> wall, age |-> wall - c]
      /\ born' = IF Usable THEN saved.born ELSE mono
      /\ UNCHANGED <<mono, offset, saved, manual, pending>>
  BY DEF StartAfter
<1> HIDE DEF c, remaining, s
<1>e. /\ schedule' = s /\ loop' \in Loops /\ loop'.pc = "asleep"
      /\ loop'.wake \in Int /\ mono <= loop'.wake /\ loop'.wake - mono <= ClockCheckMax
      /\ loop'.wake <= mono + remaining
      /\ since'.mono = mono /\ since'.wall = wall /\ since'.age = wall - c
      /\ born' \in Int
  <2>1. mono <= s.deadlineMono
    BY <1>0, <1>b, <1>c, ClockTypes
  <2>2. /\ since'.mono = mono /\ since'.wall = wall /\ since'.age = wall - c
        /\ born' \in Int
    BY <1>0, <1>d, ClockTypes
  <2> QED BY <1>0, <1>c, <1>d, <2>1, <2>2, SleepEnds
<1>f. ~pending /\ loop.pc = "none"
  BY <1>0, <1>d DEF TypeOK, LoopAlone
<1>1. TypeOK'
  BY <1>0, <1>a, ClockTypes, <1>b, <1>c, <1>d, <1>e, <1>f DEF Policies, TypeOK
<1>2. LoopAlone'
  BY <1>0, <1>a, ClockTypes, <1>b, <1>c, <1>d, <1>e, <1>f DEF Policies, LoopAlone, Asleep
<1>3. WakesInTime'
  BY <1>0, <1>a, ClockTypes, <1>b, <1>c, <1>d, <1>e, <1>f DEF Policies, WakesInTime, Asleep
<1>4. DeadlinesDated'
  BY <1>0, <1>a, ClockTypes, <1>b, <1>c, <1>d, <1>e, <1>f DEF Policies, DeadlinesDated, Asleep
<1>5. PendingFresh'
  BY <1>0, <1>a, ClockTypes, <1>b, <1>c, <1>d, <1>e, <1>f DEF Policies, PendingFresh, Asleep
<1>6. LateExplained'
  BY <1>0, <1>a, ClockTypes, <1>b, <1>c, <1>d, <1>e, <1>f DEF Policies, LateExplained, Asleep
<1> QED BY <1>1, <1>2, <1>3, <1>4, <1>5, <1>6 DEF IInv

\* A start under another policy runs no loop.
LEMMA StartUnscheduledStep ==
  ASSUME IInv, NEW p \in {"Never", "Always"}, StartUnscheduled(p)
  PROVE  IInv'
<1>0. TypeOK /\ LoopAlone /\ WakesInTime /\ DeadlinesDated /\ PendingFresh /\ LateExplained
  BY DEF IInv
<1>a. wall' = mono' + offset'
  BY DEF wall
<1> DEFINE keeps == p = "Never" /\ saved.known
<1> DEFINE c == IF keeps THEN saved.created ELSE wall
<1>b. /\ policy' = p /\ token' = c /\ c \in Int /\ late' = 0 /\ loop.pc = "none" /\ p # "After"
      /\ since' = [mono |-> mono, wall |-> wall, age |-> wall - c] /\ born' \in Int
      /\ UNCHANGED <<mono, offset, saved, schedule, loop, manual, pending>>
  BY <1>0, ClockTypes DEF StartUnscheduled, TypeOK
<1> HIDE DEF c, keeps
<1>c. policy' \in Policies /\ since' \in [mono : Int, wall : Int, age : Int]
  BY <1>0, <1>b, ClockTypes DEF Policies
<1>1. TypeOK'
  BY <1>0, <1>a, ClockTypes, <1>b, <1>c DEF TypeOK
<1>2. LoopAlone'
  BY <1>0, <1>a, ClockTypes, <1>b, <1>c DEF LoopAlone, Asleep
<1>3. WakesInTime'
  BY <1>0, <1>a, ClockTypes, <1>b, <1>c DEF WakesInTime, Asleep
<1>4. DeadlinesDated'
  BY <1>0, <1>a, ClockTypes, <1>b, <1>c DEF DeadlinesDated, Asleep
<1>5. PendingFresh'
  BY <1>0, <1>a, ClockTypes, <1>b, <1>c DEF PendingFresh, Asleep
<1>6. LateExplained'
  BY <1>0, <1>a, ClockTypes, <1>b, <1>c DEF LateExplained, Asleep
<1> QED BY <1>1, <1>2, <1>3, <1>4, <1>5, <1>6 DEF IInv

\* Saving a token changes nothing else.
LEMMA SaveStep ==
  ASSUME IInv, Save
  PROVE  IInv'
<1>0. TypeOK /\ LoopAlone /\ WakesInTime /\ DeadlinesDated /\ PendingFresh /\ LateExplained
  BY DEF IInv
<1>a. wall' = mono' + offset'
  BY DEF wall
<1>1. TypeOK'
  BY <1>0, <1>a, ClockTypes DEF Save, TypeOK
<1>2. LoopAlone'
  BY <1>0, <1>a, ClockTypes DEF Save, LoopAlone, Asleep
<1>3. WakesInTime'
  BY <1>0, <1>a, ClockTypes DEF Save, WakesInTime, Asleep
<1>4. DeadlinesDated'
  BY <1>0, <1>a, ClockTypes DEF Save, DeadlinesDated, Asleep
<1>5. PendingFresh'
  BY <1>0, <1>a, ClockTypes DEF Save, PendingFresh, Asleep
<1>6. LateExplained'
  BY <1>0, <1>a, ClockTypes DEF Save, LateExplained, Asleep
<1> QED BY <1>1, <1>2, <1>3, <1>4, <1>5, <1>6 DEF IInv

\* A stop ends the loop and a rotation by hand.
LEMMA StopStep ==
  ASSUME IInv, Stop
  PROVE  IInv'
<1>0. TypeOK /\ LoopAlone /\ WakesInTime /\ DeadlinesDated /\ PendingFresh /\ LateExplained
  BY DEF IInv
<1>a. wall' = mono' + offset'
  BY DEF wall
<1>b. /\ loop' \in Loops /\ loop'.pc = "none" /\ schedule' \in Schedules
      /\ manual' \in [held : BOOLEAN, new : Int]
      /\ since' \in [mono : Int, wall : Int, age : Int] /\ born' \in Int
  BY BoundsAssumption DEF Stop, NoSince, NoSchedule, NoLoop, NoManual, Schedules, Loops
<1>c. /\ policy' = "none" /\ token' = 0 /\ pending' \in BOOLEAN /\ ~pending' /\ late' = 0 /\ ~manual'.held
      /\ UNCHANGED <<mono, offset, saved>>
  BY DEF Stop, NoManual
<1>1. TypeOK'
  BY <1>0, <1>a, ClockTypes, <1>b, <1>c DEF TypeOK
<1>2. LoopAlone'
  BY <1>0, <1>a, ClockTypes, <1>b, <1>c DEF LoopAlone, Asleep
<1>3. WakesInTime'
  BY <1>0, <1>a, ClockTypes, <1>b, <1>c DEF WakesInTime, Asleep
<1>4. DeadlinesDated'
  BY <1>0, <1>a, ClockTypes, <1>b, <1>c DEF DeadlinesDated, Asleep
<1>5. PendingFresh'
  BY <1>0, <1>a, ClockTypes, <1>b, <1>c DEF PendingFresh, Asleep
<1>6. LateExplained'
  BY <1>0, <1>a, ClockTypes, <1>b, <1>c DEF LateExplained, Asleep
<1> QED BY <1>1, <1>2, <1>3, <1>4, <1>5, <1>6 DEF IInv

\* What was not due is scheduled again.
LEMMA WakeForNothingStep ==
  ASSUME IInv, WakeForNothing
  PROVE  IInv'
<1>0. TypeOK /\ LoopAlone /\ WakesInTime /\ DeadlinesDated /\ PendingFresh /\ LateExplained
  BY DEF IInv
<1>a. wall' = mono' + offset'
  BY DEF wall
<1>b. schedule \in Schedules
  BY <1>0, ClockTypes
<1>c. /\ schedule' = schedule /\ loop' \in Loops /\ loop'.pc = "asleep" /\ loop'.wake \in Int
      /\ schedule.failures = 0 =>
           /\ mono <= loop'.wake /\ loop'.wake - mono <= ClockCheckMax
           /\ mono <= schedule.deadlineMono => loop'.wake <= schedule.deadlineMono
  BY <1>0, <1>b, SleepEnds DEF WakeForNothing
<1>d. /\ wall < schedule.deadline /\ mono < schedule.deadlineMono /\ loop.pc = "asleep"
      /\ UNCHANGED <<mono, offset, policy, token, saved, manual, pending, since, born, late>>
  BY <1>0, ClockTypes DEF WakeForNothing, ShouldRotate, Due
<1>e. late = 0
  BY <1>0, <1>d, ClockTypes DEF LateExplained, Asleep
<1>1. TypeOK'
  BY <1>0, <1>a, ClockTypes, <1>b, <1>c, <1>d, <1>e DEF TypeOK
<1>2. LoopAlone'
  BY <1>0, <1>a, ClockTypes, <1>b, <1>c, <1>d, <1>e DEF LoopAlone, Asleep
<1>3. WakesInTime'
  BY <1>0, <1>a, ClockTypes, <1>b, <1>c, <1>d, <1>e DEF WakesInTime, Asleep
<1>4. DeadlinesDated'
  BY <1>0, <1>a, ClockTypes, <1>b, <1>c, <1>d, <1>e DEF DeadlinesDated, Asleep
<1>5. PendingFresh'
  BY <1>0, <1>a, ClockTypes, <1>b, <1>c, <1>d, <1>e DEF PendingFresh, Asleep
<1>6. LateExplained'
  BY <1>0, <1>a, ClockTypes, <1>b, <1>c, <1>d, <1>e DEF LateExplained, Asleep
<1> QED BY <1>1, <1>2, <1>3, <1>4, <1>5, <1>6 DEF IInv

\* A conflict is retried.
LEMMA WakeToConflictStep ==
  ASSUME IInv, WakeToConflict
  PROVE  IInv'
<1>0. TypeOK /\ LoopAlone /\ WakesInTime /\ DeadlinesDated /\ PendingFresh /\ LateExplained
  BY DEF IInv
<1>a. wall' = mono' + offset'
  BY DEF wall
<1>b. FailureRecorded \in Schedules
  BY <1>0, ScheduleTypes
<1>c. /\ schedule' = FailureRecorded /\ loop' \in Loops /\ loop'.pc = "asleep" /\ loop'.wake \in Int
      /\ FailureRecorded.failures = 0 =>
           /\ mono <= loop'.wake /\ loop'.wake - mono <= ClockCheckMax
           /\ mono <= FailureRecorded.deadlineMono => loop'.wake <= FailureRecorded.deadlineMono
  BY <1>0, <1>b, SleepEnds DEF WakeToConflict
<1>1. TypeOK'
  BY <1>0, <1>a, ClockTypes, <1>b, <1>c, ScheduleTypes DEF WakeToConflict, Due, TypeOK
<1>2. LoopAlone'
  BY <1>0, <1>a, ClockTypes, <1>b, <1>c, ScheduleTypes DEF WakeToConflict, Due, LoopAlone, Asleep
<1>3. WakesInTime'
  BY <1>0, <1>a, ClockTypes, <1>b, <1>c, ScheduleTypes DEF WakeToConflict, Due, WakesInTime, Asleep
<1>4. DeadlinesDated'
  BY <1>0, <1>a, ClockTypes, <1>b, <1>c, ScheduleTypes DEF WakeToConflict, Due, DeadlinesDated, Asleep
<1>5. PendingFresh'
  BY <1>0, <1>a, ClockTypes, <1>b, <1>c, ScheduleTypes DEF WakeToConflict, Due, PendingFresh, Asleep
<1>6. LateExplained'
  BY <1>0, <1>a, ClockTypes, <1>b, <1>c, ScheduleTypes DEF WakeToConflict, Due, LateExplained, Asleep
<1> QED BY <1>1, <1>2, <1>3, <1>4, <1>5, <1>6 DEF IInv

\* So is a failure.
LEMMA WakeToFailureStep ==
  ASSUME IInv, WakeToFailure
  PROVE  IInv'
<1>0. TypeOK /\ LoopAlone /\ WakesInTime /\ DeadlinesDated /\ PendingFresh /\ LateExplained
  BY DEF IInv
<1>a. wall' = mono' + offset'
  BY DEF wall
<1>b. FailureRecorded \in Schedules
  BY <1>0, ScheduleTypes
<1>c. /\ schedule' = FailureRecorded /\ loop' \in Loops /\ loop'.pc = "asleep" /\ loop'.wake \in Int
      /\ FailureRecorded.failures = 0 =>
           /\ mono <= loop'.wake /\ loop'.wake - mono <= ClockCheckMax
           /\ mono <= FailureRecorded.deadlineMono => loop'.wake <= FailureRecorded.deadlineMono
  BY <1>0, <1>b, SleepEnds DEF WakeToFailure
<1>1. TypeOK'
  BY <1>0, <1>a, ClockTypes, <1>b, <1>c, ScheduleTypes DEF WakeToFailure, Due, TypeOK
<1>2. LoopAlone'
  BY <1>0, <1>a, ClockTypes, <1>b, <1>c, ScheduleTypes DEF WakeToFailure, Due, LoopAlone, Asleep
<1>3. WakesInTime'
  BY <1>0, <1>a, ClockTypes, <1>b, <1>c, ScheduleTypes DEF WakeToFailure, Due, WakesInTime, Asleep
<1>4. DeadlinesDated'
  BY <1>0, <1>a, ClockTypes, <1>b, <1>c, ScheduleTypes DEF WakeToFailure, Due, DeadlinesDated, Asleep
<1>5. PendingFresh'
  BY <1>0, <1>a, ClockTypes, <1>b, <1>c, ScheduleTypes DEF WakeToFailure, Due, PendingFresh, Asleep
<1>6. LateExplained'
  BY <1>0, <1>a, ClockTypes, <1>b, <1>c, ScheduleTypes DEF WakeToFailure, Due, LateExplained, Asleep
<1> QED BY <1>1, <1>2, <1>3, <1>4, <1>5, <1>6 DEF IInv

\* The schedule stands while the loop rotates.
LEMMA BeginRotationStep ==
  ASSUME IInv, BeginRotation
  PROVE  IInv'
<1>0. TypeOK /\ LoopAlone /\ WakesInTime /\ DeadlinesDated /\ PendingFresh /\ LateExplained
  BY DEF IInv
<1>a. wall' = mono' + offset'
  BY DEF wall
<1>b. loop' \in Loops /\ loop'.pc = "rotating"
  BY <1>0, ClockTypes DEF BeginRotation, Loops
<1>c. /\ loop.pc = "asleep" /\ ~manual.held
      /\ UNCHANGED <<mono, offset, policy, token, saved, schedule, manual, pending, since, born, late>>
  BY DEF BeginRotation, Due
<1>1. TypeOK'
  BY <1>0, <1>a, ClockTypes, <1>b, <1>c DEF TypeOK
<1>2. LoopAlone'
  BY <1>0, <1>a, ClockTypes, <1>b, <1>c DEF LoopAlone, Asleep
<1>3. WakesInTime'
  BY <1>0, <1>a, ClockTypes, <1>b, <1>c DEF WakesInTime, Asleep
<1>4. DeadlinesDated'
  BY <1>0, <1>a, ClockTypes, <1>b, <1>c DEF DeadlinesDated, Asleep
<1>5. PendingFresh'
  BY <1>0, <1>a, ClockTypes, <1>b, <1>c DEF PendingFresh, Asleep
<1>6. LateExplained'
  BY <1>0, <1>a, ClockTypes, <1>b, <1>c DEF LateExplained, Asleep
<1> QED BY <1>1, <1>2, <1>3, <1>4, <1>5, <1>6 DEF IInv

\* A rotation starts a period.
LEMMA CommitRotationStep ==
  ASSUME IInv, CommitRotation
  PROVE  IInv'
<1>0. TypeOK /\ LoopAlone /\ WakesInTime /\ DeadlinesDated /\ PendingFresh /\ LateExplained
  BY DEF IInv
<1>a. wall' = mono' + offset'
  BY DEF wall
<1>b. ScheduleFromNow \in Schedules
  BY <1>0, ScheduleTypes
<1>c. /\ schedule' = ScheduleFromNow /\ loop' \in Loops /\ loop'.pc = "asleep" /\ loop'.wake \in Int
      /\ ScheduleFromNow.failures = 0 =>
           /\ mono <= loop'.wake /\ loop'.wake - mono <= ClockCheckMax
           /\ mono <= ScheduleFromNow.deadlineMono => loop'.wake <= ScheduleFromNow.deadlineMono
  BY <1>0, <1>b, SleepEnds DEF CommitRotation
<1>d. /\ schedule'.failures = 0 /\ schedule'.deadline = wall + Period
      /\ schedule'.deadlineMono = mono + Period
      /\ mono <= loop'.wake /\ loop'.wake - mono <= ClockCheckMax
      /\ loop'.wake <= mono + Period
  <2>1. mono <= mono + Period
    BY <1>0, ClockTypes
  <2> QED BY <1>0, <1>c, <2>1, ScheduleTypes
<1>e. /\ loop.pc = "rotating" /\ token' = loop.new /\ late' = 0
      /\ since' = [mono |-> mono, wall |-> wall, age |-> 0] /\ born' = mono
      /\ UNCHANGED <<mono, offset, policy, saved, manual, pending>>
  BY DEF CommitRotation
<1>1. TypeOK'
  BY <1>0, <1>a, ClockTypes, <1>b, <1>c, <1>d, <1>e DEF TypeOK
<1>2. LoopAlone'
  BY <1>0, <1>a, ClockTypes, <1>b, <1>c, <1>d, <1>e DEF LoopAlone, Asleep
<1>3. WakesInTime'
  BY <1>0, <1>a, ClockTypes, <1>b, <1>c, <1>d, <1>e DEF WakesInTime, Asleep
<1>4. DeadlinesDated'
  BY <1>0, <1>a, ClockTypes, <1>b, <1>c, <1>d, <1>e DEF DeadlinesDated, Asleep
<1>5. PendingFresh'
  BY <1>0, <1>a, ClockTypes, <1>b, <1>c, <1>d, <1>e DEF PendingFresh, Asleep
<1>6. LateExplained'
  BY <1>0, <1>a, ClockTypes, <1>b, <1>c, <1>d, <1>e DEF LateExplained, Asleep
<1> QED BY <1>1, <1>2, <1>3, <1>4, <1>5, <1>6 DEF IInv

\* So does one by hand, when the loop sees it.
LEMMA SeeManualRotationStep ==
  ASSUME IInv, SeeManualRotation
  PROVE  IInv'
<1>0. TypeOK /\ LoopAlone /\ WakesInTime /\ DeadlinesDated /\ PendingFresh /\ LateExplained
  BY DEF IInv
<1>a. wall' = mono' + offset'
  BY DEF wall
<1>b. ScheduleFromNow \in Schedules
  BY <1>0, ScheduleTypes
<1>c. /\ schedule' = ScheduleFromNow /\ loop' \in Loops /\ loop'.pc = "asleep" /\ loop'.wake \in Int
      /\ ScheduleFromNow.failures = 0 =>
           /\ mono <= loop'.wake /\ loop'.wake - mono <= ClockCheckMax
           /\ mono <= ScheduleFromNow.deadlineMono => loop'.wake <= ScheduleFromNow.deadlineMono
  BY <1>0, <1>b, SleepEnds DEF SeeManualRotation
<1>d. /\ schedule'.failures = 0 /\ schedule'.deadline = wall + Period
      /\ schedule'.deadlineMono = mono + Period
      /\ mono <= loop'.wake /\ loop'.wake - mono <= ClockCheckMax
      /\ loop'.wake <= mono + Period
  <2>1. mono <= mono + Period
    BY <1>0, ClockTypes
  <2> QED BY <1>0, <1>c, <2>1, ScheduleTypes
<1>e. /\ loop.pc = "asleep" /\ pending /\ pending' = FALSE
      /\ UNCHANGED <<mono, offset, policy, token, saved, manual, since, born, late>>
  BY DEF SeeManualRotation
<1>f. since.mono = mono /\ since.wall = wall /\ since.age = 0 /\ late = 0
  BY <1>0, <1>e DEF PendingFresh, Asleep
<1>1. TypeOK'
  BY <1>0, <1>a, ClockTypes, <1>b, <1>c, <1>d, <1>e, <1>f DEF TypeOK
<1>2. LoopAlone'
  BY <1>0, <1>a, ClockTypes, <1>b, <1>c, <1>d, <1>e, <1>f DEF LoopAlone, Asleep
<1>3. WakesInTime'
  BY <1>0, <1>a, ClockTypes, <1>b, <1>c, <1>d, <1>e, <1>f DEF WakesInTime, Asleep
<1>4. DeadlinesDated'
  BY <1>0, <1>a, ClockTypes, <1>b, <1>c, <1>d, <1>e, <1>f DEF DeadlinesDated, Asleep
<1>5. PendingFresh'
  BY <1>0, <1>a, ClockTypes, <1>b, <1>c, <1>d, <1>e, <1>f DEF PendingFresh, Asleep
<1>6. LateExplained'
  BY <1>0, <1>a, ClockTypes, <1>b, <1>c, <1>d, <1>e, <1>f DEF LateExplained, Asleep
<1> QED BY <1>1, <1>2, <1>3, <1>4, <1>5, <1>6 DEF IInv

\* No rotation by hand begins beside the loop's.
LEMMA BeginManualStep ==
  ASSUME IInv, BeginManual
  PROVE  IInv'
<1>0. TypeOK /\ LoopAlone /\ WakesInTime /\ DeadlinesDated /\ PendingFresh /\ LateExplained
  BY DEF IInv
<1>a. wall' = mono' + offset'
  BY DEF wall
<1>1. TypeOK'
  BY <1>0, <1>a, ClockTypes DEF BeginManual, TypeOK
<1>2. LoopAlone'
  BY <1>0, <1>a, ClockTypes DEF BeginManual, LoopAlone, Asleep
<1>3. WakesInTime'
  BY <1>0, <1>a, ClockTypes DEF BeginManual, WakesInTime, Asleep
<1>4. DeadlinesDated'
  BY <1>0, <1>a, ClockTypes DEF BeginManual, DeadlinesDated, Asleep
<1>5. PendingFresh'
  BY <1>0, <1>a, ClockTypes DEF BeginManual, PendingFresh, Asleep
<1>6. LateExplained'
  BY <1>0, <1>a, ClockTypes DEF BeginManual, LateExplained, Asleep
<1> QED BY <1>1, <1>2, <1>3, <1>4, <1>5, <1>6 DEF IInv

\* A rotation by hand is announced to the loop.
LEMMA CommitManualStep ==
  ASSUME IInv, CommitManual
  PROVE  IInv'
<1>0. TypeOK /\ LoopAlone /\ WakesInTime /\ DeadlinesDated /\ PendingFresh /\ LateExplained
  BY DEF IInv
<1>a. wall' = mono' + offset'
  BY DEF wall
<1>b. /\ manual.held /\ manual' \in [held : BOOLEAN, new : Int] /\ ~manual'.held
      /\ token' = manual.new /\ late' = 0
      /\ since' = [mono |-> mono, wall |-> wall, age |-> 0] /\ born' = mono
      /\ UNCHANGED <<mono, offset, policy, saved, schedule, loop>>
  BY DEF CommitManual, NoManual
<1>c. pending' \in BOOLEAN /\ (pending' <=> loop.pc # "none")
  BY <1>0 DEF CommitManual, TypeOK
<1>d. /\ since'.mono = mono /\ since'.wall = wall /\ since'.age = 0
      /\ since' \in [mono : Int, wall : Int, age : Int]
  BY <1>0, <1>b, ClockTypes
<1>1. TypeOK'
  BY <1>0, <1>a, ClockTypes, <1>b, <1>c, <1>d DEF TypeOK
<1>2. LoopAlone'
  BY <1>0, <1>a, ClockTypes, <1>b, <1>c, <1>d DEF LoopAlone, Asleep
<1>3. WakesInTime'
  BY <1>0, <1>a, ClockTypes, <1>b, <1>c, <1>d DEF WakesInTime, Asleep
<1>4. DeadlinesDated'
  BY <1>0, <1>a, ClockTypes, <1>b, <1>c, <1>d DEF DeadlinesDated, Asleep
<1>5. PendingFresh'
  BY <1>0, <1>a, ClockTypes, <1>b, <1>c, <1>d DEF PendingFresh, Asleep
<1>6. LateExplained'
  BY <1>0, <1>a, ClockTypes, <1>b, <1>c, <1>d DEF LateExplained, Asleep
<1> QED BY <1>1, <1>2, <1>3, <1>4, <1>5, <1>6 DEF IInv

\* Time passes only while nothing is due.
LEMMA TickStep ==
  ASSUME IInv, NEW t \in Offsets, Tick(t)
  PROVE  IInv'
<1>0. TypeOK /\ LoopAlone /\ WakesInTime /\ DeadlinesDated /\ PendingFresh /\ LateExplained
  BY DEF IInv
<1>a. wall' = mono' + offset'
  BY DEF wall
<1>1. TypeOK'
  BY <1>0, <1>a, ClockTypes, OffsetsAssumption, BoundsAssumption DEF Tick, Idle, Due, TypeOK
<1>2. LoopAlone'
  BY <1>0, <1>a, ClockTypes, OffsetsAssumption, BoundsAssumption DEF Tick, Idle, Due, LoopAlone, Asleep
<1>3. WakesInTime'
  BY <1>0, <1>a, ClockTypes, OffsetsAssumption, BoundsAssumption DEF Tick, Idle, Due, WakesInTime, Asleep
<1>4. DeadlinesDated'
  BY <1>0, <1>a, ClockTypes, OffsetsAssumption, BoundsAssumption DEF Tick, Idle, Due, DeadlinesDated, Asleep
<1>5. PendingFresh'
  BY <1>0, <1>a, ClockTypes, OffsetsAssumption, BoundsAssumption DEF Tick, Idle, Due, PendingFresh, Asleep
<1>6. LateExplained'
  BY <1>0, <1>a, ClockTypes, OffsetsAssumption, BoundsAssumption DEF Tick, Idle, Due, LateExplained, Asleep
<1> QED BY <1>1, <1>2, <1>3, <1>4, <1>5, <1>6 DEF IInv

-----------------------------------------------------------------------------
(* Theorems *)

\* The invariant holds before a service is published.
LEMMA Initially == Init => IInv
<1> SUFFICES ASSUME Init PROVE IInv
  OBVIOUS
<1>1. loop.pc = "none" /\ loop \in Loops /\ schedule \in Schedules
  BY BoundsAssumption DEF Init, NoLoop, NoSchedule, Loops, Schedules
<1>2. saved \in [known : BOOLEAN, created : Int, born : Int] /\ manual \in [held : BOOLEAN, new : Int]
  BY DEF Init, NotSaved, NoManual
<1>3. /\ mono \in 0 .. MaxTime /\ token = 0 /\ late = 0 /\ policy = "none" /\ offset \in Offsets
  BY BoundsAssumption DEF Init
<1>b. since \in [mono : Int, wall : Int, age : Int] /\ born \in Int
  BY DEF Init, NoSince
<1>c. pending \in BOOLEAN
  BY DEF Init
<1>4. TypeOK
  BY <1>1, <1>2, <1>3, <1>b, <1>c DEF TypeOK
<1> QED
  BY <1>1, <1>4 DEF Init, NoManual, IInv, LoopAlone, WakesInTime, DeadlinesDated, PendingFresh, LateExplained,
     Asleep

\* Every step keeps the invariant.
LEMMA Inductive == IInv /\ [Next]_vars => IInv'
<1>1. IInv /\ UNCHANGED vars => IInv'
  BY DEF vars, IInv, TypeOK, LoopAlone, WakesInTime, DeadlinesDated, PendingFresh, LateExplained,
     Asleep, wall
<1> QED
  BY <1>1, StartAfterStep, StartUnscheduledStep, SaveStep, StopStep, WakeForNothingStep, WakeToConflictStep, WakeToFailureStep, BeginRotationStep, CommitRotationStep, SeeManualRotationStep, BeginManualStep, CommitManualStep, TickStep
  DEF Next, UserNext, LoopNext, TimePasses

\* IInv is an inductive invariant of the schedule.
THEOREM Invariance == Spec => []IInv
BY Initially, Inductive, PTL DEF Spec

\* Every variable keeps its type, and the loop runs under After only.
THEOREM TypeCorrect == Spec => []TypeOK
<1>1. IInv => TypeOK
  BY DEF IInv
<1> QED BY <1>1, Invariance, PTL

\* The monotonic deadline of rotation_loop bounds the life of a token in one process,
\* and over a restart whose clock does not make it look younger, by one period.
THEOREM TokensAreReplaced == Spec => []TokenNeverOverstays
<1>1. IInv => TokenNeverOverstays
  <2> SUFFICES ASSUME IInv, loop.pc = "asleep", schedule.failures = 0
               PROVE  /\ mono - since.mono <= Period
                      /\ since.mono - born <= since.age => mono - born <= Period
    BY DEF TokenNeverOverstays
  <2>1. /\ TypeOK /\ 0 <= since.age /\ mono <= schedule.deadlineMono
        /\ schedule.deadlineMono <= since.mono - since.age + Period
    BY ClockTypes DEF IInv, WakesInTime, DeadlinesDated, Asleep
  <2> QED BY <2>1, ClockTypes
<1> QED BY <1>1, Invariance, PTL

\* The sleep cut at ROTATION_CLOCK_CHECK_MAX notices a wall clock that was set.
THEOREM WallExpiryIsNoticed == Spec => []WallExpiryNoticed
<1>1. IInv => WallExpiryNoticed
  <2> SUFFICES ASSUME IInv, loop.pc = "asleep", schedule.failures = 0
               PROVE  late <= ClockCheckMax
    BY DEF WallExpiryNoticed
  <2>1. TypeOK /\ mono <= loop.wake /\ late + loop.wake - mono <= ClockCheckMax
    BY DEF IInv, WakesInTime, Asleep
  <2> QED BY <2>1, ClockTypes
<1> QED BY <1>1, Invariance, PTL

\* resolve_token_state never gives a restarted service a longer period.
THEOREM DeadlinesAreWithinPeriod == Spec => []DeadlineWithinPeriod
<1>1. IInv => DeadlineWithinPeriod
  <2> SUFFICES ASSUME IInv, loop.pc # "none"
               PROVE  schedule.deadlineMono - mono <= Period
    BY DEF DeadlineWithinPeriod
  <2>1. /\ TypeOK /\ since.mono <= mono /\ 0 <= since.age
        /\ schedule.deadlineMono <= since.mono - since.age + Period
    BY DEF IInv, DeadlinesDated
  <2> QED BY <2>1, ClockTypes
<1> QED BY <1>1, Invariance, PTL

\* A rotation by hand puts off the automatic one by a whole period.
THEOREM NoneRotatesEarly == Spec => NoEarlyRotation
<1> DEFINE InTime == loop.pc = "asleep" /\ loop'.pc = "rotating" =>
                       \/ mono - since.mono + since.age >= Period
                       \/ wall - since.wall + since.age >= Period
                       \/ pending
                       \/ schedule.failures > 0
<1>1. ASSUME IInv, [Next]_vars PROVE [InTime]_vars
  <2> SUFFICES ASSUME loop.pc = "asleep", loop'.pc = "rotating"
               PROVE  \/ mono - since.mono + since.age >= Period
                      \/ wall - since.wall + since.age >= Period
                      \/ pending
                      \/ schedule.failures > 0
    OBVIOUS
  <2>1. ASSUME NEW s, Sleep(s) PROVE loop'.pc = "asleep"
    BY <2>1 DEF Sleep
  <2>2. BeginRotation
    BY <1>1, <2>1 DEF Next, UserNext, LoopNext, TimePasses, StartAfter, StartUnscheduled, Save, Stop,
       NoLoop, WakeForNothing, WakeToConflict, WakeToFailure, CommitRotation, SeeManualRotation,
       BeginManual, CommitManual, Tick, vars
  <2>3. TypeOK /\ DeadlinesDated
    BY <1>1 DEF IInv
  <2>4. \/ schedule.failures > 0
        \/ wall >= schedule.deadline
        \/ mono >= schedule.deadlineMono
    BY <2>2 DEF BeginRotation, ShouldRotate
  <2> QED BY <2>3, <2>4, ClockTypes DEF DeadlinesDated
<1> QED BY <1>1, Invariance, PTL DEF Spec, NoEarlyRotation

-----------------------------------------------------------------------------
(* The loop sleeps whenever it waits *)

\* A schedule that retries, or whose deadlines are both to come, gives a delay.
LEMMA SleepLasts ==
  ASSUME TypeOK, NEW s \in Schedules, Sleep(s),
         \/ s.failures > 0
         \/ s.deadline > wall /\ s.deadlineMono > mono
  PROVE  loop'.wake > mono
<1>1. s.deadline \in Int /\ s.deadlineMono \in Int /\ s.failures \in 0 .. MaxFailures
  BY DEF Schedules
<1>2. Delay(s) \in Nat /\ Delay(s) > 0
  <2>1. CASE s.failures > 0
    BY <1>1, <2>1, RetryAssumption, BoundsAssumption DEF Delay
  <2>2. CASE ~(s.failures > 0)
    BY <1>1, <2>2, ClockTypes DEF Delay, AtMost, AtLeast
  <2> QED BY <2>1, <2>2
<1>3. loop'.wake = mono + Delay(s)
  BY DEF Sleep
<1> QED BY <1>2, <1>3, ClockTypes

\* A start under After leaves some of the period to the token it takes up.
LEMMA StartSleeps ==
  ASSUME TypeOK, StartAfter
  PROVE  loop'.wake > mono
<1> DEFINE c == IF Usable THEN saved.created ELSE wall
<1> DEFINE remaining == c + Period - wall
<1> DEFINE s == [deadline |-> c + Period, deadlineMono |-> mono + remaining, failures |-> 0]
<1>1. Sleep(s)
  BY DEF StartAfter
<1>2. c \in Int /\ remaining \in Int /\ remaining > 0 /\ c + Period > wall
  BY ClockTypes DEF Usable
<1>3. /\ s \in Schedules /\ s.deadline = c + Period /\ s.deadlineMono = mono + remaining
  <2> HIDE DEF c, remaining
  <2> QED BY <1>2, ClockTypes, BoundsAssumption DEF Schedules
<1> HIDE DEF c, remaining, s
<1>4. s.deadline > wall /\ s.deadlineMono > mono
  BY <1>2, <1>3, ClockTypes
<1> QED BY <1>1, <1>3, <1>4, SleepLasts

\* select! never polls a sleep that is already over: from any state of Invariance, what
\* starts or wakes rotation_loop (nothing due, a rotation by hand that holds
\* token_rotation, a failure, a rotation, the news of one by hand) and ends asleep ends
\* with a delay that is not zero.  A step that sets the same sleep again is no exception.
THEOREM SleepsAlwaysLast ==
  ASSUME IInv, StartAfter \/ LoopNext, loop'.pc = "asleep"
  PROVE  loop'.wake > mono'
<1>0. TypeOK
  BY DEF IInv
<1>1. CASE StartAfter
  BY <1>0, <1>1, StartSleeps DEF StartAfter
<1>2. CASE WakeForNothing
  <2>1. schedule.deadline > wall /\ schedule.deadlineMono > mono /\ schedule \in Schedules
    BY <1>0, <1>2, ClockTypes DEF WakeForNothing, ShouldRotate
  <2>2. Sleep(schedule) /\ mono' = mono
    BY <1>2 DEF WakeForNothing
  <2> QED BY <1>0, <2>1, <2>2, SleepLasts
<1>3. CASE WakeToConflict \/ WakeToFailure
  <2>1. Sleep(FailureRecorded) /\ mono' = mono
    BY <1>3 DEF WakeToConflict, WakeToFailure
  <2> QED BY <1>0, <2>1, ScheduleTypes, SleepLasts
<1>4. CASE CommitRotation \/ SeeManualRotation
  <2>1. Sleep(ScheduleFromNow) /\ mono' = mono
    BY <1>4 DEF CommitRotation, SeeManualRotation
  <2>2. ScheduleFromNow.deadline > wall /\ ScheduleFromNow.deadlineMono > mono
    BY <1>0, ScheduleTypes, ClockTypes
  <2> QED BY <1>0, <2>1, <2>2, ScheduleTypes, SleepLasts
<1>5. ASSUME BeginRotation PROVE loop'.pc = "rotating"
  BY <1>0, <1>5, ClockTypes DEF BeginRotation, Loops
<1> QED BY <1>1, <1>2, <1>3, <1>4, <1>5 DEF LoopNext

=============================================================================
