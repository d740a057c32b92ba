------------------------------ MODULE Rotation ------------------------------
(***************************************************************************)
(* When a token is rotated: the rotation loop of one published service,    *)
(* its RotationSchedule and resolve_token_state of                         *)
(* core/src/tunnel/iroh/node.rs, with the two clocks they read.            *)
(*                                                                         *)
(* The monotonic clock ticks.  The wall clock is that clock plus an offset *)
(* that whoever sets the clock may change at any tick, so it may jump in   *)
(* both directions.  The loop is taken to run as soon as it can: time      *)
(* passes only while the loop sleeps or a rotation is under way.  Times    *)
(* are whole ticks, and a token is represented by its creation time.       *)
(*                                                                         *)
(* A user may rotate by hand, save the TokenState, stop the service and    *)
(* publish it again from the saved state under any refresh policy, which   *)
(* is what a restart of the program comes to.  What a rotation does to the *)
(* registry, and the rotations that a stop interrupts, are the business of *)
(* module HostNode: here a stop ends them.  Overflow of a clock is left    *)
(* out.                                                                    *)
(***************************************************************************)
EXTENDS Integers

CONSTANTS
  Period,         \* The period of TokenRefreshPolicy::After.
  ClockCheckMax,  \* ROTATION_CLOCK_CHECK_MAX.
  RetryMin,       \* ROTATION_RETRY_MIN.
  RetryMax,       \* ROTATION_RETRY_MAX.
  Offsets,        \* What the wall clock may be ahead of the monotonic clock.
  MaxTime,        \* Bound on the monotonic clock.
  MaxFailures     \* Failures from which on the retry delay is the same.

ASSUME DurationsAssumption ==
  /\ Period \in Nat \ {0} /\ ClockCheckMax \in Nat \ {0}
  /\ RetryMin \in Nat \ {0} /\ RetryMax \in Nat \ {0}
ASSUME BoundsAssumption ==
  /\ MaxTime \in Nat /\ MaxFailures \in Nat \ {0}
  /\ RetryMin * 2 ^ (MaxFailures - 1) >= RetryMax
ASSUME OffsetsAssumption == Offsets \subseteq Int

VARIABLES
  mono,       \* Instant::now().
  offset,     \* SystemTime::now() less Instant::now().
  policy,     \* token_refresh of the published service, or "none".
  token,      \* created_at of its current token.
  saved,      \* created_at of the saved TokenState.
  schedule,   \* The loop's RotationSchedule.
  loop,       \* Where the loop is, and when it wakes up.
  manual,     \* The rotation by hand that holds token_rotation, if any.
  pending,    \* Whether the loop has yet to see a rotation by hand.
  since,      \* History: when this process began to serve the token, and its age then.
  born,       \* History: when the token first took effect, by the monotonic clock.
  late        \* History: ticks at which the wall clock was past the deadline.

vars == <<mono, offset, policy, token, saved, schedule, loop, manual, pending,
          since, born, late>>

-----------------------------------------------------------------------------
(* Types and helpers *)

wall == mono + offset

Policies == {"Always", "Never", "After"}

NotSaved == [known |-> FALSE, created |-> 0, born |-> 0]
NoSchedule == [deadline |-> 0, deadlineMono |-> 0, failures |-> 0]
NoSince == [mono |-> 0, wall |-> 0, age |-> 0]
NoManual == [held |-> FALSE, new |-> 0]
NoLoop == [pc |-> "none", wake |-> 0, new |-> 0]

AtMost(a, b) == IF a < b THEN a ELSE b
AtLeast(a, b) == IF a > b THEN a ELSE b

\* retry_delay
RetryDelay(failures) == AtMost(RetryMin * 2 ^ (failures - 1), RetryMax)

\* A retry waits for some time; the provers know no powers.
ASSUME RetryAssumption == \A f \in 1 .. MaxFailures : RetryDelay(f) \in Nat \ {0}

\* Mutant: the sleep is not cut at ROTATION_CLOCK_CHECK_MAX.
DelayUncapped(s) ==
  IF s.failures > 0 THEN RetryDelay(s.failures)
  ELSE AtMost(AtLeast(s.deadline - wall, 0), AtLeast(s.deadlineMono - mono, 0))

\* RotationSchedule::delay
Delay(s) ==
  IF s.failures > 0 THEN RetryDelay(s.failures)
  ELSE AtMost(AtMost(AtLeast(s.deadline - wall, 0), AtLeast(s.deadlineMono - mono, 0)),
              ClockCheckMax)

\* should_rotate
ShouldRotate ==
  schedule.failures > 0 \/ wall >= schedule.deadline \/ mono >= schedule.deadlineMono

\* The schedule after reset, and after record_failure.
ScheduleFromNow ==
  [deadline |-> wall + Period, deadlineMono |-> mono + Period, failures |-> 0]

\* Mutant: a rotation in progress does not count as a failure.
NoFailureRecorded == schedule

FailureRecorded ==
  [schedule EXCEPT !.failures = AtMost(schedule.failures + 1, MaxFailures)]

\* The loop goes back to its select! with the schedule s.
Sleep(s) ==
  /\ schedule' = s
  /\ loop' = [pc |-> "asleep", wake |-> mono + Delay(s), new |-> 0]

Due == loop.pc = "asleep" /\ mono >= loop.wake

Schedules == [deadline : Int, deadlineMono : Int, failures : 0 .. MaxFailures]
Loops == [pc : {"none", "asleep", "rotating"}, wake : Int, new : Int]

TypeOK ==
  /\ mono \in 0 .. MaxTime
  /\ offset \in Offsets
  /\ policy \in Policies \cup {"none"}
  /\ token \in Int
  /\ saved \in [known : BOOLEAN, created : Int, born : Int]
  /\ schedule \in Schedules
  /\ loop \in Loops
  /\ loop.pc # "none" <=> policy = "After"
  /\ manual \in [held : BOOLEAN, new : Int]
  /\ pending \in BOOLEAN
  /\ since \in [mono : Int, wall : Int, age : Int]
  /\ born \in Int
  /\ late \in Nat

Init ==
  /\ mono = 0
  /\ offset \in Offsets
  /\ policy = "none"
  /\ token = 0
  /\ saved = NotSaved
  /\ schedule = NoSchedule
  /\ loop = NoLoop
  /\ manual = NoManual
  /\ pending = FALSE
  /\ since = NoSince
  /\ born = 0
  /\ late = 0

-----------------------------------------------------------------------------
(* Publishing a service, saving its token, stopping it *)

\* Mutant: a token that was created in the future is used.
UsableFromFuture == saved.known /\ saved.created + Period > wall

\* resolve_token_state under After: the saved token, unless it was created in the
\* future or its time is over.
Usable == saved.known /\ saved.created <= wall /\ saved.created + Period > wall

\* start_service under After spawns the loop with a deadline by either clock.
StartAfter ==
  LET created == IF Usable THEN saved.created ELSE wall
      remaining == created + Period - wall
  IN  /\ policy = "none"
      /\ policy' = "After"
      /\ token' = created
      /\ Sleep([deadline |-> created + Period, deadlineMono |-> mono + remaining,
                failures |-> 0])
      /\ since' = [mono |-> mono, wall |-> wall, age |-> wall - created]
      /\ born' = IF Usable THEN saved.born ELSE mono
      /\ late' = 0
      /\ UNCHANGED <<mono, offset, saved, manual, pending>>

\* Under Never the saved token is used as it is; under Always it is not used.
StartUnscheduled(p) ==
  LET keeps == p = "Never" /\ saved.known
      created == IF keeps THEN saved.created ELSE wall
  IN  /\ p \in {"Never", "Always"}
      /\ policy = "none"
      /\ policy' = p
      /\ token' = created
      /\ since' = [mono |-> mono, wall |-> wall, age |-> wall - created]
      /\ born' = IF keeps THEN saved.born ELSE mono
      /\ late' = 0
      /\ UNCHANGED <<mono, offset, saved, schedule, loop, manual, pending>>

\* The instance manager saves what token_state returns.
Save ==
  /\ policy # "none" /\ ~manual.held /\ loop.pc # "rotating"
  /\ saved' = [known |-> TRUE, created |-> token, born |-> born]
  /\ UNCHANGED <<mono, offset, policy, token, schedule, loop, manual, pending, since, born, late>>

Stop ==
  /\ policy # "none"
  /\ policy' = "none"
  /\ token' = 0
  /\ schedule' = NoSchedule
  /\ loop' = NoLoop
  /\ manual' = NoManual
  /\ pending' = FALSE
  /\ since' = NoSince
  /\ born' = 0
  /\ late' = 0
  /\ UNCHANGED <<mono, offset, saved>>

-----------------------------------------------------------------------------
(* rotation_loop *)

\* It wakes up and finds that nothing is due.
WakeForNothing ==
  /\ Due
  /\ ~ShouldRotate
  /\ Sleep(schedule)
  /\ UNCHANGED <<mono, offset, policy, token, saved, manual, pending, since, born, late>>

\* RotationInProgress
WakeToConflict ==
  /\ Due
  /\ ShouldRotate
  /\ manual.held
  /\ Sleep(FailureRecorded)
  /\ UNCHANGED <<mono, offset, policy, token, saved, manual, pending, since, born, late>>

\* rotate_token_inner fails otherwise; the retry is announced.
WakeToFailure ==
  /\ Due
  /\ ShouldRotate
  /\ ~manual.held
  /\ Sleep(FailureRecorded)
  /\ UNCHANGED <<mono, offset, policy, token, saved, manual, pending, since, born, late>>

\* rotate_token_inner up to its second look at the registry.
BeginRotation ==
  /\ Due
  /\ ShouldRotate
  /\ ~manual.held
  /\ loop' = [loop EXCEPT !.pc = "rotating", !.new = wall]
  /\ UNCHANGED <<mono, offset, policy, token, saved, schedule, manual, pending, since, born, late>>

\* The rest of it, and the reset of the schedule.
CommitRotation ==
  /\ loop.pc = "rotating"
  /\ token' = loop.new
  /\ Sleep(ScheduleFromNow)
  /\ since' = [mono |-> mono, wall |-> wall, age |-> 0]
  /\ born' = mono
  /\ late' = 0
  /\ UNCHANGED <<mono, offset, policy, saved, manual, pending>>

\* The other branch of the select!: a rotation by hand resets the schedule.  When
\* the sleep has ended too, either branch may be taken.
SeeManualRotation ==
  /\ loop.pc = "asleep"
  /\ pending
  /\ pending' = FALSE
  /\ Sleep(ScheduleFromNow)
  /\ UNCHANGED <<mono, offset, policy, token, saved, manual, since, born, late>>

-----------------------------------------------------------------------------
(* rotate_token *)

\* A call that finds token_rotation taken changes nothing.
BeginManual ==
  /\ policy # "none" /\ ~manual.held /\ loop.pc # "rotating"
  /\ manual' = [held |-> TRUE, new |-> wall]
  /\ UNCHANGED <<mono, offset, policy, token, saved, schedule, loop, pending, since, born, late>>

\* Mutant: a rotation by hand does not tell the loop.
CommitManualSilently ==
  /\ manual.held
  /\ manual' = NoManual
  /\ token' = manual.new
  /\ since' = [mono |-> mono, wall |-> wall, age |-> 0]
  /\ born' = mono
  /\ late' = 0
  /\ UNCHANGED <<mono, offset, policy, saved, schedule, loop, pending>>

CommitManual ==
  /\ manual.held
  /\ manual' = NoManual
  /\ token' = manual.new
  /\ pending' = (policy = "After")
  /\ since' = [mono |-> mono, wall |-> wall, age |-> 0]
  /\ born' = mono
  /\ late' = 0
  /\ UNCHANGED <<mono, offset, policy, saved, schedule, loop>>

-----------------------------------------------------------------------------
(* Time *)

\* The loop has nothing to do now.
Idle == ~Due /\ (pending => loop.pc # "asleep")

Tick(o) ==
  /\ Idle
  /\ mono < MaxTime
  /\ mono' = mono + 1
  /\ offset' = o
  /\ late' = IF policy = "After" /\ mono' + o >= schedule.deadline THEN late + 1 ELSE 0
  /\ UNCHANGED <<policy, token, saved, schedule, loop, manual, pending, since, born>>

-----------------------------------------------------------------------------
UserNext ==
  \/ StartAfter \/ StartUnscheduled("Never") \/ StartUnscheduled("Always")
  \/ Save \/ Stop
  \/ BeginManual \/ CommitManual

LoopNext ==
  \/ WakeForNothing \/ WakeToConflict \/ WakeToFailure
  \/ BeginRotation \/ CommitRotation \/ SeeManualRotation

TimePasses == \E o \in Offsets : Tick(o)

Next == UserNext \/ LoopNext \/ TimePasses

(***************************************************************************)
(* The loop goes on when it can, and time passes when it may.  A user may  *)
(* act any number of times between two ticks, so the clock has to be       *)
(* strongly fair.                                                          *)
(***************************************************************************)
Spec == Init /\ [][Next]_vars
FairSpec == Spec /\ WF_vars(LoopNext) /\ SF_vars(TimePasses)

-----------------------------------------------------------------------------
(* Safety *)

\* A token is replaced in time: no process serves one for longer than a period, and
\* over stops and restarts it lives no longer than a period either, unless the wall
\* clock made it look younger at the restart than it was.  (A clock that was set back
\* does prolong it, by up to a period each time.)  Only a loop that has failed and
\* retries lets it live on.
TokenNeverOverstays ==
  loop.pc = "asleep" /\ schedule.failures = 0 =>
    /\ mono - since.mono <= Period
    /\ since.mono - born <= since.age => mono - born <= Period

\* A wall clock that is past the deadline, because time passed or because it was
\* set, is noticed within ROTATION_CLOCK_CHECK_MAX.
WallExpiryNoticed ==
  loop.pc = "asleep" /\ schedule.failures = 0 => late <= ClockCheckMax

\* No deadline is further away than one period, also after a restart with a wall
\* clock that is behind the one the token was saved under.
DeadlineWithinPeriod ==
  loop.pc # "none" => schedule.deadlineMono - mono <= Period

\* The loop never replaces a token younger than the period by both clocks, unless
\* it retries or a rotation by hand has come about that it has yet to see: a
\* rotation by hand resets the automatic deadline.
NoEarlyRotation ==
  [][loop.pc = "asleep" /\ loop'.pc = "rotating" =>
       \/ mono - since.mono + since.age >= Period
       \/ wall - since.wall + since.age >= Period
       \/ pending
       \/ schedule.failures > 0]_vars

-----------------------------------------------------------------------------
(* Liveness *)

\* The loop never spins: between two ticks it wakes up finitely often, conflicts
\* and failures included.
LoopNeverSpins == \A t \in 0 .. MaxTime - 1 : (mono = t) ~> (mono > t)
=============================================================================
