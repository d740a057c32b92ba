-------------------------- MODULE TunnelLifecycle --------------------------
(***************************************************************************)
(* What a TunnelService promises about lifecycles, whatever its tasks do:  *)
(* there is at most one at a time, each goes from Starting at most to      *)
(* Active, and one that is over, because it failed, was cancelled or was   *)
(* stopped, never comes back.                                              *)
(***************************************************************************)
CONSTANTS
  Life,         \* Names of lifecycles.
  NoLife,       \* No lifecycle.
  StopMayDrop   \* Whether a stop may be given up before it says it is stopping.

VARIABLES
  phase,        \* Phase of the service.
  life,         \* The lifecycle that is Starting or Active.
  over          \* Lifecycles that are over.

lvars == <<phase, life, over>>

Init ==
  /\ phase = "Idle"
  /\ life = NoLife
  /\ over = {}

Start(o) ==
  /\ phase = "Idle"
  /\ o \notin over
  /\ phase' = "Starting"
  /\ life' = o
  /\ UNCHANGED over

\* Only the start that is under way becomes active.
Activate ==
  /\ phase = "Starting"
  /\ phase' = "Active"
  /\ UNCHANGED <<life, over>>

Ends(next) ==
  /\ phase' = next
  /\ over' = over \cup {life}
  /\ life' = NoLife

\* A start fails, is cancelled or is given up.
Abandon == phase = "Starting" /\ Ends("Idle")

Stop == phase = "Active" /\ Ends("Stopping")

\* A stop is dropped while it still waits for the event task.
LoseTunnel == StopMayDrop /\ phase = "Active" /\ Ends("Idle")

Stopped ==
  /\ phase = "Stopping"
  /\ phase' = "Idle"
  /\ UNCHANGED <<life, over>>

Next ==
  \/ \E o \in Life : Start(o)
  \/ Activate \/ Abandon \/ Stop \/ LoseTunnel \/ Stopped

Spec == Init /\ [][Next]_lvars
=============================================================================
