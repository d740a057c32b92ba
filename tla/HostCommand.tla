------------------------------ MODULE HostCommand ------------------------------
(***************************************************************************)
(* `sculk host' (cli/src/main.rs) from launch to launch: one process at a  *)
(* time that loads the saved host state, publishes a service, saves and    *)
(* prints its Join URI, and does both again for every rotation that its    *)
(* status subscription (iroh/node.rs) reports.                             *)
(*                                                                         *)
(* A launch may name another refresh policy, ask for a new URI or for a    *)
(* new key.  The process may be killed at any moment, and what it kept in  *)
(* files is what the next one finds.  Rotations run beside the command's   *)
(* own steps: the token changes first, the generation in the status later, *)
(* and only token_state and join_uri wait for the one in progress.         *)
(*                                                                         *)
(* A Join URI is the record of the key, the service id and the token in    *)
(* it; keys, ids and tokens are numbered as they are generated.  There are *)
(* several timed policies, of some ticks each of a clock that never goes   *)
(* back: what the loop does when it does, or when a rotation fails, is the *)
(* business of module Rotation.  That a file is replaced whole, or not at  *)
(* all, is shown for module AtomicFile.  The relay URL, events and what    *)
(* else is printed are left out.                                           *)
(***************************************************************************)
EXTENDS Naturals

CONSTANTS
  Periods,      \* Ages at which the timed policies rotate a token.
  MaxTime,      \* Bound on the clock.
  MaxTokens,    \* Bound on tokens generated.
  MaxLaunches   \* Bound on launches.

ASSUME PeriodsAssumption == Periods \subseteq Nat \ {0}
ASSUME BoundsAssumption == MaxTime \in Nat /\ MaxTokens \in Nat /\ MaxLaunches \in Nat

VARIABLES
  now,        \* The wall clock.
  nextToken,  \* The next token AccessToken::generate returns.
  launches,   \* Launches so far; they number the keys and ids they generate.
  key,        \* The key file.
  policy,     \* HostProfile.token_refresh in the profile file.
  file,       \* The host state file.
  printed,    \* The last Join URI printed.
  pc,         \* Where the process is.
  loaded,     \* The host state the process loaded.
  newUri,     \* --new-uri
  service,    \* The published service: its id, token and token_created_at.
  gen,        \* HostedServiceStatus.uri_generation.
  rotation,   \* The rotation that holds token_rotation and has written the token, and
              \* the creation time it has taken.
  changed,    \* The status subscription has something to report.
  uriGen,     \* uri_generation of run_host_until_shutdown.
  settled,    \* History: what the last process had printed was what it served.
  retired     \* History: the period under which a rotation replaced a token, or 0.

vars == <<now, nextToken, launches, key, policy, file, printed, pc, loaded, newUri,
          service, gen, rotation, changed, uriGen, settled, retired>>

disk == <<key, policy, file>>
history == <<settled, retired>>

-----------------------------------------------------------------------------
(* Types and helpers *)

None == 0

\* TokenRefresh::policy
Always == [kind |-> "always", period |-> 0]
Never == [kind |-> "never", period |-> 0]
After(period) == [kind |-> "after", period |-> period]
Policies == {Always, Never} \cup {After(d) : d \in Periods}
Timed == policy.kind = "after"

Pcs == {"down", "binding", "subscribing", "reading", "saving", "printing", "loop", "closing"}

\* HostState, and what a published service has of it; id None stands for no file.
HostStates == [id : 0 .. MaxLaunches, token : 0 .. MaxTokens, created : 0 .. MaxTime]
NoState == [id |-> None, token |-> None, created |-> 0]

\* JoinUri
Links == [key : 0 .. MaxLaunches, id : 0 .. MaxLaunches, token : 0 .. MaxTokens]
NoRotation == [held |-> FALSE, at |-> 0]

NoLink == [key |-> None, id |-> None, token |-> None]
JoinUri == [key |-> key, id |-> service.id, token |-> service.token]

Published == pc \notin {"down", "binding"}

TypeOK ==
  /\ now \in 0 .. MaxTime
  /\ nextToken \in 1 .. MaxTokens + 1
  /\ launches \in 0 .. MaxLaunches
  /\ key \in 0 .. MaxLaunches
  /\ policy \in Policies
  /\ file \in HostStates
  /\ printed \in Links
  /\ pc \in Pcs
  /\ loaded \in HostStates
  /\ newUri \in BOOLEAN
  /\ service \in HostStates
  /\ gen \in Nat /\ uriGen \in Nat
  /\ rotation \in [held : BOOLEAN, at : 0 .. MaxTime]
  /\ changed \in BOOLEAN
  /\ settled \in BOOLEAN
  /\ retired \in [0 .. MaxTokens -> Nat]

\* A machine on which sculk has not run: the profile has its default policy.
Init ==
  /\ now = 0
  /\ nextToken = 1
  /\ launches = 0
  /\ key = None
  /\ policy = Always
  /\ file = NoState
  /\ printed = NoLink
  /\ pc = "down"
  /\ loaded = NoState
  /\ newUri = FALSE
  /\ service = NoState
  /\ gen = 0 /\ uriGen = 0
  /\ rotation = NoRotation
  /\ changed = FALSE
  /\ settled = FALSE
  /\ retired = [t \in 0 .. MaxTokens |-> 0]

-----------------------------------------------------------------------------
(* Launch *)

\* The command line: a key is generated on demand or when there is none, a policy
\* that is given is saved in the profile, and the host state is loaded.
Launch(newKey, p, fresh) ==
  /\ pc = "down"
  /\ launches < MaxLaunches
  /\ launches' = launches + 1
  /\ key' = IF newKey \/ key = None THEN launches + 1 ELSE key
  /\ policy' = p
  /\ loaded' = file
  /\ newUri' = fresh
  /\ pc' = "binding"
  /\ settled' = (settled /\ ~newKey)
  /\ UNCHANGED <<now, nextToken, file, printed, service, gen, rotation, changed, uriGen,
                 retired>>

\* SculkNode::bind or start_service fails.
BindFails ==
  /\ pc = "binding"
  /\ pc' = "down"
  /\ UNCHANGED <<now, nextToken, launches, disk, printed, loaded, newUri, service, gen,
                 rotation, changed, uriGen, history>>

\* Mutant: a token is still good at its deadline.
ExpiredAfter(state) == state.created + policy.period < now

\* The deadline of a saved token, under a timed policy.
Expired(state) == state.created + policy.period <= now

\* Mutant: a timed policy starts every process with a new token.
KeepsUnderNever(state) == state # NoState /\ policy = Never

\* resolve_token_state keeps the saved token.
KeepsToken(state) ==
  /\ state # NoState
  /\ \/ policy = Never
     \/ Timed /\ state.created <= now /\ ~Expired(state)

\* start_service: the saved id and, if it is to be kept, the saved token.
StartService ==
  /\ pc = "binding"
  /\ LET id == IF loaded = NoState THEN launches ELSE loaded.id
     IN  IF ~newUri /\ KeepsToken(loaded)
         THEN service' = loaded /\ UNCHANGED nextToken
         ELSE /\ nextToken <= MaxTokens
              /\ service' = [id |-> id, token |-> nextToken, created |-> now]
              /\ nextToken' = nextToken + 1
  /\ gen' = 1
  /\ rotation' = NoRotation
  /\ pc' = "subscribing"
  /\ UNCHANGED <<now, launches, disk, printed, loaded, newUri, changed, uriGen, history>>

-----------------------------------------------------------------------------
(* The command, once the service is published *)

\* subscribe_status: the initial status is pending.
Subscribe ==
  /\ pc = "subscribing"
  /\ changed' = TRUE
  /\ pc' = "reading"
  /\ UNCHANGED <<now, nextToken, launches, disk, printed, loaded, newUri, service, gen,
                 rotation, uriGen, history>>

\* The generation that is about to be saved and printed.
ReadGeneration ==
  /\ pc = "reading"
  /\ uriGen' = gen
  /\ pc' = "saving"
  /\ UNCHANGED <<now, nextToken, launches, disk, printed, loaded, newUri, service, gen,
                 rotation, changed, history>>

\* save_host_state: token_state waits for a rotation in progress.
Save ==
  /\ pc = "saving"
  /\ ~rotation.held
  /\ file' = service
  /\ pc' = "printing"
  /\ UNCHANGED <<now, nextToken, launches, key, policy, printed, loaded, newUri, service,
                 gen, rotation, changed, uriGen, history>>

\* subscribe, status, token_state, the write of the file, join_uri or the output of it
\* returns an error: the command gives up.
CallFails ==
  /\ pc \in {"subscribing", "reading", "saving", "printing"}
  /\ pc' = "closing"
  /\ UNCHANGED <<now, nextToken, launches, disk, printed, loaded, newUri, service, gen,
                 rotation, changed, uriGen, history>>

\* Mutant: the generation is read after the two calls it is to stand for.
PrintThenReadGeneration ==
  /\ pc = "printing"
  /\ ~rotation.held
  /\ printed' = JoinUri
  /\ uriGen' = gen
  /\ pc' = "loop"
  /\ UNCHANGED <<now, nextToken, launches, disk, loaded, newUri, service, gen, rotation,
                 changed, history>>

\* print_join_uri: join_uri is a second call, and waits for a rotation, too.
PrintUri ==
  /\ pc = "printing"
  /\ ~rotation.held
  /\ printed' = JoinUri
  /\ pc' = "loop"
  /\ UNCHANGED <<now, nextToken, launches, disk, loaded, newUri, service, gen, rotation,
                 changed, uriGen, history>>

\* HostedServiceStatusSubscription::recv returns the latest status, which may stand
\* for several changes; the command acts on a later generation only.
ReceiveStatus ==
  /\ pc = "loop"
  /\ changed
  /\ changed' = FALSE
  /\ IF gen > uriGen
     THEN uriGen' = gen /\ pc' = "saving"
     ELSE UNCHANGED <<uriGen, pc>>
  /\ UNCHANGED <<now, nextToken, launches, disk, printed, loaded, newUri, service, gen,
                 rotation, history>>

\* What is printed and saved is what is served, and the command knows it.
Settled ==
  /\ pc \in {"loop", "closing"}
  /\ uriGen = gen
  /\ ~rotation.held
  /\ file = service
  /\ printed = JoinUri

CtrlC ==
  /\ pc = "loop"
  /\ pc' = "closing"
  /\ UNCHANGED <<now, nextToken, launches, disk, printed, loaded, newUri, service, gen,
                 rotation, changed, uriGen, history>>

\* The process is gone, and all that was in memory.
Exit ==
  /\ pc' = "down"
  /\ settled' = Settled
  /\ loaded' = NoState /\ service' = NoState
  /\ gen' = 0 /\ uriGen' = 0
  /\ rotation' = NoRotation /\ changed' = FALSE /\ newUri' = FALSE
  /\ UNCHANGED <<now, nextToken, launches, disk, printed, retired>>

\* node.close(), and the end of main.
Close == pc = "closing" /\ Exit

Kill == Published /\ Exit

-----------------------------------------------------------------------------
(* The node *)

\* The rotation loop of the service finds its token due.
Due == Published /\ Timed /\ now >= service.created + policy.period

\* rotate_token_inner up to the new token ...
BeginRotation ==
  /\ Due
  /\ ~rotation.held
  /\ nextToken <= MaxTokens
  /\ service' = [service EXCEPT !.token = nextToken]
  /\ nextToken' = nextToken + 1
  /\ retired' = [retired EXCEPT ![service.token] = policy.period]
  /\ rotation' = [held |-> TRUE, at |-> now]
  /\ UNCHANGED <<now, launches, disk, printed, pc, loaded, newUri, gen, changed, uriGen,
                 settled>>

\* Mutant: the subscribers are not told.
RotateSilently ==
  /\ rotation.held
  /\ service' = [service EXCEPT !.created = rotation.at]
  /\ gen' = gen + 1
  /\ rotation' = NoRotation
  /\ UNCHANGED <<now, nextToken, launches, disk, printed, pc, loaded, newUri, changed,
                 uriGen, history>>

\* ... and from HostedStatus::rotate_uri to its end.
EndRotation ==
  /\ rotation.held
  /\ service' = [service EXCEPT !.created = rotation.at]
  /\ gen' = gen + 1
  /\ changed' = TRUE
  /\ rotation' = NoRotation
  /\ UNCHANGED <<now, nextToken, launches, disk, printed, pc, loaded, newUri, uriGen,
                 history>>

\* HostedStatus::update by a connection, a bridge or an error.
OtherStatusChange ==
  /\ Published /\ pc # "subscribing"
  /\ ~changed
  /\ changed' = TRUE
  /\ UNCHANGED <<now, nextToken, launches, disk, printed, pc, loaded, newUri, service,
                 gen, rotation, uriGen, history>>

Tick ==
  /\ now < MaxTime
  /\ now' = now + 1
  /\ UNCHANGED <<nextToken, launches, disk, printed, pc, loaded, newUri, service, gen,
                 rotation, changed, uriGen, history>>

-----------------------------------------------------------------------------
Command ==
  \/ StartService \/ Subscribe \/ ReadGeneration \/ Save \/ CallFails \/ PrintUri
  \/ ReceiveStatus \/ Close

Next ==
  \/ \E newKey, fresh \in BOOLEAN, p \in Policies : Launch(newKey, p, fresh)
  \/ BindFails \/ Command \/ CtrlC \/ Kill
  \/ BeginRotation \/ EndRotation \/ OtherStatusChange
  \/ Tick

\* The process runs whichever of its steps can run.  Nobody has to launch it, to
\* interrupt it or to kill it, and nothing has to fail.
Fairness ==
  /\ WF_vars(StartService) /\ WF_vars(Subscribe) /\ WF_vars(ReadGeneration)
  /\ WF_vars(Save) /\ WF_vars(PrintUri) /\ WF_vars(ReceiveStatus) /\ WF_vars(Close)
  /\ WF_vars(EndRotation)

Spec == Init /\ [][Next]_vars
FairSpec == Spec /\ Fairness

-----------------------------------------------------------------------------
(* Properties *)

\* When the command has nothing left to do, what the file holds and what was printed
\* last is what the node serves, although the three are read at different moments
\* and a rotation may come between any two of them.
LoopAgrees ==
  pc = "loop" /\ uriGen = gen /\ ~rotation.held => file = service /\ printed = JoinUri

\* A Join URI that was printed names a service id that the file has kept, so every
\* later process publishes under that id.
LinkIdKept == printed # NoLink => file.id = printed.id

\* A timed policy never serves a token that a rotation has retired under the same
\* period or a longer one, though the file may still hold it when the process is
\* killed between the rotation and the save.  (A policy with a longer period, or
\* never, then takes it up again: the file does not tell that it was retired.)
RetiredStaysRetired ==
  Published /\ Timed => retired[service.token] < policy.period

\* What a process that had settled had printed is what the next one serves, unless
\* its flags, its policy or the age of the token forbid it: a policy that never
\* refreshes, or whose time has not come, keeps the current link across restarts.
LinkStillGood ==
  /\ settled /\ ~newUri
  /\ \/ policy = Never
     \/ Timed /\ now < file.created + policy.period
SharedLinkSurvives == [][StartService /\ LinkStillGood => JoinUri' = printed]_vars

\* Every rotation is saved and printed, unless the process ends.
RotationsReachFile ==
  \A g \in 1 .. MaxTokens :
    (Published /\ gen = g) ~> (pc = "down" \/ (pc = "loop" /\ uriGen >= g))
=============================================================================
