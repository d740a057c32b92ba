--------------------------- MODULE HostCommandProofs ---------------------------
(***************************************************************************)
(* Proofs about module HostCommand, for all periods, every bound on the    *)
(* clock and any number of launches and tokens.  Each group of facts below *)
(* is inductive with the ones before it: generations, the wake-ups for     *)
(* them, service ids, tokens and, last, the link that a settled process    *)
(* leaves behind.                                                          *)
(***************************************************************************)
EXTENDS HostCommand, TLAPS

-----------------------------------------------------------------------------
(* The inductive invariant *)

\* What the command has seen is not ahead of the node, and what it has saved is
\* current unless there is a generation it will see.
Generations ==
  /\ uriGen <= gen
  /\ ~Published => gen = 0 /\ ~rotation.held
  /\ pc = "printing" /\ uriGen = gen /\ ~rotation.held => file = service
  /\ LoopAgrees

\* A generation that the command has not seen is one the subscription has for it.
NothingMissed ==
  pc \in {"saving", "printing", "loop"} /\ uriGen # gen => changed

\* A service is published under the id in the file, once there is a file.
Ids ==
  /\ pc # "down" \/ settled => launches # 0
  /\ launches # 0 => key # None
  /\ file # NoState => file.id # None /\ file.token # None
  /\ pc = "binding" => loaded = file
  /\ Published => service.id # None /\ service.token # None
  /\ Published /\ file # NoState => service.id = file.id
  /\ pc \in {"printing", "loop"} => file # NoState
  /\ printed # NoLink => file # NoState /\ file.id = printed.id

\* Tokens are generated in order, and copies of a token agree on its age.
Copies ==
  /\ \A t \in 0 .. MaxTokens : retired[t] # 0 => t < nextToken
  /\ service.token < nextToken /\ file.token < nextToken
  /\ file.created <= now /\ service.created <= now /\ rotation.at <= now
  /\ Published /\ file.token = service.token => file.created = service.created
  /\ rotation.held => file.token # service.token /\ Timed

\* A retired token has reached the period under which it was retired, so a policy that
\* takes it up again has a longer one.
Outlived ==
  /\ file # NoState => file.created + retired[file.token] <= now
  /\ Published =>
       /\ service.created + retired[service.token] <= now
       /\ Timed => retired[service.token] < policy.period
       /\ rotation.held => retired[service.token] = 0

Tokens == Copies /\ Outlived

\* What a settled process leaves is what it printed.
Left ==
  settled /\ ~Published =>
    /\ file # NoState
    /\ printed = [key |-> key, id |-> file.id, token |-> file.token]

IInv == TypeOK /\ Generations /\ NothingMissed /\ Ids /\ Tokens /\ Left

-----------------------------------------------------------------------------
(* Each group is preserved *)

\* A timed policy has a period.
LEMMA PolicyTypes ==
  ASSUME TypeOK
  PROVE  policy.period \in Nat /\ (Timed => policy.period > 0)
<1>1. PICK d \in Periods \cup {0} : policy.period = d /\ (Timed => d # 0)
  <2>1. CASE policy = Always \/ policy = Never
    BY <2>1 DEF Always, Never, Timed
  <2>2. CASE \E d \in Periods : policy = After(d)
    BY <2>2, PeriodsAssumption DEF After
  <2> QED BY <2>1, <2>2 DEF TypeOK, Policies
<1> QED BY <1>1, PeriodsAssumption

\* What is added to a date, or compared with one, is a number.
LEMMA DateTypes ==
  ASSUME TypeOK
  PROVE  /\ now \in Nat /\ nextToken \in Nat /\ policy.period \in Nat
         /\ file.created \in Nat /\ loaded.created \in Nat /\ service.created \in Nat
         /\ rotation.at \in Nat
         /\ file.token \in 0 .. MaxTokens /\ service.token \in 0 .. MaxTokens
         /\ \A t \in 0 .. MaxTokens : retired[t] \in Nat
<1>1. /\ now \in 0 .. MaxTime /\ nextToken \in 1 .. MaxTokens + 1
      /\ file \in HostStates /\ loaded \in HostStates /\ service \in HostStates
      /\ rotation \in [held : BOOLEAN, at : 0 .. MaxTime]
      /\ retired \in [0 .. MaxTokens -> Nat]
  BY DEF TypeOK
<1>2. policy.period \in Nat
  BY PolicyTypes
<1> QED BY <1>1, <1>2, BoundsAssumption DEF HostStates

\* Types need one fact more: a published service has a token.
LEMMA TypeStep == TypeOK /\ Ids /\ [Next]_vars => TypeOK'
<1> SUFFICES ASSUME TypeOK, Ids, [Next]_vars PROVE TypeOK'
  OBVIOUS
<1> USE PeriodsAssumption, BoundsAssumption DEF TypeOK, Pcs, HostStates, NoState, Links, NoLink, NoRotation, None, Published
<1>1. ASSUME NEW newKey \in BOOLEAN, NEW fresh \in BOOLEAN, NEW p \in Policies,
             Launch(newKey, p, fresh)
      PROVE  TypeOK'
  <2>1. /\ launches \in 0 .. MaxLaunches /\ launches < MaxLaunches
        /\ key \in 0 .. MaxLaunches
        /\ launches' = launches + 1 /\ key' \in {launches + 1, key}
    BY <1>1 DEF Launch
  <2>2. launches' \in 0 .. MaxLaunches /\ key' \in 0 .. MaxLaunches
    BY ONLY <2>1, BoundsAssumption
  <2>3. /\ policy' = p /\ loaded' = file /\ newUri' = fresh /\ pc' = "binding"
        /\ settled' = (settled /\ ~newKey)
        /\ UNCHANGED <<now, nextToken, file, printed, service, gen, rotation, changed,
                       uriGen, retired>>
    BY <1>1 DEF Launch
  <2>4. settled' \in BOOLEAN
    BY ONLY <2>3
  <2> HIDE DEF NoRotation, NoState, NoLink, HostStates, Links, Published
  <2> QED BY <1>1, <2>2, <2>3, <2>4
<1>2. CASE BindFails
  BY <1>2 DEF BindFails, disk, history
<1>3. CASE StartService
  <2>1. service' \in HostStates /\ nextToken' \in 1 .. MaxTokens + 1
    <3>1. /\ loaded \in HostStates /\ nextToken \in 1 .. MaxTokens + 1
          /\ now \in 0 .. MaxTime /\ launches \in 0 .. MaxLaunches
      OBVIOUS
    <3> HIDE DEF TypeOK
    <3>2. CASE service' = loaded /\ nextToken' = nextToken
      BY <3>1, <3>2
    <3>3. CASE /\ nextToken <= MaxTokens /\ nextToken' = nextToken + 1
               /\ \E id \in {launches, loaded.id} :
                    service' = [id |-> id, token |-> nextToken, created |-> now]
      BY <3>1, <3>3
    <3> QED BY <1>3, <3>2, <3>3 DEF StartService
  <2>2. pc' = "subscribing" /\ rotation' = NoRotation /\ gen' = 1
    BY <1>3 DEF StartService
  <2>3. UNCHANGED <<now, launches, disk, printed, loaded, newUri, changed, uriGen, history>>
    BY <1>3 DEF StartService
  <2>4. NoRotation \in [held : BOOLEAN, at : 0 .. MaxTime] /\ gen' \in Nat
    BY <2>2
  <2> HIDE DEF NoRotation, NoState, NoLink, HostStates, Links, Published
  <2> QED BY <2>1, <2>2, <2>3, <2>4 DEF disk, history
<1>4. CASE Subscribe
  BY <1>4 DEF Subscribe, disk, history
<1>5. CASE ReadGeneration
  BY <1>5 DEF ReadGeneration, disk, history
<1>6. CASE Save
  BY <1>6 DEF Save, disk, history
<1>7. CASE CallFails
  BY <1>7 DEF CallFails, disk, history
<1>8. CASE PrintUri
  BY <1>8 DEF PrintUri, disk, history, JoinUri
<1>9. CASE ReceiveStatus
  BY <1>9 DEF ReceiveStatus, disk, history
<1>10. CASE Close
  <2>1. settled' \in BOOLEAN
    <3>1. settled' = Settled
      BY <1>10 DEF Close, Exit
    <3> QED BY ONLY <3>1 DEF Settled
  <2>2. NoState \in HostStates /\ NoRotation \in [held : BOOLEAN, at : 0 .. MaxTime]
    OBVIOUS
  <2> QED BY <1>10, <2>1, <2>2 DEF Close, Exit, disk
<1>11. CASE CtrlC
  BY <1>11 DEF CtrlC, disk, history
<1>12. CASE Kill
  <2>1. settled' \in BOOLEAN
    <3>1. settled' = Settled
      BY <1>12 DEF Kill, Exit
    <3> QED BY ONLY <3>1 DEF Settled
  <2>2. NoState \in HostStates /\ NoRotation \in [held : BOOLEAN, at : 0 .. MaxTime]
    OBVIOUS
  <2> QED BY <1>12, <2>1, <2>2 DEF Kill, Exit, disk
<1>13. CASE BeginRotation
  <2>1. service' = [service EXCEPT !.token = nextToken] /\ nextToken \in 1 .. MaxTokens
    BY <1>13 DEF BeginRotation
  <2>2. service' \in HostStates
    <3>1. service \in HostStates
      OBVIOUS
    <3> QED BY ONLY <2>1, <3>1 DEF HostStates
  <2>3. rotation' \in [held : BOOLEAN, at : 0 .. MaxTime]
    BY <1>13 DEF BeginRotation
  <2>4. nextToken' \in 1 .. MaxTokens + 1
    <3>1. nextToken' = nextToken + 1
      BY <1>13 DEF BeginRotation
    <3> QED BY ONLY <2>1, <3>1, BoundsAssumption
  <2>5. policy.period \in Nat /\ service.token \in 0 .. MaxTokens
    BY PolicyTypes
  <2>6. retired' \in [0 .. MaxTokens -> Nat]
    BY <1>13, <2>5 DEF BeginRotation
  <2> QED BY <1>13, <2>2, <2>3, <2>4, <2>6 DEF BeginRotation, disk
<1>14. CASE EndRotation
  <2>1. service' \in HostStates
    <3>1. service \in HostStates /\ rotation.at \in 0 .. MaxTime
      OBVIOUS
    <3>2. service' = [service EXCEPT !.created = rotation.at]
      BY <1>14 DEF EndRotation
    <3> QED BY ONLY <3>1, <3>2 DEF HostStates
  <2>2. rotation' = NoRotation /\ changed' = TRUE /\ gen' = gen + 1
    BY <1>14 DEF EndRotation
  <2>3. UNCHANGED <<now, nextToken, launches, disk, printed, pc, loaded, newUri, uriGen, history>>
    BY <1>14 DEF EndRotation
  <2>4. NoRotation \in [held : BOOLEAN, at : 0 .. MaxTime] /\ gen' \in Nat
    BY <2>2
  <2> HIDE DEF NoRotation, NoState, NoLink, HostStates, Links, Published
  <2> QED BY <2>1, <2>2, <2>3, <2>4 DEF disk, history
<1>15. CASE OtherStatusChange
  BY <1>15 DEF OtherStatusChange, disk, history
<1>16. CASE Tick
  <2>1. now \in 0 .. MaxTime /\ now < MaxTime /\ now' = now + 1
    BY <1>16 DEF Tick
  <2>2. now' \in 0 .. MaxTime
    BY ONLY <2>1, BoundsAssumption
  <2>3. UNCHANGED <<nextToken, launches, disk, printed, pc, loaded, newUri, service, gen,
                    rotation, changed, uriGen, history>>
    BY <1>16 DEF Tick
  <2> HIDE DEF NoRotation, NoState, NoLink, HostStates, Links, Published
  <2> QED BY <2>2, <2>3 DEF disk, history
<1>17. CASE UNCHANGED vars
  BY <1>17 DEF vars, disk, history
<1> QED
  BY <1>1, <1>2, <1>3, <1>4, <1>5, <1>6, <1>7, <1>8, <1>9, <1>10, <1>11, <1>12, <1>13, <1>14, <1>15, <1>16, <1>17
  DEF Next, Command

\* A rotation that ends leaves the command a generation to see.
LEMMA GenerationsStep == TypeOK /\ Generations /\ [Next]_vars => Generations'
<1> SUFFICES ASSUME TypeOK, Generations, [Next]_vars PROVE Generations'
  OBVIOUS
<1> USE PeriodsAssumption, BoundsAssumption DEF TypeOK, Generations, LoopAgrees, Published, NoRotation, JoinUri
<1>1. ASSUME NEW newKey \in BOOLEAN, NEW fresh \in BOOLEAN, NEW p \in Policies,
             Launch(newKey, p, fresh)
      PROVE  Generations'
  BY <1>1 DEF Launch, disk, history
<1>2. CASE BindFails
  BY <1>2 DEF BindFails, disk, history
<1>3. CASE StartService
  BY <1>3 DEF StartService, disk, history
<1>4. CASE Subscribe
  BY <1>4 DEF Subscribe, disk, history
<1>5. CASE ReadGeneration
  BY <1>5 DEF ReadGeneration, disk, history
<1>6. CASE Save
  BY <1>6 DEF Save, disk, history
<1>7. CASE CallFails
  BY <1>7 DEF CallFails, disk, history
<1>8. CASE PrintUri
  BY <1>8 DEF PrintUri, disk, history
<1>9. CASE ReceiveStatus
  BY <1>9 DEF ReceiveStatus, disk, history
<1>10. CASE Close
  BY <1>10 DEF Close, Exit, Settled, disk, history
<1>11. CASE CtrlC
  BY <1>11 DEF CtrlC, disk, history
<1>12. CASE Kill
  BY <1>12 DEF Kill, Exit, Settled, disk, history
<1>13. CASE BeginRotation
  <2>1. rotation'.held /\ Published'
    BY <1>13 DEF BeginRotation, Due
  <2> QED BY <1>13, <2>1 DEF BeginRotation, disk, history
<1>14. CASE EndRotation
  BY <1>14 DEF EndRotation, disk, history
<1>15. CASE OtherStatusChange
  BY <1>15 DEF OtherStatusChange, disk, history
<1>16. CASE Tick
  BY <1>16 DEF Tick, disk, history
<1>17. CASE UNCHANGED vars
  BY <1>17 DEF vars, disk, history
<1> QED
  BY <1>1, <1>2, <1>3, <1>4, <1>5, <1>6, <1>7, <1>8, <1>9, <1>10, <1>11, <1>12, <1>13, <1>14, <1>15, <1>16, <1>17
  DEF Next, Command

\* A rotation that ends wakes the command, and only the command takes the wake-up.
LEMMA MissedStep == TypeOK /\ Generations /\ NothingMissed /\ [Next]_vars => NothingMissed'
<1> SUFFICES ASSUME TypeOK, Generations, NothingMissed, [Next]_vars PROVE NothingMissed'
  OBVIOUS
<1> USE PeriodsAssumption, BoundsAssumption DEF TypeOK, Generations, NothingMissed, Published
<1>1. ASSUME NEW newKey \in BOOLEAN, NEW fresh \in BOOLEAN, NEW p \in Policies,
             Launch(newKey, p, fresh)
      PROVE  NothingMissed'
  BY <1>1 DEF Launch, disk, history
<1>2. CASE BindFails
  BY <1>2 DEF BindFails, disk, history
<1>3. CASE StartService
  BY <1>3 DEF StartService, disk, history
<1>4. CASE Subscribe
  BY <1>4 DEF Subscribe, disk, history
<1>5. CASE ReadGeneration
  BY <1>5 DEF ReadGeneration, disk, history
<1>6. CASE Save
  BY <1>6 DEF Save, disk, history
<1>7. CASE CallFails
  BY <1>7 DEF CallFails, disk, history
<1>8. CASE PrintUri
  BY <1>8 DEF PrintUri, disk, history
<1>9. CASE ReceiveStatus
  BY <1>9 DEF ReceiveStatus, disk, history
<1>10. CASE Close
  BY <1>10 DEF Close, Exit, Settled, disk, history
<1>11. CASE CtrlC
  BY <1>11 DEF CtrlC, disk, history
<1>12. CASE Kill
  BY <1>12 DEF Kill, Exit, Settled, disk, history
<1>13. CASE BeginRotation
  BY <1>13 DEF BeginRotation, disk, history
<1>14. CASE EndRotation
  BY <1>14 DEF EndRotation, disk, history
<1>15. CASE OtherStatusChange
  BY <1>15 DEF OtherStatusChange, disk, history
<1>16. CASE Tick
  BY <1>16 DEF Tick, disk, history
<1>17. CASE UNCHANGED vars
  BY <1>17 DEF vars, disk, history
<1> QED
  BY <1>1, <1>2, <1>3, <1>4, <1>5, <1>6, <1>7, <1>8, <1>9, <1>10, <1>11, <1>12, <1>13, <1>14, <1>15, <1>16, <1>17
  DEF Next, Command

\* Every save goes under the id of the file it replaces.
LEMMA IdsStep == TypeOK /\ Ids /\ [Next]_vars => Ids'
<1> SUFFICES ASSUME TypeOK, Ids, [Next]_vars PROVE Ids'
  OBVIOUS
<1> USE PeriodsAssumption, BoundsAssumption DEF TypeOK, Ids, Published, NoState, NoLink, None, JoinUri, KeepsToken, HostStates
<1>1. ASSUME NEW newKey \in BOOLEAN, NEW fresh \in BOOLEAN, NEW p \in Policies,
             Launch(newKey, p, fresh)
      PROVE  Ids'
  BY <1>1 DEF Launch, disk, history
<1>2. CASE BindFails
  BY <1>2 DEF BindFails, disk, history
<1>3. CASE StartService
  <2>1. /\ pc = "binding" /\ pc' = "subscribing"
        /\ UNCHANGED <<launches, key, file, printed, loaded>>
    BY <1>3 DEF StartService, disk
  <2>2. /\ launches # 0 /\ loaded = file
        /\ file # NoState => file.id # None /\ file.token # None
        /\ nextToken \in Nat /\ nextToken # 0
    BY <2>1
  <2>3. /\ service'.id # None /\ service'.token # None
        /\ file # NoState => service'.id = file.id
    <3>1. CASE service' = loaded /\ KeepsToken(loaded)
      BY <2>2, <3>1
    <3>2. CASE service' = [id |-> IF loaded = NoState THEN launches ELSE loaded.id,
                           token |-> nextToken, created |-> now]
      BY <2>2, <3>2
    <3> QED BY <1>3, <3>1, <3>2 DEF StartService
  <2> HIDE DEF NoState, HostStates, KeepsToken
  <2> QED BY <2>1, <2>2, <2>3, <1>3 DEF StartService, history
<1>4. CASE Subscribe
  BY <1>4 DEF Subscribe, disk, history
<1>5. CASE ReadGeneration
  BY <1>5 DEF ReadGeneration, disk, history
<1>6. CASE Save
  BY <1>6 DEF Save, disk, history
<1>7. CASE CallFails
  BY <1>7 DEF CallFails, disk, history
<1>8. CASE PrintUri
  BY <1>8 DEF PrintUri, disk, history
<1>9. CASE ReceiveStatus
  BY <1>9 DEF ReceiveStatus, disk, history
<1>10. CASE Close
  BY <1>10 DEF Close, Exit, Settled, disk, history
<1>11. CASE CtrlC
  BY <1>11 DEF CtrlC, disk, history
<1>12. CASE Kill
  BY <1>12 DEF Kill, Exit, Settled, disk, history
<1>13. CASE BeginRotation
  BY <1>13 DEF BeginRotation, disk, history
<1>14. CASE EndRotation
  BY <1>14 DEF EndRotation, disk, history
<1>15. CASE OtherStatusChange
  BY <1>15 DEF OtherStatusChange, disk, history
<1>16. CASE Tick
  BY <1>16 DEF Tick, disk, history
<1>17. CASE UNCHANGED vars
  BY <1>17 DEF vars, disk, history
<1> QED
  BY <1>1, <1>2, <1>3, <1>4, <1>5, <1>6, <1>7, <1>8, <1>9, <1>10, <1>11, <1>12, <1>13, <1>14, <1>15, <1>16, <1>17
  DEF Next, Command

\* Tokens are numbered and dated when they are generated.
LEMMA CopiesStep == TypeOK /\ Generations /\ Ids /\ Copies /\ [Next]_vars => Copies'
<1> SUFFICES ASSUME TypeOK, Generations, Ids, Copies, [Next]_vars PROVE Copies'
  OBVIOUS
<1>0. /\ now \in Nat /\ nextToken \in Nat /\ file.created \in Nat
      /\ service.created \in Nat /\ rotation.at \in Nat /\ file.token \in 0 .. MaxTokens
      /\ MaxTokens \in Nat
  BY DateTypes, BoundsAssumption
<1> USE PeriodsAssumption, BoundsAssumption DEF TypeOK, Generations, Ids, Copies, Published, NoState, None, NoRotation, Expired, KeepsToken, Due, HostStates, Timed
<1>1. ASSUME NEW newKey \in BOOLEAN, NEW fresh \in BOOLEAN, NEW p \in Policies,
             Launch(newKey, p, fresh)
      PROVE  Copies'
  BY <1>1 DEF Launch, disk, history
<1>2. CASE BindFails
  BY <1>2 DEF BindFails, disk, history
<1>3. CASE StartService
  <2>1. /\ loaded = file /\ rotation' = NoRotation
        /\ UNCHANGED <<now, file, policy, retired>>
    BY <1>3 DEF StartService, disk, history
  <2>2. \/ service' = file /\ nextToken' = nextToken
        \/ /\ service'.token = nextToken /\ service'.created = now
           /\ nextToken' = nextToken + 1
    BY <1>3, <2>1 DEF StartService
  <2>3. /\ \A t \in 0 .. MaxTokens : retired[t] # 0 => t < nextToken
        /\ file.token < nextToken /\ file.created <= now
    OBVIOUS
  <2>4. /\ \A t \in 0 .. MaxTokens : retired'[t] # 0 => t < nextToken'
        /\ service'.token < nextToken' /\ file'.token < nextToken'
        /\ file'.created <= now' /\ service'.created <= now'
        /\ file'.token = service'.token => file'.created = service'.created
    BY ONLY <1>0, <2>1, <2>2, <2>3
  <2>5. ~rotation'.held /\ rotation'.at <= now'
    BY <2>1
  <2> HIDE DEF TypeOK, Generations, Ids, HostStates
  <2> QED BY <2>4, <2>5
<1>4. CASE Subscribe
  BY <1>4 DEF Subscribe, disk, history
<1>5. CASE ReadGeneration
  BY <1>5 DEF ReadGeneration, disk, history
<1>6. CASE Save
  BY <1>6 DEF Save, disk, history
<1>7. CASE CallFails
  BY <1>7 DEF CallFails, disk, history
<1>8. CASE PrintUri
  BY <1>8 DEF PrintUri, disk, history
<1>9. CASE ReceiveStatus
  BY <1>9 DEF ReceiveStatus, disk, history
<1>10. CASE Close
  BY <1>10 DEF Close, Exit, Settled, disk, history
<1>11. CASE CtrlC
  BY <1>11 DEF CtrlC, disk, history
<1>12. CASE Kill
  BY <1>12 DEF Kill, Exit, Settled, disk, history
<1>13. CASE BeginRotation
  <2>1. /\ service' = [service EXCEPT !.token = nextToken] /\ nextToken' = nextToken + 1
        /\ retired' = [retired EXCEPT ![service.token] = policy.period]
        /\ nextToken \in 1 .. MaxTokens /\ rotation' = [held |-> TRUE, at |-> now]
        /\ Published /\ Timed
        /\ UNCHANGED <<now, file, pc, policy>>
    BY <1>13 DEF BeginRotation, disk
  <2>2. service'.token = nextToken /\ service'.created = service.created
    BY <2>1
  <2>3. ASSUME NEW t \in 0 .. MaxTokens, retired'[t] # 0 PROVE t < nextToken'
    <3>1. service.token < nextToken /\ service.token \in Nat /\ nextToken \in Nat
      OBVIOUS
    <3>2. CASE t = service.token
      BY ONLY <2>1, <3>1, <3>2
    <3>3. CASE t # service.token
      <4>1. retired'[t] = retired[t]
        BY <2>1, <3>3
      <4>2. t < nextToken
        BY <2>3, <4>1
      <4> QED BY ONLY <2>1, <3>1, <4>2
    <3> QED BY <3>2, <3>3
  <2>4. file.token < nextToken /\ file.token \in Nat /\ nextToken \in Nat
    OBVIOUS
  <2>5. service'.token < nextToken' /\ file'.token < nextToken' /\ file'.token # service'.token
    BY ONLY <2>1, <2>2, <2>4
  <2>6. file'.created <= now' /\ service'.created <= now' /\ rotation'.at <= now'
    BY <2>1, <2>2
  <2> QED BY <2>1, <2>3, <2>5, <2>6
<1>14. CASE EndRotation
  BY <1>14 DEF EndRotation, disk, history
<1>15. CASE OtherStatusChange
  BY <1>15 DEF OtherStatusChange, disk, history
<1>16. CASE Tick
  <2>1. /\ now' = now + 1
        /\ UNCHANGED <<nextToken, policy, file, pc, service, rotation, retired>>
    BY <1>16 DEF Tick, disk, history
  <2>2. file.created <= now /\ service.created <= now /\ rotation.at <= now
    OBVIOUS
  <2>3. file.created <= now' /\ service.created <= now' /\ rotation.at <= now'
    BY ONLY <1>0, <2>1, <2>2
  <2> HIDE DEF TypeOK, Generations, Ids, HostStates
  <2> QED BY <2>1, <2>3
<1>17. CASE UNCHANGED vars
  BY <1>17 DEF vars, disk, history
<1> QED
  BY <1>1, <1>2, <1>3, <1>4, <1>5, <1>6, <1>7, <1>8, <1>9, <1>10, <1>11, <1>12, <1>13, <1>14, <1>15, <1>16, <1>17
  DEF Next, Command

\* Only an expired token is retired, and age only grows.
LEMMA OutlivedStep == TypeOK /\ Generations /\ Ids /\ Copies /\ Outlived /\ [Next]_vars => Outlived'
<1> SUFFICES ASSUME TypeOK, Generations, Ids, Copies, Outlived, [Next]_vars PROVE Outlived'
  OBVIOUS
<1>0. /\ now \in Nat /\ file.created \in Nat /\ policy.period \in Nat
      /\ file.token \in 0 .. MaxTokens /\ retired[file.token] \in Nat
  BY DateTypes
<1> USE PeriodsAssumption, BoundsAssumption DEF TypeOK, Generations, Ids, Copies, Outlived, Published, NoState, None, NoRotation, Expired, KeepsToken, Due, HostStates, Timed
<1>1. ASSUME NEW newKey \in BOOLEAN, NEW fresh \in BOOLEAN, NEW p \in Policies,
             Launch(newKey, p, fresh)
      PROVE  Outlived'
  BY <1>1 DEF Launch, disk, history
<1>2. CASE BindFails
  BY <1>2 DEF BindFails, disk, history
<1>3. CASE StartService
  <2>1. /\ file' = file /\ retired' = retired /\ now' = now /\ policy' = policy
        /\ rotation' = NoRotation /\ loaded = file
    BY <1>3 DEF StartService, disk, history
  <2>2. CASE KeepsToken(loaded) /\ service' = loaded
    <3>1. /\ file # NoState /\ service' = file /\ file.created + retired[file.token] <= now
          /\ Timed => file.created + policy.period > now
      <4>1. policy # Never \/ ~Timed
        BY DEF Never
      <4>2. /\ file # NoState /\ service' = file
            /\ file.created + retired[file.token] <= now
        BY <2>1, <2>2
      <4>3. Timed => ~(file.created + policy.period <= now)
        <5>1. KeepsToken(file)
          BY <2>1, <2>2
        <5> HIDE DEF TypeOK, Generations, Ids, Copies, Outlived
        <5> QED BY <4>1, <5>1
      <4> QED BY ONLY <1>0, <4>2, <4>3
    <3>3. Timed => retired[file.token] < policy.period
      BY ONLY <1>0, <3>1
    <3> QED BY <2>1, <3>1, <3>3
  <2>3. CASE service'.token = nextToken /\ nextToken <= MaxTokens /\ service'.created = now
    <3>1. retired[nextToken] = 0
      <4>1. nextToken \in 0 .. MaxTokens /\ ~(nextToken < nextToken)
        BY <2>3
      <4> QED BY <4>1
    <3>2. Timed => 0 < policy.period
      BY PolicyTypes
    <3> QED BY <2>1, <2>3, <3>1, <3>2
  <2> QED BY <1>3, <2>2, <2>3 DEF StartService
<1>4. CASE Subscribe
  BY <1>4 DEF Subscribe, disk, history
<1>5. CASE ReadGeneration
  BY <1>5 DEF ReadGeneration, disk, history
<1>6. CASE Save
  BY <1>6 DEF Save, disk, history
<1>7. CASE CallFails
  BY <1>7 DEF CallFails, disk, history
<1>8. CASE PrintUri
  BY <1>8 DEF PrintUri, disk, history
<1>9. CASE ReceiveStatus
  BY <1>9 DEF ReceiveStatus, disk, history
<1>10. CASE Close
  BY <1>10 DEF Close, Exit, Settled, disk, history
<1>11. CASE CtrlC
  BY <1>11 DEF CtrlC, disk, history
<1>12. CASE Kill
  BY <1>12 DEF Kill, Exit, Settled, disk, history
<1>13. CASE BeginRotation
  <2>1. /\ service' = [service EXCEPT !.token = nextToken]
        /\ retired' = [retired EXCEPT ![service.token] = policy.period]
        /\ nextToken \in 1 .. MaxTokens
        /\ Published /\ Timed /\ now >= service.created + policy.period
        /\ UNCHANGED <<now, file, pc, policy>>
    BY <1>13 DEF BeginRotation, disk
  <2>2. service'.token = nextToken /\ service'.created = service.created
    BY <2>1
  <2>a. policy.period \in Nat /\ policy.period > 0
    BY <2>1, PolicyTypes
  <2>b. /\ service.token \in 0 .. MaxTokens /\ service.token < nextToken
        /\ file.token \in 0 .. MaxTokens /\ retired \in [0 .. MaxTokens -> Nat]
    OBVIOUS
  <2>c. service.created \in Nat /\ service.created <= now /\ now \in Nat
    OBVIOUS
  <2>d. nextToken \in 0 .. MaxTokens
    BY ONLY <2>1, BoundsAssumption
  <2>3. /\ service.token \in 0 .. MaxTokens /\ service.token < nextToken
        /\ file.token \in 0 .. MaxTokens /\ nextToken \in 0 .. MaxTokens
        /\ retired \in [0 .. MaxTokens -> Nat] /\ service.created \in Nat
        /\ service.created <= now /\ now \in Nat
        /\ policy.period \in Nat /\ policy.period > 0
    BY ONLY <2>a, <2>b, <2>c, <2>d
  <2>4. retired[nextToken] = 0
    <3>1. ~(nextToken < nextToken)
      BY <2>3
    <3> QED BY <2>3, <3>1
  <2>5. retired'[nextToken] = 0
    BY ONLY <2>1, <2>3, <2>4
  <2>6. file' # NoState => file'.created + retired'[file'.token] <= now'
    <3>1. CASE file.token = service.token
      <4>1. file.created = service.created /\ retired'[file.token] = policy.period
        BY <2>1, <2>3, <3>1
      <4> QED BY <2>1, <4>1
    <3>2. CASE file.token # service.token
      <4>1. retired'[file.token] = retired[file.token]
        BY ONLY <2>1, <2>3, <3>2
      <4> QED BY <2>1, <4>1
    <3> QED BY <3>1, <3>2
  <2>7. service'.created + retired'[service'.token] <= now'
    BY ONLY <2>1, <2>2, <2>3, <2>5
  <2>8. retired'[service'.token] < policy'.period
    BY ONLY <2>1, <2>2, <2>3, <2>5
  <2> QED BY <2>2, <2>5, <2>6, <2>7, <2>8
<1>14. CASE EndRotation
  BY <1>14 DEF EndRotation, disk, history
<1>15. CASE OtherStatusChange
  BY <1>15 DEF OtherStatusChange, disk, history
<1>16. CASE Tick
  <2>1. /\ now' = now + 1
        /\ UNCHANGED <<file, service, retired, policy, pc, rotation>>
    BY <1>16 DEF Tick, disk, history
  <2>2. /\ file.created \in Nat /\ retired[file.token] \in Nat /\ service.created \in Nat
        /\ retired[service.token] \in Nat /\ now \in Nat
    OBVIOUS
  <2>3. /\ file # NoState => file.created + retired[file.token] <= now
        /\ Published => service.created + retired[service.token] <= now
    OBVIOUS
  <2>4. /\ file # NoState => file.created + retired[file.token] <= now + 1
        /\ Published => service.created + retired[service.token] <= now + 1
    BY ONLY <2>2, <2>3
  <2> QED BY <2>1, <2>4
<1>17. CASE UNCHANGED vars
  BY <1>17 DEF vars, disk, history
<1> QED
  BY <1>1, <1>2, <1>3, <1>4, <1>5, <1>6, <1>7, <1>8, <1>9, <1>10, <1>11, <1>12, <1>13, <1>14, <1>15, <1>16, <1>17
  DEF Next, Command

\* A process that goes down settled has saved what it printed.
LEMMA LeftStep == TypeOK /\ Ids /\ Left /\ [Next]_vars => Left'
<1> SUFFICES ASSUME TypeOK, Ids, Left, [Next]_vars PROVE Left'
  OBVIOUS
<1> USE PeriodsAssumption, BoundsAssumption DEF TypeOK, Ids, Left, Published, NoState, None, JoinUri, HostStates
<1>1. ASSUME NEW newKey \in BOOLEAN, NEW fresh \in BOOLEAN, NEW p \in Policies,
             Launch(newKey, p, fresh)
      PROVE  Left'
  BY <1>1 DEF Launch, disk, history
<1>2. CASE BindFails
  BY <1>2 DEF BindFails, disk, history
<1>3. CASE StartService
  BY <1>3 DEF StartService, disk, history
<1>4. CASE Subscribe
  BY <1>4 DEF Subscribe, disk, history
<1>5. CASE ReadGeneration
  BY <1>5 DEF ReadGeneration, disk, history
<1>6. CASE Save
  BY <1>6 DEF Save, disk, history
<1>7. CASE CallFails
  BY <1>7 DEF CallFails, disk, history
<1>8. CASE PrintUri
  BY <1>8 DEF PrintUri, disk, history
<1>9. CASE ReceiveStatus
  BY <1>9 DEF ReceiveStatus, disk, history
<1>10. CASE Close
  <2>1. CASE Settled
    <3>1. file = service /\ service.id # None /\ printed = JoinUri
      BY <1>10, <2>1 DEF Close, Settled
    <3>2. UNCHANGED <<key, file, printed>>
      BY <1>10 DEF Close, Exit, disk
    <3> QED BY <3>1, <3>2
  <2>2. CASE ~Settled
    BY <1>10, <2>2 DEF Close, Exit
  <2> QED BY <2>1, <2>2
<1>11. CASE CtrlC
  BY <1>11 DEF CtrlC, disk, history
<1>12. CASE Kill
  <2>1. CASE Settled
    <3>1. file = service /\ service.id # None /\ printed = JoinUri
      BY <1>12, <2>1 DEF Kill, Settled
    <3>2. UNCHANGED <<key, file, printed>>
      BY <1>12 DEF Kill, Exit, disk
    <3> QED BY <3>1, <3>2
  <2>2. CASE ~Settled
    BY <1>12, <2>2 DEF Kill, Exit
  <2> QED BY <2>1, <2>2
<1>13. CASE BeginRotation
  BY <1>13 DEF BeginRotation, disk, history
<1>14. CASE EndRotation
  BY <1>14 DEF EndRotation, disk, history
<1>15. CASE OtherStatusChange
  BY <1>15 DEF OtherStatusChange, disk, history
<1>16. CASE Tick
  BY <1>16 DEF Tick, disk, history
<1>17. CASE UNCHANGED vars
  BY <1>17 DEF vars, disk, history
<1> QED
  BY <1>1, <1>2, <1>3, <1>4, <1>5, <1>6, <1>7, <1>8, <1>9, <1>10, <1>11, <1>12, <1>13, <1>14, <1>15, <1>16, <1>17
  DEF Next, Command
-----------------------------------------------------------------------------
(* Theorems *)

\* IInv is an inductive invariant of the command, its files and the node.
THEOREM Inductive == Spec => []IInv
<1>1. Init => IInv
  <2> SUFFICES ASSUME Init PROVE IInv
    OBVIOUS
  <2> USE PeriodsAssumption, BoundsAssumption DEF Init, Published, NoState, NoLink, NoRotation, None
  <2>1. TypeOK
    <3>1. NoState \in HostStates /\ NoLink \in Links
      BY DEF HostStates, Links
    <3>2. NoRotation \in [held : BOOLEAN, at : 0 .. MaxTime]
      OBVIOUS
    <3> HIDE DEF NoState, NoLink, NoRotation
    <3>3. newUri \in BOOLEAN /\ changed \in BOOLEAN /\ settled \in BOOLEAN
      OBVIOUS
    <3>4. policy \in Policies /\ pc \in Pcs /\ retired \in [0 .. MaxTokens -> Nat]
      BY DEF Policies, Pcs
    <3> QED BY <3>1, <3>2, <3>3, <3>4 DEF TypeOK
  <2>2. Generations /\ NothingMissed /\ Ids /\ Tokens /\ Left
    BY DEF Generations, LoopAgrees, NothingMissed, Ids, Tokens, Copies, Outlived, Left
  <2> QED BY <2>1, <2>2 DEF IInv
<1>2. IInv /\ [Next]_vars => IInv'
  BY TypeStep, GenerationsStep, MissedStep, IdsStep, CopiesStep, OutlivedStep, LeftStep DEF IInv, Tokens
<1> QED BY <1>1, <1>2, PTL DEF Spec

\* Type correctness of the command, its files and the node.
THEOREM TypeCorrect == Spec => []TypeOK
<1>1. IInv => TypeOK
  BY DEF IInv
<1> QED BY <1>1, Inductive, PTL

\* When the command has nothing left to do, the file and the terminal show what the
\* node serves.
THEOREM LoopAgreement == Spec => []LoopAgrees
<1>1. IInv => LoopAgrees
  BY DEF IInv, Generations
<1> QED BY <1>1, Inductive, PTL

\* What the loop is to find when it waits and no rotation is under way: nobody has to
\* wake it for the file and the terminal to be current.
QuietLoopIsCurrent ==
  pc = "loop" /\ ~changed /\ ~rotation.held => file = service /\ printed = JoinUri

\* No wake-up is lost: a command that waits for a change of status while no rotation
\* is under way has saved and printed the token that the node serves, whichever
\* steps of the loop the rotations came between.
THEOREM NoRotationIsMissed == Spec => []QuietLoopIsCurrent
<1>1. IInv => QuietLoopIsCurrent
  BY DEF IInv, Generations, NothingMissed, LoopAgrees, QuietLoopIsCurrent
<1> QED BY <1>1, Inductive, PTL

\* A printed Join URI names the id that every later process publishes under.
THEOREM LinkIdIsKept == Spec => []LinkIdKept
<1>1. IInv => LinkIdKept
  BY DEF IInv, Ids, LinkIdKept
<1> QED BY <1>1, Inductive, PTL

\* A timed policy takes up no token that was retired under a period as long as its own.
THEOREM RetirementIsFinal == Spec => []RetiredStaysRetired
<1>1. IInv => RetiredStaysRetired
  BY DEF IInv, Tokens, Outlived, RetiredStaysRetired
<1> QED BY <1>1, Inductive, PTL

\* The link that a settled process has printed survives a restart.
THEOREM LinksSurvive == Spec => SharedLinkSurvives
<1>1. IInv /\ StartService /\ LinkStillGood => JoinUri' = printed
  <2> SUFFICES ASSUME IInv, StartService, LinkStillGood PROVE JoinUri' = printed
    OBVIOUS
  <2>1. loaded = file /\ file # NoState
    BY DEF IInv, Ids, Left, StartService, LinkStillGood, Published
  <2>2. KeepsToken(loaded)
    <3>1. policy.period \in Nat /\ file.created \in Nat /\ now \in Nat /\ file.created <= now
      BY PolicyTypes DEF IInv, TypeOK, HostStates, Tokens, Copies
    <3> QED BY <2>1, <3>1 DEF LinkStillGood, KeepsToken, Expired
  <2>3. service' = file /\ key' = key
    BY <2>1, <2>2 DEF StartService, LinkStillGood, disk
  <2>4. printed = [key |-> key, id |-> file.id, token |-> file.token]
    BY DEF IInv, Left, StartService, LinkStillGood, Published
  <2> QED BY <2>3, <2>4 DEF JoinUri
<1>2. IInv /\ [Next]_vars => [StartService /\ LinkStillGood => JoinUri' = printed]_vars
  BY <1>1
<1> QED BY <1>2, Inductive, PTL DEF Spec, SharedLinkSurvives
=============================================================================
