-------------------------- MODULE AtomicFileProofs --------------------------
(***************************************************************************)
(* Proofs that AtomicFile is type correct and keeps its promises (whole    *)
(* targets, durable success, one key for all, no stray temporary files)    *)
(* for any number of callers and of temporary files.                       *)
(***************************************************************************)
EXTENDS AtomicFile, TLAPS

\* What a call has done to its file before it publishes it.
FilesPrepared ==
  \A c \in Callers :
    /\ call[c].pc = "syncFile" => call[c].file \in whole
    /\ call[c].pc = "publish" => call[c].file \in whole \cap synced

\* An entry stays in the directory while its call is under way, and power loss is
\* sure to keep it once the directory is synced.
EntriesInPlace ==
  \A c \in Callers :
    /\ call[c].pc = "syncDir" => call[c].entry <= Len(entries)
    /\ call[c].pc = "finish" => call[c].entry <= durable

\* As long as nothing is replaced, a call that has published has the key that is there.
PublishedIsTarget ==
  kind = "key" /\ ~replaced =>
    \A c \in Callers : call[c].pc \in {"syncDir", "finish"} => call[c].file = Target

WholeInv == FilesPrepared /\ TargetsWhole
DurableInv == EntriesInPlace /\ SavedIsDurable
AgreeInv == PublishedIsTarget /\ LoadsAgree

IInv == TypeOK /\ WholeInv /\ DurableInv /\ AgreeInv /\ TempsOwned

-----------------------------------------------------------------------------
(* Types *)

\* The target is one of the entries, of which there is always one.
LEMMA TargetType == TypeOK => Len(entries) \in Nat \ {0} /\ Target \in Files \cup {NoFile}
  BY DEF TypeOK, Target

\* A load that finds no file goes on to create one, or returns.
LEMMA LoadCalls ==
  ASSUME NEW c \in Callers, Load(c)
  PROVE  call' = call \/ call' = [call EXCEPT ![c].pc = "create", ![c].exclusive = (kind = "key")]
  BY Zenon DEF Load

\* Publishing a file of the call makes the entries one longer, ending in it.
LEMMA PublishAppends ==
  ASSUME TypeOK, NEW c \in Callers, call[c].pc = "publish", Publish(c)
  PROVE  /\ call' \in [Callers -> CallRecords]
         /\ \A d \in Callers : call'[d].file = call[d].file
         /\ \A d \in Callers : call'[d].pc = IF d = c THEN "syncDir" ELSE call[d].pc
         /\ \A d \in Callers : call'[d].entry = IF d = c THEN Len(entries) + 1 ELSE call[d].entry
         /\ entries' \in Seq(Files \cup {NoFile})
         /\ Len(entries') = Len(entries) + 1
         /\ \A i \in 1 .. Len(entries) : entries'[i] = entries[i]
         /\ Target' = call[c].file
<1>1. call[c].file \in Files \cup {NoFile} /\ entries \in Seq(Files \cup {NoFile})
  BY DEF TypeOK, CallRecords
<1>3. /\ call' \in [Callers -> CallRecords]
      /\ \A d \in Callers : call'[d].file = call[d].file
      /\ \A d \in Callers : call'[d].pc = IF d = c THEN "syncDir" ELSE call[d].pc
      /\ \A d \in Callers : call'[d].entry = IF d = c THEN Len(entries) + 1 ELSE call[d].entry
  <2>1. Len(entries) + 1 \in Nat
    BY <1>1
  <2> QED BY <2>1 DEF Publish, TypeOK, CallRecords, Pcs
<1>2. entries' = Append(entries, call[c].file)
  BY DEF Publish
<1> QED BY <1>1, <1>2, <1>3 DEF Target

\* Power loss leaves a first part of the entries.
LEMMA PowerLossCuts ==
  ASSUME TypeOK, NEW keep \in 1 .. Len(entries), NEW damaged, PowerLoss(keep, damaged)
  PROVE  /\ entries' \in Seq(Files \cup {NoFile})
         /\ Len(entries') = keep /\ durable' = keep /\ durable <= keep
         /\ \A i \in 1 .. keep : entries'[i] = entries[i]
<1>1. entries \in Seq(Files \cup {NoFile}) /\ durable \in 1 .. Len(entries)
  BY DEF TypeOK
<1>2. entries' = SubSeq(entries, 1, keep) /\ durable' = keep /\ durable <= keep
  BY DEF PowerLoss
<1> QED BY <1>1, <1>2

\* Type correctness is inductive.
LEMMA TypeStep == TypeOK /\ [Next]_vars => TypeOK'
<1> SUFFICES ASSUME TypeOK, [Next]_vars PROVE TypeOK'
  OBVIOUS
<1> USE DEF CallRecords, Pcs, NoFile
<1>1. ASSUME NEW c \in Callers, CallerNext(c) PROVE TypeOK'
  <2>1. CASE Load(c)
    <3>1. CASE call' = call
      BY <2>1, <3>1, TargetType DEF Load, TypeOK, disk
    <3>2. CASE call' = [call EXCEPT ![c].pc = "create", ![c].exclusive = (kind = "key")]
      <4>1. (kind = "key") \in BOOLEAN
        OBVIOUS
      <4>2. handed' \subseteq handed \cup ({Target} \ {NoFile})
        BY <2>1 DEF Load
      <4>3. call[c].pc = "idle" /\ UNCHANGED <<kind, disk, acked, replaced, orphans>>
        BY <2>1 DEF Load
      <4>4. call' \in [Callers -> CallRecords]
        <5> DEFINE r == [call[c] EXCEPT !.pc = "create", !.exclusive = (kind = "key")]
        <5>1. r \in CallRecords
          BY <4>1 DEF TypeOK
        <5>2. call' = [call EXCEPT ![c] = r]
          BY <3>2 DEF TypeOK
        <5> HIDE DEF r
        <5> QED BY <5>1, <5>2 DEF TypeOK
      <4>5. \A d \in Callers :
              /\ call'[d].file = call[d].file
              /\ call'[d].pc = IF d = c THEN "create" ELSE call[d].pc
        BY <3>2 DEF TypeOK
      <4>6. \A d \in Callers :
              call'[d].file = NoFile <=> call'[d].pc \in {"idle", "create", "reload"}
        BY <4>3, <4>5 DEF TypeOK
      <4>7. handed' \subseteq Files
        BY <4>2, TargetType DEF TypeOK
      <4> QED BY <4>3, <4>4, <4>6, <4>7 DEF TypeOK, disk
    <3> QED BY <2>1, <3>1, <3>2, LoadCalls
  <2>2. CASE Reload(c)
    BY <2>2, TargetType DEF Reload, NoCall, TypeOK, disk
  <2>3. CASE Save(c)
    BY <2>3 DEF Save, GoTo, TypeOK, disk, histories
  <2>4. CASE CreateTemp(c)
    BY <2>4, MaxFilesAssumption DEF CreateTemp, Files, TypeOK, histories
  <2>5. CASE WriteTemp(c)
    BY <2>5 DEF WriteTemp, GoTo, Files, TypeOK, histories
  <2>6. CASE SyncTemp(c)
    BY <2>6 DEF SyncTemp, GoTo, Files, TypeOK, histories
  <2>7. CASE Link(c)
    <3>1. /\ Publish(c) /\ call[c].pc = "publish"
          /\ UNCHANGED <<kind, nextFile, whole, synced, durable, acked, handed, orphans>>
          /\ temps' = temps /\ replaced' = replaced
      BY <2>7 DEF Link, histories
    <3>2. durable \in 1 .. Len(entries) + 1
      BY TargetType DEF TypeOK
    <3>3. \A d \in Callers :
            call'[d].file = NoFile <=> call'[d].pc \in {"idle", "create", "reload"}
      BY <3>1, PublishAppends DEF TypeOK
    <3> QED BY <3>1, <3>2, <3>3, PublishAppends DEF TypeOK
  <2>8. CASE LinkTaken(c)
    BY <2>8 DEF LinkTaken, NoCall, TypeOK, histories
  <2>9. CASE Rename(c)
    <3>1. /\ Publish(c) /\ call[c].pc = "publish"
          /\ UNCHANGED <<kind, nextFile, whole, synced, durable, acked, handed, orphans>>
          /\ temps' \subseteq temps /\ replaced' = TRUE
      BY <2>9 DEF Rename
    <3>2. durable \in 1 .. Len(entries) + 1
      BY TargetType DEF TypeOK
    <3>3. \A d \in Callers :
            call'[d].file = NoFile <=> call'[d].pc \in {"idle", "create", "reload"}
      BY <3>1, PublishAppends DEF TypeOK
    <3> QED BY <3>1, <3>2, <3>3, PublishAppends DEF TypeOK
  <2>10. CASE SyncParent(c)
    BY <2>10 DEF SyncParent, GoTo, TypeOK, histories
  <2>11. CASE Finish(c)
    BY <2>11 DEF Finish, Return, NoCall, AtLeast, Files, TypeOK
  <2>12. CASE Fail(c)
    BY <2>12 DEF Fail, Return, NoCall, TypeOK, histories
  <2>13. CASE Kill(c)
    BY <2>13 DEF Kill, NoCall, TypeOK, disk
  <2> QED BY <1>1, <2>1, <2>2, <2>3, <2>4, <2>5, <2>6, <2>7, <2>8, <2>9, <2>10, <2>11,
             <2>12, <2>13 DEF CallerNext
<1>2. ASSUME NEW keep \in 1 .. Len(entries), NEW damaged \in SUBSET Files,
             PowerLoss(keep, damaged)
      PROVE  TypeOK'
  <2>1. /\ call' \in [Callers -> CallRecords]
        /\ \A d \in Callers : call'[d].file = NoFile /\ call'[d].pc = "idle"
    BY <1>2 DEF PowerLoss, NoCall
  <2>2. entries' \in Seq(Files \cup {NoFile}) /\ durable' \in 1 .. Len(entries')
    BY <1>2, PowerLossCuts
  <2> QED BY <1>2, <2>1, <2>2 DEF PowerLoss, TypeOK
<1>3. CASE UNCHANGED vars
  BY <1>3 DEF vars, disk, histories, TypeOK
<1> QED BY <1>1, <1>2, <1>3 DEF Next

-----------------------------------------------------------------------------
(* What the actions leave alone *)

\* Loading, and the beginning of a save, hand out the target and leave the disk alone.
LEMMA QuietSteps ==
  ASSUME TypeOK, NEW c \in Callers, Load(c) \/ Reload(c) \/ Save(c)
  PROVE  /\ UNCHANGED <<kind, nextFile, temps, whole, synced, entries, durable>>
         /\ UNCHANGED <<acked, replaced, orphans>>
         /\ handed' \subseteq handed \cup {Target}
         /\ \A d \in Callers : call'[d].file = call[d].file
         /\ \A d \in Callers : call'[d] = call[d] \/ call'[d].pc \in {"idle", "create"}
<1> USE DEF disk, histories
<1>1. CASE Load(c)
  <2>1. CASE call' = call
    BY <1>1, <2>1 DEF Load
  <2>2. CASE call' = [call EXCEPT ![c].pc = "create", ![c].exclusive = (kind = "key")]
    BY <1>1, <2>2 DEF Load, TypeOK, CallRecords
  <2> QED BY <1>1, <2>1, <2>2, LoadCalls
<1>2. CASE Reload(c)
  BY <1>2 DEF Reload, NoCall, TypeOK
<1>3. CASE Save(c)
  BY <1>3 DEF Save, GoTo, TypeOK, CallRecords
<1> QED BY <1>1, <1>2, <1>3

\* Preparing a temporary file leaves the target and the histories alone.
LEMMA PreparingSteps ==
  ASSUME TypeOK, NEW c \in Callers, CreateTemp(c) \/ WriteTemp(c) \/ SyncTemp(c)
  PROVE  /\ UNCHANGED <<kind, entries, durable, acked, handed, replaced, orphans>>
         /\ \A d \in Callers :
              call'[d] = call[d] \/ call'[d].pc \in {"write", "syncFile", "publish"}
<1> USE DEF histories, TypeOK
<1>1. CASE CreateTemp(c)
  BY <1>1 DEF CreateTemp
<1>2. CASE WriteTemp(c)
  BY <1>2 DEF WriteTemp, GoTo
<1>3. CASE SyncTemp(c)
  BY <1>3 DEF SyncTemp, GoTo
<1> QED BY <1>1, <1>2, <1>3

\* The end of a call leaves the target alone and takes its temporary name away,
\* unless the process was killed.
LEMMA EndingSteps ==
  ASSUME TypeOK, NEW c \in Callers, LinkTaken(c) \/ Finish(c) \/ Fail(c) \/ Kill(c)
  PROVE  /\ UNCHANGED <<kind, whole, synced, entries, durable, replaced>>
         /\ \A d \in Callers \ {c} : call'[d] = call[d]
         /\ call'[c].pc \in {"idle", "reload"}
         /\ temps' = temps \ {call[c].file} \/ call[c].file \in {NoFile} \cup orphans'
         /\ orphans \subseteq orphans' /\ temps' \subseteq temps
<1> USE DEF disk, histories, NoCall, TypeOK
<1>1. CASE LinkTaken(c)
  BY <1>1 DEF LinkTaken
<1>2. CASE Finish(c)
  BY <1>2 DEF Finish, Return
<1>3. CASE Fail(c)
  BY <1>3 DEF Fail, Return
<1>4. CASE Kill(c)
  BY <1>4 DEF Kill
<1> QED BY <1>1, <1>2, <1>3, <1>4

\* Publishing leaves everything else alone but for the temporary name and a history.
LEMMA PublishingSteps ==
  ASSUME TypeOK, NEW c \in Callers, Link(c) \/ Rename(c)
  PROVE  /\ Publish(c) /\ call[c].pc = "publish"
         /\ UNCHANGED <<kind, nextFile, whole, synced, durable, acked, handed, orphans>>
         /\ temps' \subseteq temps
<1>1. CASE Link(c)
  BY <1>1 DEF Link, histories
<1>2. CASE Rename(c)
  BY <1>2 DEF Rename
<1> QED BY <1>1, <1>2

\* Power loss ends every call.
LEMMA PowerLossEnds ==
  ASSUME TypeOK, NEW keep, NEW damaged, PowerLoss(keep, damaged)
  PROVE  /\ \A d \in Callers : call'[d].pc = "idle"
         /\ acked' = acked /\ synced' = synced /\ whole' \cap synced = whole \cap synced
  BY DEF PowerLoss, NoCall

-----------------------------------------------------------------------------
(* Whole targets *)

\* Only what is written and synced is published, and that stays so.
LEMMA WholeStep == TypeOK /\ WholeInv /\ [Next]_vars => WholeInv'
<1> SUFFICES ASSUME TypeOK, WholeInv, [Next]_vars PROVE WholeInv'
  OBVIOUS
<1> USE DEF WholeInv, FilesPrepared, TargetsWhole, NoFile
<1>1. ASSUME NEW c \in Callers, CallerNext(c) PROVE WholeInv'
  <2>1. CASE Load(c) \/ Reload(c) \/ Save(c)
    BY <2>1, QuietSteps
  <2>2. CASE CreateTemp(c)
    BY <2>2 DEF CreateTemp, histories, TypeOK
  <2>3. CASE WriteTemp(c)
    BY <2>3 DEF WriteTemp, GoTo, histories, TypeOK
  <2>4. CASE SyncTemp(c)
    BY <2>4 DEF SyncTemp, GoTo, histories, TypeOK
  <2>5. CASE Link(c) \/ Rename(c)
    <3>1. /\ call[c].file \in whole \cap synced
          /\ whole' = whole /\ synced' = synced /\ durable' = durable
      BY <2>5, PublishingSteps
    <3>2. FilesPrepared'
      BY <2>5, <3>1, PublishingSteps, PublishAppends
    <3>3. ASSUME NEW i \in durable .. Len(entries')
          PROVE  entries'[i] \in {NoFile} \cup (whole \cap synced)
      <4>1. Len(entries') = Len(entries) + 1 /\ Target' = call[c].file
        BY <2>5, PublishingSteps, PublishAppends
      <4>2. CASE i = Len(entries')
        BY <3>1, <4>1, <4>2 DEF Target
      <4>3. CASE i \in 1 .. Len(entries)
        <5>1. entries'[i] = entries[i]
          BY <2>5, <4>3, PublishingSteps, PublishAppends
        <5> QED BY <4>3, <5>1
      <4>4. durable \in Nat \ {0} /\ Len(entries) \in Nat
        BY TargetType DEF TypeOK
      <4> QED BY <4>1, <4>2, <4>3, <4>4
    <3> QED BY <3>1, <3>2, <3>3
  <2>6. CASE LinkTaken(c) \/ Finish(c) \/ Fail(c) \/ Kill(c)
    BY <2>6, EndingSteps
  <2>7. CASE SyncParent(c)
    <3>1. durable' \in durable .. Len(entries)
      BY <2>7, TargetType DEF SyncParent, TypeOK
    <3> QED BY <2>7, <3>1, TargetType DEF SyncParent, GoTo, TypeOK
  <2> QED BY <1>1, <2>1, <2>2, <2>3, <2>4, <2>5, <2>6, <2>7 DEF CallerNext
<1>2. ASSUME NEW keep \in 1 .. Len(entries), NEW damaged \in SUBSET Files,
             PowerLoss(keep, damaged)
      PROVE  WholeInv'
  <2>1. keep \in durable .. Len(entries)
    BY <1>2 DEF PowerLoss
  <2>2. entries'[keep] = entries[keep] /\ durable' = keep /\ Len(entries') = keep
    BY <1>2, PowerLossCuts
  <2>3. TargetsWhole'
    BY <1>2, <2>1, <2>2, PowerLossEnds
  <2> QED BY <1>2, <2>3, PowerLossEnds
<1>3. CASE UNCHANGED vars
  BY <1>3 DEF vars, disk
<1> QED BY <1>1, <1>2, <1>3 DEF Next

-----------------------------------------------------------------------------
(* Durable success *)

\* What was durable stays durable, and a save succeeds when its entry is.
LEMMA DurableStep == TypeOK /\ DurableInv /\ [Next]_vars => DurableInv'
<1> SUFFICES ASSUME TypeOK, DurableInv, [Next]_vars PROVE DurableInv'
  OBVIOUS
<1> USE DEF DurableInv, EntriesInPlace, SavedIsDurable
<1>1. ASSUME NEW c \in Callers, CallerNext(c) PROVE DurableInv'
  <2>1. CASE Load(c) \/ Reload(c) \/ Save(c)
    BY <2>1, QuietSteps
  <2>2. CASE CreateTemp(c) \/ WriteTemp(c) \/ SyncTemp(c)
    BY <2>2, PreparingSteps
  <2>3. CASE Link(c) \/ Rename(c)
    <3>1. /\ durable' = durable /\ acked' = acked
          /\ Len(entries') = Len(entries) + 1
          /\ \A d \in Callers : call'[d].pc = IF d = c THEN "syncDir" ELSE call[d].pc
          /\ \A d \in Callers : call'[d].entry = IF d = c THEN Len(entries) + 1 ELSE call[d].entry
      BY <2>3, PublishingSteps, PublishAppends
    <3>2. \A d \in Callers : call[d].entry \in Nat
      BY DEF TypeOK, CallRecords
    <3> QED BY <3>1, <3>2, TargetType
  <2>4. CASE LinkTaken(c) \/ Fail(c) \/ Kill(c)
    <3>1. acked' = acked
      BY <2>4 DEF LinkTaken, Fail, Kill, histories
    <3> QED BY <2>4, <3>1, EndingSteps
  <2>5. CASE SyncParent(c)
    <3>1. /\ durable' = Len(entries) /\ durable <= Len(entries)
          /\ entries' = entries /\ acked' = acked
      BY <2>5, TargetType DEF SyncParent, histories, TypeOK
    <3>2. \A d \in Callers : call[d].entry \in Nat /\ call'[d].entry = call[d].entry
      BY <2>5 DEF SyncParent, GoTo, TypeOK, CallRecords
    <3>3. \A d \in Callers : call'[d].pc = IF d = c THEN "finish" ELSE call[d].pc
      BY <2>5 DEF SyncParent, GoTo, TypeOK, CallRecords
    <3>4. call[c].pc = "syncDir" /\ durable \in Nat /\ acked \in Nat
      BY <2>5 DEF SyncParent, TypeOK
    <3> QED BY <3>1, <3>2, <3>3, <3>4, TargetType
  <2>6. CASE Finish(c)
    <3>1. acked' <= durable
      BY <2>6 DEF Finish, AtLeast
    <3> QED BY <2>6, <3>1, EndingSteps
  <2> QED BY <1>1, <2>1, <2>2, <2>3, <2>4, <2>5, <2>6 DEF CallerNext
<1>2. ASSUME NEW keep \in 1 .. Len(entries), NEW damaged \in SUBSET Files,
             PowerLoss(keep, damaged)
      PROVE  DurableInv'
  <2>1. durable' = keep /\ durable <= keep
    BY <1>2, PowerLossCuts
  <2> QED BY <1>2, <2>1, PowerLossEnds DEF TypeOK
<1>3. CASE UNCHANGED vars
  BY <1>3 DEF vars, disk, histories
<1> QED BY <1>1, <1>2, <1>3 DEF Next

-----------------------------------------------------------------------------
(* One key for all *)

\* Only one key can be put where none is, and it stays until it is replaced.
LEMMA AgreeStep == TypeOK /\ AgreeInv /\ [Next]_vars => AgreeInv'
<1> SUFFICES ASSUME TypeOK, AgreeInv, [Next]_vars PROVE AgreeInv'
  OBVIOUS
<1> USE DEF AgreeInv, PublishedIsTarget, LoadsAgree
<1>1. ASSUME NEW c \in Callers, CallerNext(c) PROVE AgreeInv'
  <2>1. CASE Load(c) \/ Reload(c) \/ Save(c)
    BY <2>1, QuietSteps DEF Target
  <2>2. CASE CreateTemp(c) \/ WriteTemp(c) \/ SyncTemp(c)
    BY <2>2, PreparingSteps DEF Target
  <2>3. CASE Link(c)
    <3>1. Target = NoFile /\ UNCHANGED <<kind, handed, replaced>>
      BY <2>3 DEF Link, histories
    <3>2. /\ Target' = call[c].file
          /\ \A d \in Callers : call'[d].file = call[d].file
          /\ \A d \in Callers : call'[d].pc = IF d = c THEN "syncDir" ELSE call[d].pc
      BY <2>3, PublishingSteps, PublishAppends
    <3>3. SUFFICES ASSUME kind = "key", ~replaced
                   PROVE  /\ handed' \subseteq {Target'}
                          /\ \A d \in Callers : call'[d].pc \in {"syncDir", "finish"} =>
                                                  call'[d].file = Target'
      BY <3>1
    <3>4. handed = {}
      BY <3>1, <3>3 DEF TypeOK, Files, NoFile
    <3>5. \A d \in Callers : call[d].pc \notin {"syncDir", "finish"}
      BY <3>1, <3>3 DEF TypeOK
    <3> QED BY <3>1, <3>2, <3>4, <3>5
  <2>4. CASE LinkTaken(c) \/ Fail(c) \/ Kill(c)
    <3>1. handed' = handed
      BY <2>4 DEF LinkTaken, Fail, Kill, histories
    <3> QED BY <2>4, <3>1, EndingSteps DEF Target
  <2>5. CASE Rename(c)
    BY <2>5 DEF Rename
  <2>6. CASE SyncParent(c)
    <3>1. \A d \in Callers :
            /\ call'[d].file = call[d].file
            /\ call'[d].pc \in {"syncDir", "finish"} => call[d].pc \in {"syncDir", "finish"}
      BY <2>6 DEF SyncParent, GoTo, TypeOK, CallRecords
    <3> QED BY <2>6, <3>1 DEF SyncParent, histories, Target
  <2>7. CASE Finish(c)
    <3>1. call[c].pc = "finish" /\ handed' = handed \cup {call[c].file}
      BY <2>7 DEF Finish
    <3> QED BY <2>7, <3>1, EndingSteps DEF Target
  <2> QED BY <1>1, <2>1, <2>2, <2>3, <2>4, <2>5, <2>6, <2>7 DEF CallerNext
<1>2. ASSUME NEW keep \in 1 .. Len(entries), NEW damaged \in SUBSET Files,
             PowerLoss(keep, damaged)
      PROVE  AgreeInv'
  <2>1. handed' = {}
    BY <1>2 DEF PowerLoss
  <2> QED BY <1>2, <2>1, PowerLossEnds
<1>3. CASE UNCHANGED vars
  BY <1>3 DEF vars, disk, histories, Target
<1> QED BY <1>1, <1>2, <1>3 DEF Next

-----------------------------------------------------------------------------
(* No stray temporary files *)

\* A call that ends takes its temporary file with it or leaves it as an orphan.
LEMMA TempsStep == TypeOK /\ TempsOwned /\ [Next]_vars => TempsOwned'
<1> SUFFICES ASSUME TypeOK, TempsOwned, [Next]_vars,
                    NEW f \in temps', f \notin orphans'
             PROVE  \E d \in Callers : call'[d].file = f
  BY DEF TempsOwned
<1>1. f \in temps \ orphans => \E d \in Callers : call[d].file = f
  BY DEF TempsOwned
<1>2. ASSUME NEW c \in Callers, CallerNext(c) PROVE \E d \in Callers : call'[d].file = f
  <2>1. CASE Load(c) \/ Reload(c) \/ Save(c)
    BY <1>1, <2>1, QuietSteps
  <2>2. CASE CreateTemp(c)
    <3>1. CASE f = nextFile
      BY <2>2, <3>1 DEF CreateTemp, TypeOK, CallRecords
    <3>2. CASE f # nextFile
      <4>1. f \in temps \ orphans /\ f \in Files
        BY <2>2, <3>2 DEF CreateTemp, TypeOK, histories
      <4>2. PICK d \in Callers : call[d].file = f
        BY <1>1, <4>1
      <4>3. d # c
        BY <2>2, <4>1, <4>2 DEF CreateTemp, TypeOK, Files, NoFile
      <4> QED BY <2>2, <4>2, <4>3 DEF CreateTemp, TypeOK
    <3> QED BY <3>1, <3>2
  <2>3. CASE WriteTemp(c) \/ SyncTemp(c) \/ SyncParent(c)
    <3>1. \A d \in Callers : call'[d].file = call[d].file
      <4>1. \E pc \in Pcs : GoTo(c, pc)
        BY <2>3 DEF WriteTemp, SyncTemp, SyncParent, Pcs
      <4> QED BY <4>1 DEF GoTo, TypeOK, CallRecords
    <3>2. temps' = temps /\ orphans' = orphans
      BY <2>3 DEF WriteTemp, SyncTemp, SyncParent, histories
    <3> QED BY <1>1, <3>1, <3>2
  <2>4. CASE Link(c) \/ Rename(c)
    BY <1>1, <2>4, PublishingSteps, PublishAppends
  <2>5. CASE LinkTaken(c) \/ Finish(c) \/ Fail(c) \/ Kill(c)
    <3>1. f \in temps \ orphans
      BY <2>5, EndingSteps
    <3>2. f # NoFile
      BY <3>1 DEF TypeOK, Files, NoFile
    <3>3. f # call[c].file
      BY <2>5, <3>2, EndingSteps
    <3> QED BY <1>1, <2>5, <3>1, <3>3, EndingSteps
  <2> QED BY <1>2, <2>1, <2>2, <2>3, <2>4, <2>5 DEF CallerNext
<1>3. ASSUME NEW keep \in 1 .. Len(entries), NEW damaged \in SUBSET Files,
             PowerLoss(keep, damaged)
      PROVE  \E d \in Callers : call'[d].file = f
  BY <1>3 DEF PowerLoss
<1>4. CASE UNCHANGED vars
  BY <1>1, <1>4 DEF vars, disk, histories
<1> QED BY <1>2, <1>3, <1>4 DEF Next

-----------------------------------------------------------------------------
(* Theorems *)

\* The invariant holds before the file is there.
LEMMA InitIInv == Init => IInv
<1> SUFFICES ASSUME Init PROVE IInv
  OBVIOUS
<1>1. /\ \A c \in Callers : call[c].file = NoFile /\ call[c].pc = "idle"
      /\ call \in [Callers -> CallRecords]
  BY DEF Init, NoCall, CallRecords, Pcs
<1>2. entries \in Seq(Files \cup {NoFile}) /\ Len(entries) = 1 /\ entries[1] = NoFile
  BY DEF Init
<1>3. TypeOK
  <2>1. nextFile \in 1 .. MaxFiles + 1 /\ durable \in 1 .. Len(entries) /\ acked \in Nat
    BY <1>2, MaxFilesAssumption DEF Init
  <2>2. /\ temps = {} /\ whole = {} /\ synced = {} /\ handed = {} /\ orphans = {}
        /\ kind \in Kinds /\ replaced \in BOOLEAN
    BY DEF Init
  <2> QED BY <1>1, <1>2, <2>1, <2>2 DEF TypeOK
<1>4. WholeInv /\ DurableInv
  BY <1>1, <1>2
     DEF Init, WholeInv, FilesPrepared, TargetsWhole, DurableInv, EntriesInPlace, SavedIsDurable
<1>5. AgreeInv /\ TempsOwned
  BY <1>1 DEF Init, AgreeInv, PublishedIsTarget, LoadsAgree, TempsOwned
<1> QED BY <1>3, <1>4, <1>5 DEF IInv

\* The inductive invariant holds in every state.
LEMMA Invariance == Spec => []IInv
<1>1. IInv /\ [Next]_vars => IInv'
  BY TypeStep, WholeStep, DurableStep, AgreeStep, TempsStep DEF IInv
<1> QED BY InitIInv, <1>1, PTL DEF Spec

\* Every variable keeps its type, and a call has a temporary file exactly from its
\* creation until the call is over or the name turned out to be taken.
THEOREM TypeCorrect == Spec => []TypeOK
<1>1. IInv => TypeOK
  BY DEF IInv
<1> QED BY Invariance, <1>1, PTL

\* Whenever the power goes, the target is nothing or a whole file
\* (write_temp_key and its kin write and sync before they publish).
THEOREM FilesAreWhole == Spec => []TargetsWhole
<1>1. IInv => TargetsWhole
  BY DEF IInv, WholeInv
<1> QED BY Invariance, <1>1, PTL

\* A save that has returned success is not undone by power loss (sync_parent).
THEOREM SuccessIsDurable == Spec => []SavedIsDurable
<1>1. IInv => SavedIsDurable
  BY DEF IInv, DurableInv
<1> QED BY Invariance, <1>1, PTL

\* However many callers load a key that is not there, they get the same one
\* (save_key_exclusive), as long as nobody replaces it.
THEOREM OneKeyForAll == Spec => []LoadsAgree
<1>1. IInv => LoadsAgree
  BY DEF IInv, AgreeInv
<1> QED BY Invariance, <1>1, PTL

\* A temporary file belongs to a call or to one that was killed (TempKey::drop
\* and its kin).
THEOREM NoStrayTemps == Spec => []TempsOwned
<1>1. IInv => TempsOwned
  BY DEF IInv
<1> QED BY Invariance, <1>1, PTL
=============================================================================
