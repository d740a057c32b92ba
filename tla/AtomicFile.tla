----------------------------- MODULE AtomicFile -----------------------------
(***************************************************************************)
(* A file that core/src/persist keeps: the key of key.rs, the profile of   *)
(* profile.rs or the host state of host_state.rs, with the calls that load *)
(* and save it, in threads of one process or in several processes.         *)
(*                                                                         *)
(* Every save writes a temporary file beside the target, syncs it, gives   *)
(* it the target's name and syncs the directory.  A key that is not there  *)
(* is created by a hard link, which fails when the name is taken; every    *)
(* other save renames, which replaces.  A saved file is named by the order *)
(* in which its temporary file was created; each holds another value.      *)
(*                                                                         *)
(* A call may fail at any step, its process may be killed, and the machine *)
(* may lose power.  The file system (external) keeps what was synced; of   *)
(* the directory entries that were not, power loss keeps the first few, of *)
(* data that was not, anything.  It is modelled as on Unix: elsewhere      *)
(* sync_parent does nothing.  Parsing, and directories that have to be     *)
(* created first, are left out.                                            *)
(***************************************************************************)
EXTENDS Naturals, Sequences, FiniteSets

CONSTANTS
  Callers,   \* Threads and processes that load and save the file.
  Kinds,     \* Kinds of file: "key", "profile" or "state".
  MaxFiles   \* Bound on the temporary files created.

ASSUME KindsAssumption == Kinds \subseteq {"key", "profile", "state"}
ASSUME MaxFilesAssumption == MaxFiles \in Nat

VARIABLES
  kind,      \* Which file this is.
  call,      \* Where each caller is, and the temporary file it has.
  nextFile,  \* The next file to be created.
  temps,     \* Files with a temporary name.
  whole,     \* Files whose data has been written.
  synced,    \* Files whose data has been synced.
  entries,   \* What the target's name has referred to, in order.
  durable,   \* How many of the entries power loss is sure to keep.
  acked,     \* History: the last entry whose save has returned success.
  handed,    \* History: files handed out by a load or a save, since the last power loss.
  replaced,  \* History: a save has replaced, since the last power loss.
  orphans    \* History: files of calls that were killed.

\* The files themselves, and what the histories remember of them.
disk == <<nextFile, temps, whole, synced, entries, durable>>
histories == <<acked, handed, replaced, orphans>>
vars == <<kind, call, disk, histories>>

-----------------------------------------------------------------------------
(* Types and helpers *)

Files == 1 .. MaxFiles
NoFile == 0

Pcs == {"idle", "create", "write", "syncFile", "publish", "syncDir", "finish", "reload"}

CallRecords == [pc : Pcs, exclusive : BOOLEAN, file : Files \cup {NoFile}, entry : Nat]

\* exclusive tells save_key_exclusive from the saves that replace; entry is the
\* place in `entries' of what this call has published.
NoCall == [pc |-> "idle", exclusive |-> FALSE, file |-> NoFile, entry |-> 0]

Target == entries[Len(entries)]

AtLeast(a, b) == IF a > b THEN a ELSE b

TypeOK ==
  /\ kind \in Kinds
  /\ call \in [Callers -> CallRecords]
  /\ \A c \in Callers : call[c].file = NoFile <=> call[c].pc \in {"idle", "create", "reload"}
  /\ nextFile \in 1 .. MaxFiles + 1
  /\ temps \subseteq Files
  /\ whole \subseteq Files
  /\ synced \subseteq Files
  /\ entries \in Seq(Files \cup {NoFile})
  /\ durable \in 1 .. Len(entries)
  /\ acked \in Nat
  /\ handed \subseteq Files
  /\ replaced \in BOOLEAN
  /\ orphans \subseteq Files

\* The file is not there yet.
Init ==
  /\ kind \in Kinds
  /\ call = [c \in Callers |-> NoCall]
  /\ nextFile = 1
  /\ temps = {}
  /\ whole = {}
  /\ synced = {}
  /\ entries = <<NoFile>>
  /\ durable = 1
  /\ acked = 1
  /\ handed = {}
  /\ replaced = FALSE
  /\ orphans = {}

GoTo(c, pc) == call' = [call EXCEPT ![c].pc = pc]

\* The call returns; a temporary file it has is dropped with it.
Return(c) ==
  /\ call' = [call EXCEPT ![c] = NoCall]
  /\ temps' = temps \ {call[c].file}

-----------------------------------------------------------------------------
(* Loading *)

\* The target is read whole by one call of std::fs::read.  A key or a profile that
\* is not there is created; load_host_state returns None.
Load(c) ==
  /\ call[c].pc = "idle"
  /\ IF Target # NoFile
     THEN /\ handed' = handed \cup {Target}
          /\ UNCHANGED call
     ELSE /\ call' = IF kind = "state" THEN call
                     ELSE [call EXCEPT ![c].pc = "create", ![c].exclusive = (kind = "key")]
          /\ UNCHANGED handed
  /\ UNCHANGED <<kind, disk, acked, replaced, orphans>>

\* generate_key_exclusive loads the key that another caller has published.
Reload(c) ==
  /\ call[c].pc = "reload"
  /\ handed' = handed \cup ({Target} \ {NoFile})
  /\ call' = [call EXCEPT ![c] = NoCall]
  /\ UNCHANGED <<kind, disk, acked, replaced, orphans>>

-----------------------------------------------------------------------------
(* Saving *)

\* generate_new_key, Profile::save_to or save_host_state is called.
Save(c) ==
  /\ call[c].pc = "idle"
  /\ GoTo(c, "create")
  /\ UNCHANGED <<kind, disk, histories>>

\* A temporary name that is taken is tried again under another one.
CreateTemp(c) ==
  /\ call[c].pc = "create"
  /\ nextFile \in Files
  /\ call' = [call EXCEPT ![c].pc = "write", ![c].file = nextFile]
  /\ nextFile' = nextFile + 1
  /\ temps' = temps \cup {nextFile}
  /\ UNCHANGED <<kind, whole, synced, entries, durable, histories>>

WriteTemp(c) ==
  /\ call[c].pc = "write"
  /\ whole' = whole \cup {call[c].file}
  /\ GoTo(c, "syncFile")
  /\ UNCHANGED <<kind, nextFile, temps, synced, entries, durable, histories>>

\* Mutant: the data is not synced.
SkipSync(c) ==
  /\ call[c].pc = "syncFile"
  /\ GoTo(c, "publish")
  /\ UNCHANGED <<kind, disk, histories>>

SyncTemp(c) ==
  /\ call[c].pc = "syncFile"
  /\ synced' = synced \cup {call[c].file}
  /\ GoTo(c, "publish")
  /\ UNCHANGED <<kind, nextFile, temps, whole, entries, durable, histories>>

\* The target's name refers to the file of c from now on.
Publish(c) ==
  /\ entries' = Append(entries, call[c].file)
  /\ call' = [call EXCEPT ![c].pc = "syncDir", ![c].entry = Len(entries) + 1]

\* Mutant: a key is put in place whether or not there is one.
LinkOver(c) ==
  /\ call[c].pc = "publish"
  /\ call[c].exclusive
  /\ Publish(c)
  /\ UNCHANGED <<kind, nextFile, temps, whole, synced, durable, histories>>

\* hard_link, which gives the target's name to the temporary file ...
Link(c) ==
  /\ call[c].pc = "publish"
  /\ call[c].exclusive
  /\ Target = NoFile
  /\ Publish(c)
  /\ UNCHANGED <<kind, nextFile, temps, whole, synced, durable, histories>>

\* ... unless it is taken: AlreadyExists, and the temporary file is dropped.
LinkTaken(c) ==
  /\ call[c].pc = "publish"
  /\ call[c].exclusive
  /\ Target # NoFile
  /\ call' = [call EXCEPT ![c] = [NoCall EXCEPT !.pc = "reload"]]
  /\ temps' = temps \ {call[c].file}
  /\ UNCHANGED <<kind, nextFile, whole, synced, entries, durable, histories>>

\* rename, which also takes the temporary name away.
Rename(c) ==
  /\ call[c].pc = "publish"
  /\ ~call[c].exclusive
  /\ Publish(c)
  /\ temps' = temps \ {call[c].file}
  /\ replaced' = TRUE
  /\ UNCHANGED <<kind, nextFile, whole, synced, durable, acked, handed, orphans>>

\* Mutant: the directory is not synced.
SkipParent(c) ==
  /\ call[c].pc = "syncDir"
  /\ GoTo(c, "finish")
  /\ UNCHANGED <<kind, disk, histories>>

SyncParent(c) ==
  /\ call[c].pc = "syncDir"
  /\ durable' = Len(entries)
  /\ GoTo(c, "finish")
  /\ UNCHANGED <<kind, nextFile, temps, whole, synced, entries, histories>>

\* The save returns success.
Finish(c) ==
  /\ call[c].pc = "finish"
  /\ acked' = AtLeast(acked, call[c].entry)
  /\ handed' = handed \cup {call[c].file}
  /\ Return(c)
  /\ UNCHANGED <<kind, nextFile, whole, synced, entries, durable, replaced, orphans>>

-----------------------------------------------------------------------------
(* Failures *)

\* A step returns an error, and so does the call.
Fail(c) ==
  /\ call[c].pc \notin {"idle", "finish"}
  /\ Return(c)
  /\ UNCHANGED <<kind, nextFile, whole, synced, entries, durable, histories>>

\* The process is killed: nothing is dropped.
Kill(c) ==
  /\ call[c].pc # "idle"
  /\ call' = [call EXCEPT ![c] = NoCall]
  /\ orphans' = orphans \cup ({call[c].file} \ {NoFile})
  /\ UNCHANGED <<kind, disk, acked, handed, replaced>>

\* Every process is gone, entries that were not synced are kept up to some
\* point, and data that was not synced is damaged or not.
PowerLoss(keep, damaged) ==
  /\ keep \in durable .. Len(entries)
  /\ damaged \subseteq whole \ synced
  /\ call' = [c \in Callers |-> NoCall]
  /\ entries' = SubSeq(entries, 1, keep)
  /\ durable' = keep
  /\ whole' = whole \ damaged
  /\ handed' = {}
  /\ replaced' = FALSE
  /\ orphans' = orphans \cup temps
  /\ UNCHANGED <<kind, nextFile, temps, synced, acked>>

-----------------------------------------------------------------------------
CallerNext(c) ==
  \/ Load(c) \/ Reload(c)
  \/ Save(c) \/ CreateTemp(c) \/ WriteTemp(c) \/ SyncTemp(c)
  \/ Link(c) \/ LinkTaken(c) \/ Rename(c)
  \/ SyncParent(c) \/ Finish(c)
  \/ Fail(c) \/ Kill(c)

Next ==
  \/ \E c \in Callers : CallerNext(c)
  \/ \E keep \in 1 .. Len(entries), damaged \in SUBSET Files : PowerLoss(keep, damaged)

Spec == Init /\ [][Next]_vars

-----------------------------------------------------------------------------
(* Safety *)

\* Whenever the power goes, what the target's name refers to afterwards is nothing
\* or a file that is whole: no loader ever finds a truncated one.
TargetsWhole ==
  \A i \in durable .. Len(entries) : entries[i] \in {NoFile} \cup (whole \cap synced)

\* A save that has returned success is not undone by a later power loss: it, or a
\* later one, is what is found.
SavedIsDurable == acked <= durable

\* As long as nobody replaces the key, everyone who loads it, creating it when it is
\* not there, is handed the same one, and it is the one that is there.
LoadsAgree == kind = "key" /\ ~replaced => handed \subseteq {Target}

\* A call that returns, with success or an error, leaves no temporary file behind:
\* what is there belongs to a call, or to one that was killed.
TempsOwned == temps \subseteq {call[c].file : c \in Callers} \cup orphans
=============================================================================
