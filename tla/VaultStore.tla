----------------------------- MODULE VaultStore -----------------------------
(***************************************************************************)
(* The vault file and the files beside it (`.lock`, `.bak`, temporary      *)
(* files) under concurrent wcm commands, process crashes and power         *)
(* outages: crates/wcm-core/src/vault/file.rs and vault/mod.rs, with the   *)
(* callers' steps around a save (wcm-cli context.rs, commands/export.rs).  *)
(*                                                                         *)
(* wcm has no daemon: each command is one operating-system process that    *)
(* loads the vault once, changes it in memory and saves it at most once    *)
(* (an export: twice). A command is therefore an element of Cmds, and "the *)
(* change made by command c" is the element c of a file's `edits`.         *)
(***************************************************************************)
EXTENDS Naturals, FiniteSets

CONSTANTS
  Cmds,        \* the wcm processes that run against this vault file
  NoCmd,       \* no command: the key of a file that is absent or torn
  Kinds,       \* the kinds of command that may run
  DirSyncs,    \* sync_dir always works; otherwise it may do nothing (Windows, errors)
  OldOrNew,    \* the filesystem keeps the old or the new file of a rename in an outage
  MaxOutages   \* bound on the number of power outages

ASSUME CmdsAssumption == NoCmd \notin Cmds
ASSUME KindsAssumption == Kinds \subseteq {"init", "read", "edit", "rekey", "export"}
ASSUME BoundsAssumption == DirSyncs \in BOOLEAN /\ OldOrNew \in BOOLEAN /\ MaxOutages \in Nat

VARIABLES
  pc,        \* pc[c]: the step command c is about to take, or how it ended
  kind,      \* kind[c]: what command c is
  before,    \* history: the writers confirmed before command c started
  dek,       \* dek[c]: the key c unwrapped from the header's key slots
  loaded,    \* loaded[c]: the vault as c last loaded or saved it
  fd,        \* fd[c]: the lock file (inode) c has open, 0 when none
  holds,     \* the commands that hold the advisory lock of their fd
  lockFile,  \* the inode named `<vault>.lock`, 0 when there is none
  inodes,    \* the number of lock files created so far
  tmp,       \* tmp[c]: c's temporary file
  synced,    \* synced[c]: c's temporary file has been fsynced
  vault,     \* the vault file
  mayVault,  \* what the vault file may be after a power outage
  bak,       \* the backup file `<vault>.bak`
  mayBak,    \* what the backup may be after a power outage
  outages    \* the number of power outages so far

cmdVars  == <<pc, kind, before, dek, loaded>>
lockVars == <<fd, holds, lockFile, inodes>>
tmpVars  == <<tmp, synced>>
fileVars == <<vault, mayVault, bak, mayBak>>
vars == <<cmdVars, lockVars, tmpVars, fileVars, outages>>

-----------------------------------------------------------------------------
(* Files *)

(* A vault file: generation counter, data encryption key and body.  Header  *)
(* and body are one ciphertext, so a file is whole or it does not decode.   *)
File == [state : {"absent", "torn", "whole"}, gen : Nat,
         key : Cmds \cup {NoCmd}, edits : SUBSET Cmds]

Absent == [state |-> "absent", gen |-> 0, key |-> NoCmd, edits |-> {}]
Torn   == [state |-> "torn",   gen |-> 0, key |-> NoCmd, edits |-> {}]

Exists(f) == f.state # "absent"
Whole(f)  == f.state = "whole"

(* Steps taken while the write lock is held. *)
Critical == {"check", "write", "sync", "backup", "copy", "rename", "dirsync", "unlock"}

Ended == {"ok", "warned", "failed", "crashed"}

PCs == {"new", "seal", "prompt", "queue", "wait", "dropbak", "droplock"}
         \cup Critical \cup Ended

Running(c) == pc[c] \notin {"new"} \cup Ended

Writer(c) == kind[c] \notin {"none", "read"}

(* The command told its user that it succeeded ("warned": with a notice     *)
(* that the stale backup could not be removed).                             *)
Confirmed == {c \in Cmds : Writer(c) /\ pc[c] \in {"ok", "warned"}}

(* Vault::create is saving: no vault has been loaded or written yet. *)
Creating(c) == kind[c] \in {"init", "export"} /\ ~Exists(loaded[c])

(* Mutants of NewFile: the counter goes down; it is not increased. *)
NewFileCountsDown(c) ==
  [state |-> "whole",
   gen   |-> IF Creating(c) THEN 1 ELSE loaded[c].gen - 1,
   key   |-> IF Creating(c) \/ kind[c] = "rekey" THEN c ELSE loaded[c].key,
   edits |-> loaded[c].edits \cup {c}]

NewFileSameGeneration(c) ==
  [NewFileCountsDown(c) EXCEPT !.gen = IF Creating(c) THEN 1 ELSE loaded[c].gen]

(* What `UnlockedVault::write` encodes.  A create and a rekey draw a fresh  *)
(* key; `write_encrypted_export` creates the file with an empty body and    *)
(* puts the items in with a second save.                                    *)
NewFile(c) ==
  [state |-> "whole",
   gen   |-> IF Creating(c) THEN 1 ELSE loaded[c].gen + 1,
   key   |-> IF Creating(c) \/ kind[c] = "rekey" THEN c ELSE loaded[c].key,
   edits |-> IF Creating(c) /\ kind[c] = "export"
             THEN {} ELSE loaded[c].edits \cup {c}]

-----------------------------------------------------------------------------
Init ==
  /\ pc = [c \in Cmds |-> "new"]
  /\ kind = [c \in Cmds |-> "none"]
  /\ before = [c \in Cmds |-> {}]
  /\ dek = [c \in Cmds |-> NoCmd]
  /\ loaded = [c \in Cmds |-> Absent]
  /\ fd = [c \in Cmds |-> 0]
  /\ holds = {}
  /\ lockFile = 0 /\ inodes = 0
  /\ tmp = [c \in Cmds |-> Absent]
  /\ synced = [c \in Cmds |-> FALSE]
  /\ vault = Absent /\ mayVault = {Absent}
  /\ bak = Absent /\ mayBak = {Absent}
  /\ outages = 0

Goto(c, step) == pc' = [pc EXCEPT ![c] = step]

-----------------------------------------------------------------------------
(* Loading *)

(* `init` and `export` look whether the file exists before they prompt and  *)
(* seal key slots; the other commands read the header, whose key slots give *)
(* them the key after the prompt.                                           *)
Start(c) ==
  /\ pc[c] = "new"
  /\ before' = [before EXCEPT ![c] = Confirmed]
  /\ \E k \in Kinds :
       /\ kind' = [kind EXCEPT ![c] = k]
       /\ IF k \in {"init", "export"}
          THEN /\ Goto(c, IF Exists(vault) THEN "failed" ELSE "seal")
               /\ UNCHANGED dek
          ELSE /\ Goto(c, IF Whole(vault) THEN "prompt" ELSE "failed")
               /\ dek' = [dek EXCEPT ![c] = vault.key]
  /\ UNCHANGED <<loaded, lockVars, tmpVars, fileVars, outages>>

(* `Vault::create` looks again, after the slots are sealed. *)
Create(c) ==
  /\ pc[c] = "seal"
  /\ Goto(c, IF Exists(vault) THEN "failed" ELSE "queue")
  /\ UNCHANGED <<kind, before, dek, loaded, lockVars, tmpVars, fileVars, outages>>

(* The prompt is refused or fails: the command ends without a change. *)
Abandon(c) ==
  /\ pc[c] \in {"seal", "prompt"}
  /\ Goto(c, "failed")
  /\ UNCHANGED <<kind, before, dek, loaded, lockVars, tmpVars, fileVars, outages>>

(* `open_with_dek` reads the file again; the body opens only under the key  *)
(* the header held when the slots were read.                                *)
Open(c) ==
  /\ pc[c] = "prompt"
  /\ \/ /\ Whole(vault) /\ vault.key = dek[c]
        /\ loaded' = [loaded EXCEPT ![c] = vault]
        /\ Goto(c, IF kind[c] = "read" THEN "ok" ELSE "queue")
     \/ /\ ~(Whole(vault) /\ vault.key = dek[c])
        /\ Goto(c, "failed")
        /\ UNCHANGED loaded
  /\ UNCHANGED <<kind, before, dek, lockVars, tmpVars, fileVars, outages>>

-----------------------------------------------------------------------------
(* The write lock *)

(* Opens `<vault>.lock`, creating it when it does not exist. *)
OpenLock(c) ==
  /\ pc[c] = "queue"
  /\ \/ /\ lockFile # 0
        /\ fd' = [fd EXCEPT ![c] = lockFile]
        /\ UNCHANGED <<lockFile, inodes>>
     \/ /\ lockFile = 0
        /\ inodes' = inodes + 1
        /\ lockFile' = inodes + 1
        /\ fd' = [fd EXCEPT ![c] = inodes + 1]
  /\ Goto(c, "wait")
  /\ UNCHANGED <<kind, before, dek, loaded, holds, tmpVars, fileVars, outages>>

(* Nobody holds the lock of the inode c has open (mutant: no lock). *)
FreeAlways(c) == TRUE
Free(c) == \A d \in holds : fd[d] # fd[c]

(* The locks that are held when c has dropped its guard (mutant: it does    *)
(* not unlock).                                                             *)
GuardKept(c) == holds
GuardDropped(c) == holds \ {c}

(* `file.lock()` returns. *)
Acquire(c) ==
  /\ pc[c] = "wait"
  /\ Free(c)
  /\ holds' = holds \cup {c}
  /\ Goto(c, "check")
  /\ UNCHANGED <<kind, before, dek, loaded, fd, lockFile, inodes, tmpVars, fileVars, outages>>

(* A step of the critical section fails: the temporary file is removed and  *)
(* the guard dropped on the way out.                                        *)
Fail(c) ==
  /\ Goto(c, "failed")
  /\ holds' = GuardDropped(c)
  /\ tmp' = [tmp EXCEPT ![c] = Absent]
  /\ UNCHANGED <<kind, before, dek, loaded, fd, lockFile, inodes, synced, fileVars, outages>>

(* Mutant of Unchanged: no generation check. *)
UnchangedAnyGeneration(c) == IF Creating(c) THEN ~Exists(vault) ELSE Whole(vault)

(* The checks of `write`, under the lock: the file must still be absent     *)
(* (create) or still be the generation that was loaded (save).              *)
Unchanged(c) ==
  IF Creating(c) THEN ~Exists(vault)
                 ELSE Whole(vault) /\ vault.gen = loaded[c].gen

Check(c) ==
  /\ pc[c] = "check"
  /\ \/ /\ Unchanged(c)
        /\ Goto(c, "write")
        /\ UNCHANGED <<kind, before, dek, loaded, lockVars, tmpVars, fileVars, outages>>
     \/ ~Unchanged(c) /\ Fail(c)

-----------------------------------------------------------------------------
(* write_atomic *)

WriteTemp(c) ==
  /\ pc[c] = "write"
  /\ tmp' = [tmp EXCEPT ![c] = NewFile(c)]
  /\ synced' = [synced EXCEPT ![c] = FALSE]
  /\ Goto(c, "sync")
  /\ UNCHANGED <<kind, before, dek, loaded, lockVars, fileVars, outages>>

(* Mutant of SyncTemp: no fsync before the rename. *)
SyncTempSkipped(c) ==
  pc[c] = "sync" /\ Goto(c, "backup")
    /\ UNCHANGED <<kind, before, dek, loaded, lockVars, tmpVars, fileVars, outages>>

SyncTemp(c) ==
  /\ pc[c] = "sync"
  /\ synced' = [synced EXCEPT ![c] = TRUE]
  /\ Goto(c, "backup")
  /\ UNCHANGED <<kind, before, dek, loaded, lockVars, tmp, fileVars, outages>>

(* `fs::copy` first truncates the old backup ...; it may fail to open it,   *)
(* which is ignored.                                                        *)
Backup(c) ==
  /\ pc[c] = "backup"
  /\ \/ /\ Exists(vault)
        /\ bak' = Torn
        /\ mayBak' = mayBak \cup {Torn}
        /\ Goto(c, "copy")
     \/ Goto(c, "rename") /\ UNCHANGED <<bak, mayBak>>
  /\ UNCHANGED <<kind, before, dek, loaded, lockVars, tmpVars, vault, mayVault, outages>>

(* ... then fills it; a failure here is ignored too, and leaves it torn.    *)
(* A backup that was removed meanwhile stays removed.                       *)
Copy(c) ==
  /\ pc[c] = "copy"
  /\ \/ /\ Exists(bak)
        /\ bak' = vault
        /\ mayBak' = mayBak \cup {vault}
     \/ UNCHANGED <<bak, mayBak>>
  /\ Goto(c, "rename")
  /\ UNCHANGED <<kind, before, dek, loaded, lockVars, tmpVars, vault, mayVault, outages>>

(* The rename replaces the file for every reader at once; until the         *)
(* directory is synced an outage may undo it, on some filesystems so that   *)
(* the name has neither file, and a file that was not fsynced may come back *)
(* torn.                                                                    *)
Rename(c) ==
  /\ pc[c] = "rename"
  /\ vault' = tmp[c]
  /\ mayVault' = mayVault \cup {tmp[c]} \cup (IF synced[c] THEN {} ELSE {Torn})
                          \cup (IF OldOrNew THEN {} ELSE {Absent})
  /\ tmp' = [tmp EXCEPT ![c] = Absent]
  /\ loaded' = [loaded EXCEPT ![c] = tmp[c]]
  /\ Goto(c, "dirsync")
  /\ UNCHANGED <<kind, before, dek, lockVars, synced, bak, mayBak, outages>>

(* Mutant of SyncDir: the directory is not synced. *)
SyncDirSkipped(c) ==
  pc[c] = "dirsync" /\ Goto(c, "unlock")
    /\ UNCHANGED <<kind, before, dek, loaded, lockVars, tmpVars, fileVars, outages>>

(* Syncing the directory settles which files it names; the contents of the  *)
(* backup are never fsynced.  A failure to sync is ignored.                 *)
SyncDir(c) ==
  /\ pc[c] = "dirsync"
  /\ \/ /\ mayVault' = {vault}
        /\ mayBak' = IF Exists(bak) THEN {bak, Torn} ELSE {Absent}
     \/ ~DirSyncs /\ UNCHANGED <<mayVault, mayBak>>
  /\ Goto(c, "unlock")
  /\ UNCHANGED <<kind, before, dek, loaded, lockVars, tmpVars, vault, bak, outages>>

(* Creating the temporary file, writing it, syncing it or renaming it fails. *)
WriteError(c) ==
  /\ pc[c] \in {"write", "sync", "rename"}
  /\ Fail(c)

-----------------------------------------------------------------------------
(* After the save *)

(* Mutant of AfterSave: `save` in the place of `save_dropping_backup`. *)
AfterSaveKeepBackup(c) == "ok"

(* `rekey` (and `recover`, `slot rm`) go on to remove the backup; an export *)
(* saves a second time, then removes the backup and the lock file.          *)
AfterSave(c) ==
  IF kind[c] = "export" /\ loaded[c].gen = 1 THEN "queue"
  ELSE IF kind[c] \in {"rekey", "export"} THEN "dropbak"
  ELSE "ok"

Release(c) ==
  /\ pc[c] = "unlock"
  /\ holds' = GuardDropped(c)
  /\ Goto(c, AfterSave(c))
  /\ UNCHANGED <<kind, before, dek, loaded, fd, lockFile, inodes, tmpVars, fileVars, outages>>

(* Removing the backup happens outside the lock; the directory is not       *)
(* synced afterwards, so until somebody else syncs it an outage may bring   *)
(* the backup back.  A failure is reported and otherwise ignored.           *)
DropBackup(c) ==
  /\ pc[c] = "dropbak"
  /\ \/ /\ bak' = Absent
        /\ mayBak' = mayBak \cup {Absent}
        /\ Goto(c, IF kind[c] = "export" THEN "droplock" ELSE "ok")
     \/ /\ Exists(bak)
        /\ Goto(c, IF kind[c] = "export" THEN "droplock" ELSE "warned")
        /\ UNCHANGED <<bak, mayBak>>
  /\ UNCHANGED <<kind, before, dek, loaded, lockVars, tmpVars, vault, mayVault, outages>>

DropLockFile(c) ==
  /\ pc[c] = "droplock"
  /\ lockFile' \in {0, lockFile}
  /\ Goto(c, "ok")
  /\ UNCHANGED <<kind, before, dek, loaded, fd, holds, inodes, tmpVars, fileVars, outages>>

-----------------------------------------------------------------------------
(* Failures *)

(* A command is killed; the operating system closes its lock file, its      *)
(* temporary file stays behind.                                             *)
Crash(c) ==
  /\ Running(c)
  /\ Goto(c, "crashed")
  /\ holds' = GuardDropped(c)
  /\ UNCHANGED <<kind, before, dek, loaded, fd, lockFile, inodes, tmpVars, fileVars, outages>>

(* The machine goes down: every running command dies and the files are what *)
(* had reached the disk.                                                    *)
Outage ==
  /\ outages < MaxOutages
  /\ outages' = outages + 1
  /\ pc' = [c \in Cmds |-> IF Running(c) THEN "crashed" ELSE pc[c]]
  /\ holds' = {}
  /\ vault' \in mayVault /\ mayVault' = {vault'}
  /\ bak' \in mayBak /\ mayBak' = {bak'}
  /\ UNCHANGED <<kind, before, dek, loaded, fd, lockFile, inodes, tmpVars>>

-----------------------------------------------------------------------------
Save(c) ==
  \/ OpenLock(c) \/ Acquire(c) \/ Check(c) \/ WriteTemp(c) \/ SyncTemp(c)
  \/ Backup(c) \/ Copy(c) \/ Rename(c) \/ SyncDir(c) \/ WriteError(c)
  \/ Release(c) \/ DropBackup(c) \/ DropLockFile(c)

(* Every command has ended; the system may rest. *)
Done == (\A c \in Cmds : pc[c] \in Ended) /\ UNCHANGED vars

Next ==
  \/ \E c \in Cmds : \/ Start(c) \/ Create(c) \/ Abandon(c) \/ Open(c)
                     \/ Save(c) \/ Crash(c)
  \/ Outage
  \/ Done

Spec == Init /\ [][Next]_vars

(* The operating system keeps running a process that is not waiting for its *)
(* user, and grants a free lock to one that waits for it.  Nothing is       *)
(* assumed of the user: a command may never be started or answered.         *)
Fairness == \A c \in Cmds : WF_vars(Save(c))

FairSpec == Spec /\ Fairness

-----------------------------------------------------------------------------
(* Properties *)

TypeOK ==
  /\ pc \in [Cmds -> PCs]
  /\ kind \in [Cmds -> Kinds \cup {"none"}]
  /\ before \in [Cmds -> SUBSET Cmds]
  /\ dek \in [Cmds -> Cmds \cup {NoCmd}]
  /\ loaded \in [Cmds -> File]
  /\ fd \in [Cmds -> Nat]
  /\ holds \subseteq Cmds
  /\ lockFile \in Nat /\ inodes \in Nat
  /\ tmp \in [Cmds -> File]
  /\ synced \in [Cmds -> BOOLEAN]
  /\ vault \in File /\ mayVault \subseteq File
  /\ bak \in File /\ mayBak \subseteq File
  /\ outages \in Nat

(* Two commands are never inside the write section (file.rs lock/Drop, held *)
(* across the whole of UnlockedVault::write) at the same time, though each  *)
(* opens the lock file by name and on its own.                              *)
MutualExclusion ==
  \A c, d \in Cmds : pc[c] \in Critical /\ pc[d] \in Critical => c = d

(* A change whose command has reported success stays in the vault: no later *)
(* save, no command working on a stale load, no crash between two steps of  *)
(* write_atomic and no outage takes it away ("the second writer gets exit 9 *)
(* instead of clobbering").                                                 *)
NoLostUpdate == Confirmed \subseteq vault.edits

(* Neither the vault file nor what an outage may leave of it is ever a      *)
(* partly written file: a reader, which takes no lock, finds the old or the *)
(* new generation (temp file, fsync, then rename), and so does the next     *)
(* start after an outage.  Where an outage can leave neither of them        *)
(* (file.rs:102) the next start may find no file, but no half of one.       *)
VaultNeverTorn == vault.state # "torn" /\ Torn \notin mayVault

(* A readable backup is never ahead of the vault: restoring `.bak` goes     *)
(* back in the vault's own history, also after a crash between the copy and *)
(* the rename.  (An outage may take back a rename of a command that was     *)
(* killed before it synced the directory, and keep a later copy.)           *)
BackupIsAncestor ==
  outages = 0 /\ Whole(bak) => Whole(vault) /\ bak.gen <= vault.gen /\ bak.edits \subseteq vault.edits

(* A command that starts after another one reported success sees that       *)
(* change in what it loads, whatever runs in between its two reads of the   *)
(* file (header before the prompt, whole file after it).                    *)
LoadsAreCurrent ==
  \A c \in Cmds : Exists(loaded[c]) /\ ~Creating(c) => before[c] \subseteq loaded[c].edits

(* When a rekey has reported success without a notice, the key it replaced  *)
(* opens neither the vault nor the backup: no command that unwrapped the    *)
(* old key earlier can write a file under it any more, and no backup of the *)
(* old generation is left (save_dropping_backup).  The temporary file of a  *)
(* killed save is neither: it stays, under the key that save had.           *)
RevokedKeyIsGone ==
  \A c \in Cmds :
    kind[c] = "rekey" /\ pc[c] = "ok"
      => \A f \in {vault, bak} : Whole(f) => c \in f.edits

(* The answer a command has given, for the abstract specification; a        *)
(* reader changes nothing and so has nothing to answer for.                 *)
Outcome ==
  [c \in Cmds |-> IF c \in Confirmed THEN "confirmed"
                  ELSE IF Writer(c) /\ pc[c] = "failed" THEN "refused"
                  ELSE "none"]

Abstract == INSTANCE AtomicVault WITH vault <- vault, outcome <- Outcome

(* The lock, the generation check and write_atomic together are an atomic   *)
(* compare-and-set of the whole file: every step of this module is a step   *)
(* of AtomicVault on the file that readers see, or no step at all.          *)
ImplementsAtomicVault == Abstract!Spec

(* A save that has been started ends, with success or failure: a lock is    *)
(* released by whoever holds it, also by the operating system on a crash.   *)
SaveEnds == \A c \in Cmds : pc[c] = "queue" ~> pc[c] \in Ended
=============================================================================
