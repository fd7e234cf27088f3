-------------------------- MODULE VaultStoreProofs --------------------------
(***************************************************************************)
(* Proofs about VaultStore, for any number of commands and outages.        *)
(***************************************************************************)
EXTENDS VaultStore, TLAPS

(* The two files that are not vaults are files all the same. *)
LEMMA FileConstants == Absent \in File /\ Torn \in File
BY DEF Absent, Torn, File

(* The program only ever encodes a well-formed file: whatever command saves *)
(* and whatever it has loaded, `NewFile` is a vault with a generation.      *)
LEMMA NewFileType ==
  ASSUME NEW c \in Cmds, TypeOK
  PROVE  NewFile(c) \in File
BY DEF NewFile, TypeOK, File

(* No step of a command, crash or outage leaves the types.                  *)
LEMMA TypeStep == ASSUME TypeOK, [Next]_vars PROVE TypeOK'
<1> USE DEF TypeOK, PCs, Critical, Ended, Goto, lockVars, tmpVars, fileVars
<1>1. ASSUME NEW c \in Cmds, Start(c) PROVE TypeOK'
  <2>1. PICK k \in Kinds : kind' = [kind EXCEPT ![c] = k]
    BY <1>1 DEF Start
  <2>2. kind' \in [Cmds -> Kinds \cup {"none"}]
    BY <2>1
  <2>3. before' \in [Cmds -> SUBSET Cmds]
    BY <1>1 DEF Start, Confirmed
  <2>4. dek' \in [Cmds -> Cmds \cup {NoCmd}]
    BY <1>1 DEF Start, File
  <2>5. pc' \in [Cmds -> PCs]
    BY <1>1 DEF Start
  <2> QED
    BY <1>1, <2>2, <2>3, <2>4, <2>5 DEF Start
<1>2. ASSUME NEW c \in Cmds, Create(c) PROVE TypeOK'
  BY <1>2 DEF Create
<1>3. ASSUME NEW c \in Cmds, Abandon(c) PROVE TypeOK'
  BY <1>3 DEF Abandon
<1>4. ASSUME NEW c \in Cmds, Open(c) PROVE TypeOK'
  BY <1>4 DEF Open
<1>5. ASSUME NEW c \in Cmds, OpenLock(c) PROVE TypeOK'
  BY <1>5 DEF OpenLock
<1>6. ASSUME NEW c \in Cmds, Acquire(c) PROVE TypeOK'
  BY <1>6 DEF Acquire
<1>7. ASSUME NEW c \in Cmds, Fail(c) PROVE TypeOK'
  BY <1>7, FileConstants DEF Fail, GuardDropped
<1>8. ASSUME NEW c \in Cmds, Check(c) PROVE TypeOK'
  BY <1>7, <1>8 DEF Check
<1>9. ASSUME NEW c \in Cmds, WriteTemp(c) PROVE TypeOK'
  BY <1>9, NewFileType DEF WriteTemp
<1>10. ASSUME NEW c \in Cmds, SyncTemp(c) PROVE TypeOK'
  BY <1>10 DEF SyncTemp
<1>11. ASSUME NEW c \in Cmds, Backup(c) PROVE TypeOK'
  BY <1>11, FileConstants DEF Backup
<1>12. ASSUME NEW c \in Cmds, Copy(c) PROVE TypeOK'
  BY <1>12 DEF Copy
<1>13. ASSUME NEW c \in Cmds, Rename(c) PROVE TypeOK'
  BY <1>13, FileConstants DEF Rename
<1>14. ASSUME NEW c \in Cmds, SyncDir(c) PROVE TypeOK'
  BY <1>14, FileConstants DEF SyncDir
<1>15. ASSUME NEW c \in Cmds, WriteError(c) PROVE TypeOK'
  BY <1>7, <1>15 DEF WriteError
<1>16. ASSUME NEW c \in Cmds, Release(c) PROVE TypeOK'
  BY <1>16 DEF Release, AfterSave, GuardDropped
<1>17. ASSUME NEW c \in Cmds, DropBackup(c) PROVE TypeOK'
  BY <1>17, FileConstants DEF DropBackup
<1>18. ASSUME NEW c \in Cmds, DropLockFile(c) PROVE TypeOK'
  BY <1>18 DEF DropLockFile
<1>19. ASSUME NEW c \in Cmds, Crash(c) PROVE TypeOK'
  BY <1>19 DEF Crash, GuardDropped
<1>20. CASE Outage
  BY <1>20 DEF Outage
<1>21. CASE UNCHANGED vars
  BY <1>21 DEF vars, cmdVars
<1> QED
  BY <1>1, <1>2, <1>3, <1>4, <1>5, <1>6, <1>8, <1>9, <1>10, <1>11, <1>12, <1>13,
     <1>14, <1>15, <1>16, <1>17, <1>18, <1>19, <1>20, <1>21 DEF Next, Save, Done

(* Type correctness of every state the commands, crashes and outages of     *)
(* VaultStore can reach.                                                    *)
THEOREM TypeCorrect == Spec => []TypeOK
<1>1. Init => TypeOK
  BY FileConstants DEF Init, TypeOK, PCs
<1> QED
  BY <1>1, TypeStep, PTL DEF Spec

-----------------------------------------------------------------------------
(* The inductive invariant behind the safety theorems.  NoLostUpdate alone  *)
(* is not inductive: it needs that a saver about to rename has the current  *)
(* file in hand, which needs the mutual exclusion of the write section,     *)
(* which needs that every command locks the same inode.                     *)

Pending == {"queue", "wait", "check", "write", "sync", "backup", "copy", "rename"}
Checked == {"write", "sync", "backup", "copy", "rename"}

(* The writers whose change no outage can take back any more. *)
Settled == {c \in Cmds : Writer(c) /\ pc[c] \in {"unlock", "dropbak", "ok", "warned"}}

KindInv ==
  \A c \in Cmds :
    /\ kind[c] # "export" /\ pc[c] # "droplock"
    /\ pc[c] = "new" => kind[c] = "none"
    /\ pc[c] = "seal" => kind[c] = "init"
    /\ pc[c] = "prompt" => kind[c] \in {"read", "edit", "rekey"}
    /\ pc[c] \in {"queue", "wait"} \cup Critical => kind[c] \in {"init", "edit", "rekey"}

(* One inode carries the lock, and one command holds it. *)
LockInv ==
  /\ \A c \in Cmds : c \in holds <=> pc[c] \in Critical
  /\ \A c \in Cmds : pc[c] \in {"wait"} \cup Critical => lockFile # 0 /\ fd[c] = lockFile
  /\ \A c, d \in holds : c = d

(* A command that has not renamed yet has loaded a generation that is not   *)
(* ahead of the vault, and the same generation means the same contents.     *)
LoadInv ==
  \A c \in Cmds :
    /\ pc[c] \in {"new", "seal", "prompt"} => loaded[c] = Absent
    /\ pc[c] \in Pending /\ kind[c] = "init" => loaded[c] = Absent
    /\ pc[c] \in Pending /\ kind[c] # "init" =>
         /\ Whole(loaded[c]) /\ Whole(vault) /\ loaded[c].gen <= vault.gen
         /\ loaded[c].gen = vault.gen => loaded[c] = vault

(* What the checks under the lock established still holds when the file is  *)
(* replaced, and what replaces it is the encoded file, fsynced.             *)
SaveInv ==
  \A c \in Cmds :
    /\ pc[c] \in Checked => Unchanged(c)
    /\ pc[c] \in Checked \ {"write"} => tmp[c] = NewFile(c)
    /\ pc[c] \in {"backup", "copy", "rename"} => synced[c]
    /\ pc[c] = "dirsync" => c \in vault.edits

(* Whatever an outage may leave is an intact file that has every settled    *)
(* change.                                                                  *)
DiskInv ==
  /\ vault \in mayVault
  /\ \A f \in mayVault : f.state # "torn" /\ (f.state = "absent" => f = Absent)
                          /\ Settled \subseteq f.edits

IInv == TypeOK /\ KindInv /\ LockInv /\ LoadInv /\ SaveInv /\ DiskInv

(* Which kinds of command are at which step: only a create seals slots, only *)
(* a load prompts, and a reader never saves.                                *)
LEMMA KindStep ==
  ASSUME "export" \notin Kinds, TypeOK, KindInv, [Next]_vars PROVE KindInv'
<1> USE DEF TypeOK, KindInv, Critical, Goto
<1>1. ASSUME NEW c \in Cmds, Start(c) PROVE KindInv'
  BY <1>1, KindsAssumption DEF Start
<1>2. ASSUME NEW c \in Cmds, Create(c) \/ Abandon(c) \/ Open(c) PROVE KindInv'
  BY <1>2 DEF Create, Abandon, Open
<1>3. ASSUME NEW c \in Cmds, OpenLock(c) \/ Acquire(c) PROVE KindInv'
  BY <1>3 DEF OpenLock, Acquire
<1>4. ASSUME NEW c \in Cmds, Fail(c) PROVE KindInv'
  BY <1>4 DEF Fail
<1>5. ASSUME NEW c \in Cmds, Check(c) \/ WriteError(c) PROVE KindInv'
  BY <1>4, <1>5 DEF Check, WriteError
<1>6. ASSUME NEW c \in Cmds, WriteTemp(c) \/ SyncTemp(c) \/ Backup(c) \/ Copy(c)
      PROVE  KindInv'
  BY <1>6 DEF WriteTemp, SyncTemp, Backup, Copy
<1>7. ASSUME NEW c \in Cmds, Rename(c) \/ SyncDir(c) PROVE KindInv'
  BY <1>7 DEF Rename, SyncDir
<1>8. ASSUME NEW c \in Cmds, Release(c) \/ DropBackup(c) \/ DropLockFile(c) PROVE KindInv'
  BY <1>8 DEF Release, AfterSave, DropBackup, DropLockFile
<1>9. ASSUME NEW c \in Cmds, Crash(c) PROVE KindInv'
  BY <1>9 DEF Crash
<1>10. CASE Outage
  BY <1>10 DEF Outage
<1>11. CASE UNCHANGED vars
  BY <1>11 DEF vars, cmdVars
<1> QED
  BY <1>1, <1>2, <1>3, <1>5, <1>6, <1>7, <1>8, <1>9, <1>10, <1>11 DEF Next, Save, Done

(* The lock file keeps its inode, so a command that waits for the lock      *)
(* waits for the one that holds it; a crash or an outage releases it.       *)
LEMMA LockStep ==
  ASSUME "export" \notin Kinds, TypeOK, KindInv, LockInv, [Next]_vars PROVE LockInv'
<1> USE DEF TypeOK, LockInv, Critical, Goto, GuardDropped, lockVars
<1>1. ASSUME NEW c \in Cmds, Start(c) PROVE LockInv'
  BY <1>1 DEF Start
<1>2. ASSUME NEW c \in Cmds, Create(c) \/ Abandon(c) \/ Open(c) PROVE LockInv'
  BY <1>2 DEF Create, Abandon, Open
<1>3. ASSUME NEW c \in Cmds, OpenLock(c) PROVE LockInv'
  BY <1>3 DEF OpenLock
<1>4. ASSUME NEW c \in Cmds, Acquire(c) PROVE LockInv'
  BY <1>4 DEF Acquire, Free
<1>5. ASSUME NEW c \in Cmds, pc[c] \in Critical, Fail(c) PROVE LockInv'
  BY <1>5 DEF Fail
<1>6. ASSUME NEW c \in Cmds, Check(c) \/ WriteError(c) PROVE LockInv'
  BY <1>5, <1>6 DEF Check, WriteError
<1>7. ASSUME NEW c \in Cmds, WriteTemp(c) \/ SyncTemp(c) \/ Backup(c) \/ Copy(c)
      PROVE  LockInv'
  BY <1>7 DEF WriteTemp, SyncTemp, Backup, Copy
<1>8. ASSUME NEW c \in Cmds, Rename(c) \/ SyncDir(c) PROVE LockInv'
  BY <1>8 DEF Rename, SyncDir
<1>9. ASSUME NEW c \in Cmds, Release(c) \/ DropBackup(c) \/ DropLockFile(c) PROVE LockInv'
  BY <1>9 DEF Release, AfterSave, DropBackup, DropLockFile, KindInv
<1>10. ASSUME NEW c \in Cmds, Crash(c) PROVE LockInv'
  BY <1>10 DEF Crash
<1>11. CASE Outage
  BY <1>11 DEF Outage, Running, Ended
<1>12. CASE UNCHANGED vars
  BY <1>12 DEF vars, cmdVars
<1> QED
  BY <1>1, <1>2, <1>3, <1>4, <1>6, <1>7, <1>8, <1>9, <1>10, <1>11, <1>12 DEF Next, Save, Done

(* Generations only go up and a loaded generation names its contents, also  *)
(* when another command replaces the file meanwhile.                        *)
LEMMA LoadStep ==
  ASSUME "export" \notin Kinds, TypeOK, KindInv, LockInv, LoadInv, SaveInv, DiskInv,
         [Next]_vars
  PROVE  LoadInv'
<1> USE DEF TypeOK, LoadInv, Pending, Whole, Goto, fileVars
<1>1. ASSUME NEW c \in Cmds, Start(c) PROVE LoadInv'
  BY <1>1 DEF Start
<1>2. ASSUME NEW c \in Cmds, Create(c) \/ Abandon(c) PROVE LoadInv'
  BY <1>2 DEF Create, Abandon, KindInv
<1>3. ASSUME NEW c \in Cmds, Open(c) PROVE LoadInv'
  <2>1. vault.gen \in Nat
    BY DEF File
  <2> QED
    BY <1>3, <2>1 DEF Open, KindInv
<1>4. ASSUME NEW c \in Cmds, OpenLock(c) \/ Acquire(c) PROVE LoadInv'
  BY <1>4 DEF OpenLock, Acquire
<1>5. ASSUME NEW c \in Cmds, Fail(c) PROVE LoadInv'
  BY <1>5 DEF Fail
<1>6. ASSUME NEW c \in Cmds, Check(c) \/ WriteError(c) PROVE LoadInv'
  BY <1>5, <1>6 DEF Check, WriteError
<1>7. ASSUME NEW c \in Cmds, WriteTemp(c) \/ SyncTemp(c) \/ Backup(c) \/ Copy(c)
      PROVE  LoadInv'
  BY <1>7 DEF WriteTemp, SyncTemp, Backup, Copy
<1>8. ASSUME NEW c \in Cmds, Rename(c) PROVE LoadInv'
  <2>1. vault' = NewFile(c) /\ Whole(vault')
    <3>1. tmp[c] = NewFile(c)
      BY <1>8 DEF Rename, SaveInv, Checked
    <3> QED
      BY <1>8, <3>1 DEF Rename, NewFile
  <2>2. Whole(vault) => vault'.gen > vault.gen
    <3>1. Unchanged(c)
      BY <1>8 DEF Rename, SaveInv, Checked
    <3>2. Whole(vault) => ~Creating(c) /\ vault.gen = loaded[c].gen
      BY <3>1 DEF Unchanged, Exists
    <3> QED
      BY <2>1, <3>2 DEF NewFile, File
  <2>3. ASSUME NEW d \in Cmds, d # c, pc[d] \in Pending, kind[d] # "init"
        PROVE  loaded[d].gen < vault'.gen
    <3>1. vault.gen \in Nat /\ vault'.gen \in Nat /\ loaded[d].gen \in Nat
      BY <2>1, NewFileType DEF File
    <3>2. Whole(vault) /\ loaded[d].gen <= vault.gen
      BY <2>3
    <3> QED
      BY <2>2, <3>1, <3>2
  <2>4. ASSUME NEW d \in Cmds, pc'[d] \in Pending \cup {"new", "seal", "prompt"}
        PROVE  d # c /\ pc'[d] = pc[d] /\ loaded'[d] = loaded[d] /\ kind'[d] = kind[d]
    BY <1>8, <2>4 DEF Rename
  <2>5. ASSUME NEW d \in Cmds, pc'[d] \in Pending, kind'[d] # "init"
        PROVE  /\ Whole(loaded'[d]) /\ Whole(vault') /\ loaded'[d].gen <= vault'.gen
               /\ loaded'[d].gen # vault'.gen
    <3>1. vault'.gen \in Nat /\ loaded[d].gen \in Nat
      BY <2>1, NewFileType DEF File
    <3>2. Whole(loaded[d]) /\ loaded[d].gen < vault'.gen
      BY <2>3, <2>4, <2>5
    <3> QED
      BY <2>1, <2>4, <2>5, <3>1, <3>2
  <2> QED
    BY <2>4, <2>5
<1>9. ASSUME NEW c \in Cmds, SyncDir(c) PROVE LoadInv'
  BY <1>9 DEF SyncDir
<1>10. ASSUME NEW c \in Cmds, Release(c) \/ DropBackup(c) \/ DropLockFile(c) PROVE LoadInv'
  BY <1>10 DEF Release, AfterSave, DropBackup, DropLockFile, KindInv, Critical
<1>11. ASSUME NEW c \in Cmds, Crash(c) PROVE LoadInv'
  BY <1>11 DEF Crash
<1>12. CASE Outage
  BY <1>12 DEF Outage, Running, Ended
<1>13. CASE UNCHANGED vars
  BY <1>13 DEF vars, cmdVars
<1> QED
  BY <1>1, <1>2, <1>3, <1>4, <1>6, <1>7, <1>8, <1>9, <1>10, <1>11, <1>12, <1>13
     DEF Next, Save, Done

(* What a command is going to write, and whether the file is still the one  *)
(* it checked, do not change while kinds, loads and the vault do not.       *)
LEMMA SameWork ==
  ASSUME kind' = kind, loaded' = loaded, vault' = vault
  PROVE  \A d \in Cmds : NewFile(d)' = NewFile(d) /\ Unchanged(d)' = Unchanged(d)
BY DEF NewFile, Unchanged, Creating

(* Between the check under the lock and the rename nobody else can change    *)
(* the file, so what is renamed is the current file plus one change.        *)
LEMMA SaveStep ==
  ASSUME "export" \notin Kinds, TypeOK, KindInv, LockInv, LoadInv, SaveInv, [Next]_vars
  PROVE  SaveInv'
<1> USE DEF TypeOK, SaveInv, Checked, Goto, fileVars, tmpVars
<1>1. ASSUME NEW c \in Cmds, Start(c) PROVE SaveInv'
  BY <1>1 DEF Start, Creating, NewFile, Unchanged
<1>2. ASSUME NEW c \in Cmds, Create(c) \/ Abandon(c) PROVE SaveInv'
  BY <1>2, SameWork DEF Create, Abandon
<1>3. ASSUME NEW c \in Cmds, Open(c) PROVE SaveInv'
  BY <1>3 DEF Open, Creating, NewFile, Unchanged
<1>4. ASSUME NEW c \in Cmds, OpenLock(c) \/ Acquire(c) PROVE SaveInv'
  BY <1>4, SameWork DEF OpenLock, Acquire
<1>5. ASSUME NEW c \in Cmds, Fail(c) PROVE SaveInv'
  BY <1>5, SameWork DEF Fail
<1>6. ASSUME NEW c \in Cmds, Check(c) \/ WriteError(c) PROVE SaveInv'
  BY <1>5, <1>6, SameWork DEF Check, WriteError
<1>7. ASSUME NEW c \in Cmds, WriteTemp(c) \/ SyncTemp(c) \/ Backup(c) \/ Copy(c)
      PROVE  SaveInv'
  BY <1>7, SameWork DEF WriteTemp, SyncTemp, Backup, Copy
<1>8. ASSUME NEW c \in Cmds, Rename(c) PROVE SaveInv'
  <2>1. c \in vault'.edits
    <3>1. tmp[c] = NewFile(c) /\ kind[c] # "export"
      BY <1>8 DEF Rename, KindInv
    <3> QED
      BY <1>8, <3>1 DEF Rename, NewFile
  <2>2. \A d \in Cmds : d # c => pc[d] \notin Critical
    BY <1>8 DEF Rename, LockInv, Critical
  <2> QED
    BY <1>8, <2>1, <2>2 DEF Rename, Critical
<1>9. ASSUME NEW c \in Cmds, SyncDir(c) PROVE SaveInv'
  BY <1>9, SameWork DEF SyncDir
<1>10. ASSUME NEW c \in Cmds, Release(c) \/ DropBackup(c) \/ DropLockFile(c) PROVE SaveInv'
  BY <1>10, SameWork DEF Release, AfterSave, DropBackup, DropLockFile
<1>11. ASSUME NEW c \in Cmds, Crash(c) PROVE SaveInv'
  BY <1>11, SameWork DEF Crash
<1>12. CASE Outage
  BY <1>12 DEF Outage, Running, Ended
<1>13. CASE UNCHANGED vars
  BY <1>13, SameWork DEF vars, cmdVars
<1> QED
  BY <1>1, <1>2, <1>3, <1>4, <1>6, <1>7, <1>8, <1>9, <1>10, <1>11, <1>12, <1>13
     DEF Next, Save, Done

(* A change is settled once the directory is synced; every file an outage   *)
(* may leave after that has it, and is whole.                               *)
LEMMA DiskStep ==
  ASSUME DirSyncs, OldOrNew, "export" \notin Kinds, TypeOK, KindInv, LoadInv, SaveInv, DiskInv,
         [Next]_vars
  PROVE  DiskInv'
<1> USE DEF TypeOK, DiskInv, Settled, Writer, Goto, fileVars
<1>1. ASSUME NEW c \in Cmds, Start(c) PROVE DiskInv'
  <2>1. Settled' \subseteq Settled
    BY <1>1 DEF Start, KindInv
  <2> QED
    BY <1>1, <2>1 DEF Start
<1>2. ASSUME NEW c \in Cmds, Create(c) \/ Abandon(c) \/ Open(c) PROVE DiskInv'
  BY <1>2 DEF Create, Abandon, Open, KindInv
<1>3. ASSUME NEW c \in Cmds, OpenLock(c) \/ Acquire(c) PROVE DiskInv'
  BY <1>3 DEF OpenLock, Acquire
<1>4. ASSUME NEW c \in Cmds, Fail(c) PROVE DiskInv'
  BY <1>4 DEF Fail
<1>5. ASSUME NEW c \in Cmds, Check(c) \/ WriteError(c) PROVE DiskInv'
  BY <1>4, <1>5 DEF Check, WriteError
<1>6. ASSUME NEW c \in Cmds, WriteTemp(c) \/ SyncTemp(c) \/ Backup(c) \/ Copy(c)
      PROVE  DiskInv'
  BY <1>6 DEF WriteTemp, SyncTemp, Backup, Copy
<1>7. ASSUME NEW c \in Cmds, Rename(c) PROVE DiskInv'
  <2>1. tmp[c] = NewFile(c) /\ Unchanged(c) /\ synced[c] /\ kind[c] # "export"
    BY <1>7 DEF Rename, SaveInv, Checked, KindInv
  <2>2. vault.edits \subseteq tmp[c].edits
    <3>1. CASE Creating(c)
      <4>1. vault = Absent
        BY <2>1, <3>1 DEF Unchanged, Exists
      <4> QED
        BY <4>1 DEF Absent
    <3>2. CASE ~Creating(c)
      <4>1. loaded[c].gen = vault.gen /\ Whole(vault)
        BY <2>1, <3>2 DEF Unchanged
      <4>2. kind[c] # "init"
        BY <1>7, <2>1, <3>2 DEF Rename, LoadInv, Pending, Creating, Exists, Absent
      <4>3. loaded[c] = vault
        BY <1>7, <4>1, <4>2 DEF Rename, LoadInv, Pending
      <4> QED
        BY <2>1, <3>2, <4>3 DEF NewFile
    <3> QED
      BY <3>1, <3>2
  <2>3. Settled' = Settled
    BY <1>7 DEF Rename
  <2>4. tmp[c].state = "whole"
    BY <2>1 DEF NewFile
  <2>5. vault' = tmp[c] /\ mayVault' = mayVault \cup {tmp[c]}
    BY <1>7, <2>1 DEF Rename
  <2>6. Settled \subseteq tmp[c].edits
    BY <2>2
  <2> QED
    BY <2>3, <2>4, <2>5, <2>6
<1>8. ASSUME NEW c \in Cmds, SyncDir(c) PROVE DiskInv'
  <2>1. mayVault' = {vault} /\ vault' = vault
    BY <1>8 DEF SyncDir
  <2>2. Settled' \subseteq Settled \cup {c}
    BY <1>8 DEF SyncDir
  <2>3. c \in vault.edits
    BY <1>8 DEF SyncDir, SaveInv
  <2> QED
    BY <2>1, <2>2, <2>3
<1>9. ASSUME NEW c \in Cmds, Release(c) \/ DropBackup(c) \/ DropLockFile(c) PROVE DiskInv'
  BY <1>9 DEF Release, AfterSave, DropBackup, DropLockFile, KindInv
<1>10. ASSUME NEW c \in Cmds, Crash(c) PROVE DiskInv'
  BY <1>10 DEF Crash
<1>11. CASE Outage
  <2>1. vault' \in mayVault /\ mayVault' = {vault'}
    BY <1>11 DEF Outage
  <2>2. Settled' \subseteq Settled
    BY <1>11 DEF Outage
  <2> QED
    BY <2>1, <2>2
<1>12. CASE UNCHANGED vars
  BY <1>12 DEF vars, cmdVars
<1> QED
  BY <1>1, <1>2, <1>3, <1>5, <1>6, <1>7, <1>8, <1>9, <1>10, <1>11, <1>12 DEF Next, Save, Done

-----------------------------------------------------------------------------
(* The invariant holds as long as no export is written to the vault's path  *)
(* (it would remove the lock file), directories can be synced, and an       *)
(* outage leaves one of the two files of a rename.                          *)
THEOREM Invariant ==
  ASSUME DirSyncs, OldOrNew, "export" \notin Kinds
  PROVE  Spec => []IInv
<1>1. Init => IInv
  <2> SUFFICES ASSUME Init PROVE IInv
    OBVIOUS
  <2>1. TypeOK
    BY FileConstants DEF Init, TypeOK, PCs
  <2>2. KindInv /\ LockInv
    BY DEF Init, KindInv, LockInv, Critical
  <2>3. LoadInv /\ SaveInv
    BY DEF Init, LoadInv, SaveInv, Pending, Checked
  <2>4. DiskInv
    BY DEF Init, DiskInv, Settled, Absent
  <2> QED
    BY <2>1, <2>2, <2>3, <2>4 DEF IInv
<1>2. IInv /\ TypeOK' /\ [Next]_vars => IInv'
  BY KindStep, LockStep, LoadStep, SaveStep, DiskStep DEF IInv
<1> QED
  BY <1>1, <1>2, TypeCorrect, PTL DEF Spec

(* `file::lock` keeps two saves apart: however commands, crashes and        *)
(* outages interleave, at most one command is between the lock and its drop, *)
(* whether or not directories can be synced.                                *)
THEOREM Exclusion ==
  ASSUME "export" \notin Kinds
  PROVE  Spec => []MutualExclusion
<1> DEFINE Locked == KindInv /\ LockInv
<1>1. Init => Locked
  BY DEF Init, KindInv, LockInv, Critical
<1>2. Locked /\ TypeOK /\ [Next]_vars => Locked'
  BY KindStep, LockStep
<1>3. Locked => MutualExclusion
  BY DEF LockInv, MutualExclusion
<1> QED
  BY <1>1, <1>2, <1>3, TypeCorrect, PTL DEF Spec

(* The main result: a save that reported success is never lost, for any     *)
(* number of concurrent commands, crashes and outages (an outage on a       *)
(* filesystem that may leave neither file of a rename loses everything).    *)
THEOREM NoUpdateIsLost ==
  ASSUME DirSyncs, OldOrNew, "export" \notin Kinds
  PROVE  Spec => []NoLostUpdate
<1>1. IInv => NoLostUpdate
  BY DEF IInv, DiskInv, NoLostUpdate, Confirmed, Settled
<1> QED
  BY <1>1, Invariant, PTL

-----------------------------------------------------------------------------
(* What write_atomic establishes step by step: the temporary file is the    *)
(* encoded one, and it is fsynced before it is renamed.                     *)
TempInv ==
  /\ \A c \in Cmds :
       /\ pc[c] \in {"sync", "backup", "copy", "rename"} => tmp[c].state = "whole"
       /\ pc[c] \in {"backup", "copy", "rename"} => synced[c]
  /\ vault.state # "torn"
  /\ \A f \in mayVault : f.state # "torn"

LEMMA TempStep == ASSUME TypeOK, TempInv, [Next]_vars PROVE TempInv'
<1> USE DEF TypeOK, TempInv, Goto, tmpVars, fileVars
<1>1. ASSUME NEW c \in Cmds, Start(c) PROVE TempInv'
  BY <1>1 DEF Start
<1>2. ASSUME NEW c \in Cmds, Create(c) \/ Abandon(c) \/ Open(c) PROVE TempInv'
  BY <1>2 DEF Create, Abandon, Open
<1>3. ASSUME NEW c \in Cmds, OpenLock(c) \/ Acquire(c) PROVE TempInv'
  BY <1>3 DEF OpenLock, Acquire
<1>4. ASSUME NEW c \in Cmds, Fail(c) PROVE TempInv'
  BY <1>4 DEF Fail
<1>5. ASSUME NEW c \in Cmds, Check(c) \/ WriteError(c) PROVE TempInv'
  BY <1>4, <1>5 DEF Check, WriteError
<1>6. ASSUME NEW c \in Cmds, WriteTemp(c) PROVE TempInv'
  BY <1>6 DEF WriteTemp, NewFile
<1>7. ASSUME NEW c \in Cmds, SyncTemp(c) \/ Backup(c) \/ Copy(c) PROVE TempInv'
  BY <1>7 DEF SyncTemp, Backup, Copy
<1>8. ASSUME NEW c \in Cmds, Rename(c) PROVE TempInv'
  BY <1>8 DEF Rename, Absent
<1>9. ASSUME NEW c \in Cmds, SyncDir(c) PROVE TempInv'
  BY <1>9 DEF SyncDir
<1>10. ASSUME NEW c \in Cmds, Release(c) \/ DropBackup(c) \/ DropLockFile(c) PROVE TempInv'
  BY <1>10 DEF Release, AfterSave, DropBackup, DropLockFile
<1>11. ASSUME NEW c \in Cmds, Crash(c) PROVE TempInv'
  BY <1>11 DEF Crash
<1>12. CASE Outage
  BY <1>12 DEF Outage, Running, Ended
<1>13. CASE UNCHANGED vars
  BY <1>13 DEF vars, cmdVars
<1> QED
  BY <1>1, <1>2, <1>3, <1>5, <1>6, <1>7, <1>8, <1>9, <1>10, <1>11, <1>12, <1>13
     DEF Next, Save, Done

(* The vault file is never a partly written one, at any instant and after   *)
(* any outage: also where directories cannot be synced, where an outage     *)
(* leaves neither file of a rename, and while exports are written to the    *)
(* path and the lock does not exclude.                                      *)
THEOREM NeverTorn == Spec => []VaultNeverTorn
<1>1. Init => TempInv
  BY DEF Init, TempInv, Absent
<1>2. TempInv => VaultNeverTorn
  BY DEF TempInv, VaultNeverTorn, Torn
<1> QED
  BY <1>1, <1>2, TempStep, TypeCorrect, PTL DEF Spec

-----------------------------------------------------------------------------
(* The history of the file *)

(* What is renamed has every change of the file it replaces, one more, and  *)
(* a later generation.                                                      *)
LEMMA RenameGrows ==
  ASSUME IInv, NEW c \in Cmds, Rename(c)
  PROVE  /\ vault' = NewFile(c) /\ kind[c] \in {"init", "edit", "rekey"}
         /\ vault'.state = "whole" /\ vault.gen < vault'.gen
         /\ vault'.edits = vault.edits \cup {c}
         /\ IF vault.state = "whole"
            THEN vault'.gen = vault.gen + 1 /\ vault'.key \in {vault.key, c}
            ELSE vault = Absent /\ vault'.gen = 1 /\ vault'.key = c
<1> USE DEF IInv, TypeOK
<1>1. /\ tmp[c] = NewFile(c) /\ Unchanged(c) /\ pc[c] = "rename"
      /\ kind[c] \in {"init", "edit", "rekey"}
  BY DEF Rename, SaveInv, Checked, KindInv, Critical
<1>2. vault' = NewFile(c)
  BY <1>1 DEF Rename
<1>3. CASE Creating(c)
  <2>1. vault = Absent
    BY <1>1, <1>3 DEF Unchanged, Exists, DiskInv
  <2>2. loaded[c].edits = {}
    BY <1>1, <1>3 DEF Creating, LoadInv, Pending, Absent
  <2> QED
    BY <1>1, <1>2, <1>3, <2>1, <2>2 DEF NewFile, Absent
<1>4. CASE ~Creating(c)
  <2>1. kind[c] # "init"
    BY <1>1, <1>4 DEF LoadInv, Pending, Creating, Exists, Absent
  <2>2. loaded[c] = vault /\ vault.state = "whole"
    BY <1>1, <1>4, <2>1 DEF Unchanged, Whole, LoadInv, Pending
  <2>3. vault.gen \in Nat
    BY DEF File
  <2> QED
    BY <1>1, <1>2, <1>4, <2>2, <2>3 DEF NewFile
<1> QED
  BY <1>3, <1>4

(* A confirmed command stays confirmed.                                     *)
LEMMA ConfirmedGrows ==
  ASSUME TypeOK, KindInv, [Next]_vars PROVE Confirmed \subseteq Confirmed'
<1> USE DEF TypeOK, Confirmed, Writer, Goto
<1>1. ASSUME NEW c \in Cmds, Start(c) PROVE Confirmed \subseteq Confirmed'
  BY <1>1 DEF Start
<1>2. ASSUME NEW c \in Cmds, Create(c) \/ Abandon(c) \/ Open(c) PROVE Confirmed \subseteq Confirmed'
  BY <1>2 DEF Create, Abandon, Open
<1>3. ASSUME NEW c \in Cmds, Save(c) PROVE Confirmed \subseteq Confirmed'
  BY <1>3 DEF Save, OpenLock, Acquire, Check, WriteTemp, SyncTemp, Backup, Copy, Rename, SyncDir,
              WriteError, Release, DropBackup, DropLockFile, Fail
<1>4. ASSUME NEW c \in Cmds, Crash(c) PROVE Confirmed \subseteq Confirmed'
  BY <1>4 DEF Crash, Running, Ended
<1>5. CASE Outage
  BY <1>5 DEF Outage, Running, Ended
<1>6. CASE UNCHANGED vars
  BY <1>6 DEF vars, cmdVars
<1> QED
  BY <1>1, <1>2, <1>3, <1>4, <1>5, <1>6 DEF Next, Done

(* What a command has seen: the changes confirmed before it started.        *)
SeenInv ==
  \A c \in Cmds :
    /\ before[c] \subseteq Confirmed
    /\ Exists(loaded[c]) => before[c] \subseteq loaded[c].edits

LEMMA SeenStep == ASSUME IInv, SeenInv, [Next]_vars PROVE SeenInv'
<1>1. Confirmed \subseteq Confirmed'
  BY ConfirmedGrows DEF IInv
<1>2. Confirmed \subseteq vault.edits
  BY DEF IInv, DiskInv, Confirmed, Settled
<1> USE <1>1 DEF IInv, TypeOK, SeenInv
<1>3. ASSUME NEW c \in Cmds, Start(c) PROVE SeenInv'
  <2>1. loaded[c] = Absent /\ loaded' = loaded
    BY <1>3 DEF Start, LoadInv
  <2>2. \A d \in Cmds : before'[d] \subseteq Confirmed
    BY <1>3 DEF Start
  <2>3. \A d \in Cmds : d # c => before'[d] = before[d]
    BY <1>3 DEF Start
  <2> QED
    BY <2>1, <2>2, <2>3 DEF Exists, Absent
<1>4. ASSUME NEW c \in Cmds, Open(c) PROVE SeenInv'
  <2>1. before' = before /\ \A d \in Cmds : loaded'[d] \in {loaded[d], vault}
    BY <1>4 DEF Open
  <2> QED
    BY <1>2, <2>1
<1>5. ASSUME NEW c \in Cmds, Rename(c) PROVE SeenInv'
  <2>1. vault.edits \subseteq vault'.edits /\ vault' = tmp[c]
    BY <1>5, RenameGrows DEF Rename
  <2>2. before' = before /\ \A d \in Cmds : loaded'[d] \in {loaded[d], vault'}
    BY <1>5, <2>1 DEF Rename
  <2> QED
    BY <1>2, <2>1, <2>2
<1>6. ASSUME before' = before, loaded' = loaded PROVE SeenInv'
  BY <1>6
<1>7. ASSUME NEW c \in Cmds, Save(c), ~Rename(c) PROVE before' = before /\ loaded' = loaded
  BY <1>7 DEF Save, OpenLock, Acquire, Check, WriteTemp, SyncTemp, Backup, Copy, SyncDir,
              WriteError, Release, DropBackup, DropLockFile, Fail
<1>8. ASSUME NEW c \in Cmds, Create(c) \/ Abandon(c) \/ Crash(c) PROVE before' = before /\ loaded' = loaded
  BY <1>8 DEF Create, Abandon, Crash
<1>9. Outage \/ UNCHANGED vars => before' = before /\ loaded' = loaded
  BY DEF Outage, vars, cmdVars
<1> QED
  BY <1>3, <1>4, <1>5, <1>6, <1>7, <1>8, <1>9 DEF Next, Done

(* A command sees every change that was confirmed before it started, though *)
(* it reads the file twice, with a prompt in between, and takes no lock.    *)
THEOREM LoadsSeeConfirmed ==
  ASSUME DirSyncs, OldOrNew, "export" \notin Kinds
  PROVE  Spec => []LoadsAreCurrent
<1>1. Init => SeenInv
  BY DEF Init, SeenInv, Exists, Absent
<1>2. SeenInv => LoadsAreCurrent
  BY DEF SeenInv, LoadsAreCurrent
<1> QED
  BY <1>1, <1>2, SeenStep, Invariant, PTL DEF Spec

-----------------------------------------------------------------------------
(* The backup *)

(* As long as there is no outage, the backup is a copy of a generation that *)
(* the vault has had, or is being written.                                  *)
BackupInv ==
  outages = 0 /\ Whole(bak) => Whole(vault) /\ bak.gen <= vault.gen /\ bak.edits \subseteq vault.edits

LEMMA BackupStep == ASSUME IInv, BackupInv, [Next]_vars PROVE BackupInv'
<1> USE DEF IInv, TypeOK, BackupInv, Whole
<1>1. vault.gen \in Nat /\ bak.gen \in Nat /\ vault'.gen \in Nat
  <2>1. vault' \in File
    BY TypeStep DEF TypeOK
  <2> QED
    BY <2>1 DEF File
<1>2. ASSUME NEW c \in Cmds, Rename(c) PROVE BackupInv'
  <2>1. bak' = bak /\ outages' = outages
    BY <1>2 DEF Rename
  <2> QED
    BY <1>1, <1>2, <2>1, RenameGrows
<1>3. ASSUME NEW c \in Cmds, Backup(c) \/ Copy(c) \/ DropBackup(c) PROVE BackupInv'
  BY <1>1, <1>3 DEF Backup, Copy, DropBackup, Torn, Absent
<1>4. CASE Outage
  BY <1>4, BoundsAssumption DEF Outage
<1>5. ASSUME NEW c \in Cmds, Save(c), ~Rename(c), ~Backup(c), ~Copy(c), ~DropBackup(c)
      PROVE  vault' = vault /\ bak' = bak /\ outages' = outages
  BY <1>5 DEF Save, OpenLock, Acquire, Check, WriteTemp, SyncTemp, SyncDir, WriteError, Release,
              DropLockFile, Fail, fileVars
<1>6. ASSUME NEW c \in Cmds, Start(c) \/ Create(c) \/ Abandon(c) \/ Open(c) \/ Crash(c)
      PROVE  vault' = vault /\ bak' = bak /\ outages' = outages
  BY <1>6 DEF Start, Create, Abandon, Open, Crash, fileVars
<1>7. UNCHANGED vars => vault' = vault /\ bak' = bak /\ outages' = outages
  BY DEF vars, fileVars
<1> QED
  BY <1>2, <1>3, <1>4, <1>5, <1>6, <1>7 DEF Next, Done

(* As long as there has been no outage, restoring the backup never goes     *)
(* ahead of the vault nor aside of its history, whoever is killed between   *)
(* the copy and the rename.                                                 *)
THEOREM BackupIsBehind ==
  ASSUME DirSyncs, OldOrNew, "export" \notin Kinds
  PROVE  Spec => []BackupIsAncestor
<1>1. Init => BackupInv
  BY DEF Init, BackupInv, Whole, Absent
<1>2. BackupInv => BackupIsAncestor
  BY DEF BackupInv, BackupIsAncestor
<1> QED
  BY <1>1, <1>2, BackupStep, Invariant, PTL DEF Spec

(* A rekey that has ended without a notice has removed the backup, and what *)
(* was copied since has its change.                                         *)
RevokedInv ==
  \A c \in Cmds :
    kind[c] = "rekey" /\ pc[c] = "ok" /\ Whole(bak) => c \in bak.edits

LEMMA RevokedStep ==
  ASSUME MaxOutages = 0, outages = 0, IInv, RevokedInv, [Next]_vars PROVE RevokedInv'
<1> USE DEF IInv, TypeOK, RevokedInv, Whole, Goto
<1>1. \A c \in Cmds : kind[c] = "rekey" /\ pc[c] = "ok" => c \in vault.edits
  BY DEF DiskInv, Settled, Writer
<1>2. ASSUME NEW c \in Cmds, Start(c) PROVE RevokedInv'
  BY <1>2 DEF Start, fileVars
<1>3. ASSUME NEW c \in Cmds, Create(c) \/ Abandon(c) \/ Open(c) \/ Crash(c) PROVE RevokedInv'
  BY <1>3 DEF Create, Abandon, Open, Crash, KindInv, fileVars
<1>4. ASSUME NEW c \in Cmds, Backup(c) PROVE RevokedInv'
  BY <1>4 DEF Backup, Torn
<1>5. ASSUME NEW c \in Cmds, Copy(c) PROVE RevokedInv'
  BY <1>1, <1>5 DEF Copy
<1>6. ASSUME NEW c \in Cmds, Release(c) PROVE RevokedInv'
  BY <1>6 DEF Release, AfterSave, fileVars
<1>7. ASSUME NEW c \in Cmds, DropBackup(c) PROVE RevokedInv'
  BY <1>7 DEF DropBackup, Absent
<1>8. ASSUME NEW c \in Cmds, DropLockFile(c) PROVE RevokedInv'
  BY <1>8 DEF DropLockFile, KindInv
<1>9. ASSUME NEW c \in Cmds, Save(c), ~Backup(c), ~Copy(c), ~Release(c), ~DropBackup(c),
             ~DropLockFile(c)
      PROVE  RevokedInv'
  BY <1>9 DEF Save, OpenLock, Acquire, Check, WriteTemp, SyncTemp, Rename, SyncDir, WriteError, Fail,
              fileVars
<1>10. ~Outage
  BY DEF Outage
<1>11. CASE UNCHANGED vars
  BY <1>11 DEF vars, cmdVars, fileVars
<1> QED
  BY <1>2, <1>3, <1>4, <1>5, <1>6, <1>7, <1>8, <1>9, <1>10, <1>11 DEF Next, Done

(* After a rekey the key it replaced opens neither the vault nor the backup: *)
(* no concurrent save that copies its backup late brings it back.  Without  *)
(* outages, since the removal of the backup is not synced.  The temporary   *)
(* file of a save that was killed is a third file, under the key of its     *)
(* time, which nothing removes.                                             *)
THEOREM RevokedKeyStaysGone ==
  ASSUME DirSyncs, OldOrNew, "export" \notin Kinds, MaxOutages = 0
  PROVE  Spec => []RevokedKeyIsGone
<1> DEFINE Inv == outages = 0 /\ RevokedInv
<1>1. Init => Inv
  BY DEF Init, RevokedInv
<1>2. outages = 0 /\ [Next]_vars => outages' = 0
  BY DEF Next, Start, Create, Abandon, Open, Crash, Save, OpenLock, Acquire, Check, WriteTemp,
         SyncTemp, Backup, Copy, Rename, SyncDir, WriteError, Release, DropBackup, DropLockFile,
         Fail, Outage, Done, vars
<1>3. IInv /\ Inv /\ [Next]_vars => Inv'
  BY <1>2, RevokedStep
<1>4. IInv /\ Inv => RevokedKeyIsGone
  BY DEF IInv, DiskInv, Settled, Writer, RevokedInv, RevokedKeyIsGone
<1> QED
  BY <1>1, <1>3, <1>4, Invariant, PTL DEF Spec

-----------------------------------------------------------------------------
(* The abstract vault *)

Early == {"new", "seal", "prompt"} \cup Pending

(* A command that has not renamed anything has no change in any file, and   *)
(* what an outage may bring back is an earlier generation.                  *)
HistoryInv ==
  /\ \A c \in Cmds : pc[c] \in Early => \A f \in mayVault : c \notin f.edits
  /\ \A f \in mayVault : f = vault \/ (f.gen < vault.gen /\ f.edits \subseteq vault.edits)

LEMMA HistoryStep == ASSUME OldOrNew, IInv, HistoryInv, [Next]_vars PROVE HistoryInv'
<1> USE DEF IInv, TypeOK, HistoryInv, Early, Pending, Goto
<1>1. vault \in mayVault
  BY DEF DiskInv
<1>2. ASSUME NEW c \in Cmds, Rename(c) PROVE HistoryInv'
  <2>1. mayVault' = mayVault \cup {vault'}
    BY <1>2 DEF Rename, SaveInv, Checked
  <2>2. \A d \in Cmds : pc'[d] \in Early => d # c /\ pc[d] \in Early
    BY <1>2 DEF Rename
  <2>3. \A f \in mayVault : f.gen < vault'.gen /\ f.edits \subseteq vault'.edits
    <3>1. vault.gen \in Nat /\ vault'.gen \in Nat /\ \A f \in mayVault : f.gen \in Nat
      BY <1>2, NewFileType, RenameGrows DEF File
    <3> QED
      BY <1>2, <3>1, RenameGrows
  <2> QED
    BY <1>1, <1>2, <2>1, <2>2, <2>3, RenameGrows
<1>3. ASSUME NEW c \in Cmds, SyncDir(c) PROVE HistoryInv'
  BY <1>1, <1>3 DEF SyncDir
<1>4. CASE Outage
  BY <1>4 DEF Outage, Running, Ended
<1>5. ASSUME vault' = vault, mayVault' = mayVault, \A c \in Cmds : pc'[c] \in Early => pc[c] \in Early
      PROVE  HistoryInv'
  BY <1>5
<1>6. ASSUME NEW c \in Cmds, Save(c), ~Rename(c), ~SyncDir(c) PROVE HistoryInv'
  BY <1>5, <1>6 DEF Save, OpenLock, Acquire, Check, WriteTemp, SyncTemp, Backup, Copy, WriteError,
                    Release, AfterSave, DropBackup, DropLockFile, Fail, KindInv, Critical, fileVars
<1>7. ASSUME NEW c \in Cmds, Start(c) \/ Create(c) \/ Abandon(c) \/ Open(c) \/ Crash(c)
      PROVE  HistoryInv'
  BY <1>5, <1>7 DEF Start, Create, Abandon, Open, Crash, fileVars
<1>8. CASE UNCHANGED vars
  BY <1>5, <1>8 DEF vars, cmdVars, fileVars
<1> QED
  BY <1>2, <1>3, <1>4, <1>6, <1>7, <1>8 DEF Next, Done

(* The steps of a command, as its answer shows them.                        *)
Answered == {"ok", "warned", "failed"}

LEMMA SameOutcome ==
  ASSUME kind' = kind,
         \A d \in Cmds : \/ pc'[d] = pc[d]
                         \/ pc[d] \notin Answered /\ pc'[d] \notin Answered
                         \/ ~Writer(d)
  PROVE  Outcome' = Outcome
BY DEF Outcome, Confirmed, Writer, Answered

LEMMA NewOutcome ==
  ASSUME NEW c \in Cmds, \A d \in Cmds \ {c} : pc'[d] = pc[d] /\ kind'[d] = kind[d],
         Outcome[c] = "none", Writer(c)', pc'[c] \in Answered
  PROVE  Outcome' = [Outcome EXCEPT ![c] = IF pc'[c] = "failed" THEN "refused" ELSE "confirmed"]
BY DEF Outcome, Confirmed, Writer, Answered

LEMMA AbstractStep ==
  ASSUME IInv, HistoryInv, [Next]_vars PROVE [Abstract!Next]_<<vault, Outcome>>
<1> USE DEF IInv, TypeOK, Goto
<1>1. vault \in mayVault /\ \A f \in mayVault : f.state # "torn"
  BY DEF DiskInv
<1>2. \A c \in Cmds : pc[c] \notin Answered => Outcome[c] = "none"
  BY DEF Outcome, Confirmed, Answered
<1>3. ASSUME NEW c \in Cmds, pc[c] \in Early, pc'[c] = "failed", vault' = vault, Writer(c)',
             \A d \in Cmds \ {c} : pc'[d] = pc[d] /\ kind'[d] = kind[d]
      PROVE  Abstract!Refuse(c)
  <2>1. Outcome[c] = "none"
    BY <1>2, <1>3 DEF Early, Pending, Answered
  <2>2. c \notin vault.edits
    BY <1>1, <1>3 DEF HistoryInv
  <2> QED
    BY <1>3, <2>1, <2>2, NewOutcome DEF Abstract!Refuse, Answered
<1>4. ASSUME NEW c \in Cmds, pc[c] \in {"unlock", "dropbak"}, pc'[c] \in {"ok", "warned"},
             vault' = vault, kind' = kind, Writer(c), \A d \in Cmds \ {c} : pc'[d] = pc[d]
      PROVE  Abstract!Confirm(c)
  <2>1. Outcome[c] = "none" /\ Writer(c)'
    BY <1>2, <1>4 DEF Answered, Writer
  <2>2. c \in vault.edits
    BY <1>4 DEF DiskInv, Settled
  <2> QED
    BY <1>4, <2>1, <2>2, NewOutcome DEF Abstract!Confirm, Answered
<1>5. ASSUME NEW c \in Cmds, Start(c) PROVE [Abstract!Next]_<<vault, Outcome>>
  <2>1. pc[c] = "new" /\ ~Writer(c) /\ vault' = vault
        /\ \A d \in Cmds \ {c} : pc'[d] = pc[d] /\ kind'[d] = kind[d]
    BY <1>5 DEF Start, KindInv, Writer, fileVars
  <2>2. CASE pc'[c] = "failed" /\ Writer(c)'
    BY <1>3, <2>1, <2>2 DEF Abstract!Next, Early
  <2>3. CASE ~(pc'[c] = "failed" /\ Writer(c)')
    <3>1. pc'[c] \notin {"ok", "warned"}
      BY <1>5 DEF Start
    <3> QED
      BY <2>1, <2>3, <3>1 DEF Outcome, Confirmed, Writer
  <2> QED
    BY <2>2, <2>3
<1>6. ASSUME NEW c \in Cmds, Create(c) \/ Abandon(c) \/ Open(c)
      PROVE  [Abstract!Next]_<<vault, Outcome>>
  <2>1. /\ pc[c] \in {"seal", "prompt"} /\ vault' = vault /\ kind' = kind
        /\ pc'[c] \in {"failed", "queue"} \/ (pc'[c] = "ok" /\ ~Writer(c))
        /\ \A d \in Cmds \ {c} : pc'[d] = pc[d]
    BY <1>6 DEF Create, Abandon, Open, Writer, fileVars
  <2>2. CASE pc'[c] = "failed" /\ Writer(c)
    <3>1. Writer(c)'
      BY <2>1, <2>2 DEF Writer
    <3> QED
      BY <1>3, <2>1, <2>2, <3>1 DEF Abstract!Next, Early
  <2>3. CASE ~(pc'[c] = "failed" /\ Writer(c))
    BY <2>1, <2>3, SameOutcome DEF Answered
  <2> QED
    BY <2>2, <2>3
<1>7. ASSUME NEW c \in Cmds, Fail(c), pc[c] \in {"check", "write", "sync", "rename"}
      PROVE  [Abstract!Next]_<<vault, Outcome>>
  <2>1. Writer(c) /\ kind' = kind
    BY <1>7 DEF Fail, KindInv, Critical, Writer
  <2>2. Writer(c)'
    BY <2>1 DEF Writer
  <2>3. pc'[c] = "failed" /\ vault' = vault /\ \A d \in Cmds \ {c} : pc'[d] = pc[d]
    BY <1>7 DEF Fail, fileVars
  <2> QED
    BY <1>3, <1>7, <2>1, <2>2, <2>3 DEF Abstract!Next, Early, Pending
<1>8. ASSUME NEW c \in Cmds, Check(c) \/ WriteError(c) PROVE [Abstract!Next]_<<vault, Outcome>>
  <2>1. CASE Fail(c)
    BY <1>7, <1>8, <2>1 DEF Check, WriteError
  <2>2. CASE ~Fail(c)
    <3>1. pc[c] = "check" /\ pc' = [pc EXCEPT ![c] = "write"] /\ kind' = kind /\ vault' = vault
      BY <1>8, <2>2 DEF Check, WriteError, fileVars
    <3> QED
      BY <3>1, SameOutcome DEF Answered
  <2> QED
    BY <2>1, <2>2
<1>9. ASSUME NEW c \in Cmds, Rename(c) PROVE [Abstract!Next]_<<vault, Outcome>>
  <2>1. /\ pc[c] = "rename" /\ pc' = [pc EXCEPT ![c] = "dirsync"] /\ kind' = kind
    BY <1>9 DEF Rename
  <2>2. Outcome' = Outcome /\ Outcome[c] = "none"
    BY <1>2, <2>1, SameOutcome DEF Answered
  <2>3. c \notin vault.edits
    BY <1>1, <2>1 DEF HistoryInv, Early, Pending
  <2>4. vault \in File /\ vault' \in File
    BY <1>9, RenameGrows, NewFileType
  <2>5. CASE vault.state = "whole"
    <3>1. vault' = [state |-> "whole", gen |-> vault.gen + 1, key |-> vault'.key,
                    edits |-> vault.edits \cup {c}]
      BY <1>9, <2>4, <2>5, RenameGrows DEF File
    <3>2. vault'.key \in {vault.key, c}
      BY <1>9, <2>5, RenameGrows
    <3>3. Abstract!CommitNext(c)
      BY <2>2, <2>3, <2>5, <3>1, <3>2 DEF Abstract!CommitNext
    <3> QED
      BY <3>3 DEF Abstract!Next
  <2>6. CASE vault.state # "whole"
    <3>1. vault = Absent /\ vault'.gen = 1 /\ vault'.key = c /\ vault'.state = "whole"
          /\ vault'.edits = {c}
      BY <1>9, <2>6, RenameGrows DEF Absent
    <3>2. vault' = [state |-> "whole", gen |-> 1, key |-> c, edits |-> {c}]
      BY <2>4, <3>1 DEF File
    <3>3. Abstract!CommitFirst(c)
      BY <2>2, <3>1, <3>2 DEF Abstract!CommitFirst, Absent
    <3> QED
      BY <3>3 DEF Abstract!Next
  <2> QED
    BY <2>5, <2>6
<1>10. ASSUME NEW c \in Cmds, Release(c) \/ DropBackup(c) PROVE [Abstract!Next]_<<vault, Outcome>>
  <2>1. /\ pc[c] \in {"unlock", "dropbak"} /\ vault' = vault /\ kind' = kind
        /\ pc'[c] \in {"dropbak", "ok", "warned"}
        /\ \A d \in Cmds \ {c} : pc'[d] = pc[d]
    BY <1>10 DEF Release, AfterSave, DropBackup, KindInv, fileVars
  <2>2. CASE Writer(c) /\ pc'[c] # "dropbak"
    BY <1>4, <2>1, <2>2 DEF Abstract!Next
  <2>3. CASE ~(Writer(c) /\ pc'[c] # "dropbak")
    BY <2>1, <2>3, SameOutcome DEF Answered
  <2> QED
    BY <2>2, <2>3
<1>11. ASSUME NEW c \in Cmds, OpenLock(c) \/ Acquire(c) \/ WriteTemp(c) \/ SyncTemp(c) \/ Backup(c)
                             \/ Copy(c) \/ SyncDir(c) \/ Crash(c)
       PROVE  [Abstract!Next]_<<vault, Outcome>>
  <2>1. vault' = vault /\ kind' = kind /\ pc[c] \notin Answered /\ pc'[c] \notin Answered
        /\ \A d \in Cmds \ {c} : pc'[d] = pc[d]
    BY <1>11 DEF OpenLock, Acquire, WriteTemp, SyncTemp, Backup, Copy, SyncDir, Crash, Running, Ended,
                 Answered, fileVars
  <2> QED
    BY <2>1, SameOutcome
<1>12. ASSUME NEW c \in Cmds PROVE ~DropLockFile(c)
  BY DEF DropLockFile, KindInv
<1>13. CASE Outage
  <2>1. vault' \in mayVault /\ kind' = kind
    BY <1>13 DEF Outage
  <2>2. \A d \in Cmds : pc'[d] = pc[d] \/ (pc[d] \notin Answered /\ pc'[d] \notin Answered)
    BY <1>13 DEF Outage, Running, Ended, Answered
  <2>3. Outcome' = Outcome
    BY <2>1, <2>2, SameOutcome
  <2>4. CASE vault' = vault
    BY <2>3, <2>4
  <2>5. CASE vault' # vault
    <3>1. vault'.gen < vault.gen /\ vault'.edits \subseteq vault.edits
      BY <2>1, <2>5 DEF HistoryInv
    <3>2. vault' \in Abstract!Contents
      BY <1>1, <2>1 DEF Abstract!Contents, File
    <3>3. \A c \in Cmds : Outcome[c] = "confirmed" => c \in vault'.edits
      BY <2>1 DEF Outcome, Confirmed, DiskInv, Settled
    <3>4. Abstract!RollBack
      BY <2>3, <3>1, <3>2, <3>3 DEF Abstract!RollBack
    <3> QED
      BY <3>4 DEF Abstract!Next
  <2> QED
    BY <2>4, <2>5
<1>14. CASE UNCHANGED vars
  BY <1>14 DEF vars, cmdVars, fileVars, Outcome, Confirmed, Writer
<1> QED
  BY <1>5, <1>6, <1>8, <1>9, <1>10, <1>11, <1>12, <1>13, <1>14 DEF Next, Save, Done

(* The lock file, the generation check and write_atomic implement an atomic *)
(* compare-and-set of the whole file, for any number of commands and        *)
(* outages: each step is one commit, answer or roll-back of AtomicVault, or *)
(* not visible to it.                                                       *)
THEOREM Refinement ==
  ASSUME DirSyncs, OldOrNew, "export" \notin Kinds
  PROVE  Spec => ImplementsAtomicVault
<1>1. Init => HistoryInv /\ Abstract!Init
  BY DEF Init, HistoryInv, Absent, Abstract!Init, Outcome, Confirmed, Writer
<1> QED
  BY <1>1, HistoryStep, AbstractStep, Invariant, PTL DEF Spec, ImplementsAtomicVault, Abstract!Spec
=============================================================================
