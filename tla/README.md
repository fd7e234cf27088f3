# Formal models of win-creds-manager (wcm)

`wcm` is a command line password manager: one encrypted file, the *vault*, that Windows
Hello, a recovery key or a passphrase opens. There is no daemon. Each command is one
process that loads the vault, changes it in memory and saves it once, so most of what is
hard about `wcm` happens between processes: two commands on one file, a kill or a power
cut inside a save, a Windows Hello key shared by commands that do not know of each other,
secrets that change while somebody is typing one, a clipboard that belongs to everybody.
The rest is in rules that two pieces of code must agree on: the WSL shim and the command
line parser, the order of the slots and the errors that end an unlock.

Paths below are relative to `src/crates/`, unless they start with `src/`.

## 1. Inventory

| Component | Code | State | Operations | Hard behaviour | What makes it correct |
|---|---|---|---|---|---|
| Vault file store | `wcm-core/src/vault/{file,mod}.rs`, `wcm-cli/src/context.rs` | vault, `.bak`, `.lock`, temporary file, generation counter | create, load (two reads), save, drop the backup | racing savers, kill or outage at any step, readers without a lock | a save is an atomic compare-and-set; confirmed changes stay; no torn file; the backup is older than the vault |
| Key slots and vault keys | `vault/header.rs`, `slot/*`, `commands/{init,slot,recover,rekey}.rs` | slots, data key, secrets in the user's hands | init, slot add, slot rm, recover, rekey | decisions taken before a prompt and used after it, external keys destroyed after a save, secrets shown after a save | every slot wraps the body's key; a passphrase slot remains; a slot that was removed stays out; the user can get in |
| Unlock and slot selection | `vault/mod.rs`, `slot/mod.rs`, `context.rs`, `prompt.rs` | order of the slots, `--slot`, `WCM_PASSPHRASE` | try slots, skip unavailable ones, end on other errors, the loop over passphrase slots | one error decides whether the next slot is tried; three reads of a file that others replace | no prompt where none is allowed; a lost Hello key falls through to a typed secret; a refusal is final |
| Windows Hello backend | `wcm-hello/src/{backend,kcm,kcm_api,...}.rs` | one credential per vault id | open, create, public key, sign, delete | other commands and the system (PIN reset) change it between two calls; transient errors are retried once | a sealed slot names the key that signed; a saved slot's key is not destroyed or replaced by wcm |
| Items and body | `item.rs`, `vault/body.rs`, `commands/{add,set,rm,mv,get,show,ls}.rs` | sorted list of named items | add, set, rm, mv, get, show, ls | an error reported after a save; decisions on items that others change | names are unique, nothing but the named item changes, a failed command changed nothing, secrets stay secret fields |
| Export and import | `commands/{export,import}.rs`, `wcm-core/src/export.rs` | a document, or a vault of its own | write; create and save; merge, overwrite, replace; bookkeeping save | an export used while it is written; repeated names | an export is one state of the vault; the report of an import is what happened |
| Clipboard | `clip.rs`, `commands/unclip.rs` | clipboard, detached processes | copy, start `unclip`, wait, compare and clear | compare and clear are two steps; several waiting processes; a process that cannot be started | a secret is cleared in time, other text is not |
| WSL shim | `wsl.rs`, `wsl_core.rs` | none of its own | detect, find `wcm.exe`, check it, translate arguments and environment, `ssh` detour | two readings of one command line; a `wcm.exe` that is no Windows program | the command that runs is the one that was typed; the exit code is true; the call does not go round |
| ssh-agent and `run` | `ssh.rs`, `commands/{ssh,run}.rs` | the agent's keys | run, ssh add, ssh remove, ssh pubkey | precedence and order of checks, failures half way | what is started sees the asked secrets and none of wcm's own |
| Cryptography | `crypto/*`, `recovery_key.rs`, `generate.rs` | none | seal, open, derive | — | assumed, see section 7 |
| Output, completions, diagnostics | `output.rs`, `commands/{doctor,status,completions}.rs` | none | — | — | not modelled, see section 7 |

How they interact: every command reads the header, goes through the slots
(`Vault::unlock`, which calls the Hello or the passphrase backend), reads the whole file
again under the key it got (`open_with_dek`), computes a new header or body and calls
`UnlockedVault::save`. `slot rm`, `recover` and `rekey` then remove the backup; the first
two also delete the Hello credential of the slots they dropped. An export runs `create`
and `save` on a second vault file. A secret is delivered after the save, to the terminal
or to the clipboard, whose clearing is left to another process. In a WSL the Linux `wcm`
becomes `wcm.exe` or, for `ssh`, runs it and feeds the `ssh-add` of the WSL. The hazards,
each at its line and with the properties about it, are in `PROJECT.json`.

## 2. Modules

| Module | Models | Lines up with |
|---|---|---|
| `AtomicVault` | what a save promises: an atomic compare-and-set with truthful answers | `Vault::create`, `UnlockedVault::save` |
| `VaultStore` | the files and the lock, one action per step of load, lock, `write_atomic` and what follows a save; implements `AtomicVault` | `vault/file.rs`, `vault/mod.rs`, `context.rs`, `export.rs` |
| `KeySlots` | slots, data key, secrets and the Hello credential, on top of an atomic vault | `commands/{init,slot,recover,rekey}.rs`, `header.rs`, `backend.rs` |
| `Unlock` | how a command gets at the key, and how an enrolment makes a Hello slot, call by call | `vault/mod.rs`, `slot/*`, `context.rs`, `wcm-hello/src/backend.rs` |
| `ItemMap` | what the body promises: a map from names to items | `vault/body.rs`, `export.rs` |
| `Items` | the commands on items, exports and imports; implements `ItemMap` | `item.rs`, `export.rs`, `commands/*.rs` |
| `Clipboard` | the copying commands and their `unclip` processes | `clip.rs`, `commands/unclip.rs` |
| `Scanning` | a loop over a sequence, which `ShimArgs` and `Launch` instantiate with their steps | the loops of `wsl_core.rs`, `run.rs` and clap |
| `ShimArgs` | the readings of a command line, as pure operators: clap's and the shim's | `cli.rs`, `wsl_core.rs` |
| `Launch` | one native `wcm` process that runs `run` or `ssh` | `commands/{run,ssh}.rs`, `ssh.rs` |
| `Shim` | the Linux `wcm` in a WSL in front of it (extends `Launch`, which extends `ShimArgs`) | `wsl.rs`, `wsl_core.rs` |
| `VaultStoreProofs`, `KeySlotsProofs`, `UnlockProofs`, `ItemsProofs`, `ClipboardProofs`, `ShimProofs` | inductive invariants and theorems | |
| `ItemListProofs` | lemmas: what filtering, sorting, inserting, renaming and merging make of a list of items | |
| `ScanningProofs` | lemmas: a loop takes one step per element, and induction over the elements | |
| `MC...` | the values of the constants for TLC | |

**`VaultStore`** follows one command from `Start` (first look at the file) through `Open`
(second read), `OpenLock`/`Acquire` (`file::lock`), `Check` (existence or generation),
`WriteTemp`, `SyncTemp`, `Backup`, `Copy`, `Rename`, `SyncDir` (`write_atomic`),
`Release` (guard dropped) to `DropBackup`/`DropLockFile`. `pc[c]` is the step; `fd`,
`holds`, `lockFile`, `inodes` are the advisory lock, by inode rather than by name, since
that is what makes the removal of the lock file matter. `mayVault` and `mayBak` are what
the disk may hold after an outage: a rename widens the set, a directory sync narrows it.
`OldOrNew` says whether an outage between the two keeps one of the files of the rename or,
as the comment at `file.rs:102` allows for some filesystems, perhaps neither.
A file's contents are its generation, the identity of its key, and the set of commands
whose change it holds (`edits`), which is what "lost update" is about. `before` is a
history variable. In an export the lock, create and save steps are the same actions,
taken twice.

**`KeySlots`** takes the save as one step, which `VaultStore!ImplementsAtomicVault`
justifies, and keeps the order of the rest: header check, prompt (`Unlock`), second read
(`Open`), credential created (`OpenKey`), signature (`SignKey`), `Save`, `Destroy` of the
old credential, `Show` of the recovery key. The slots are a set of records with their
ids, which `next_id` hands out up to `MaxId` (255 in the code); their order is
`Unlock`'s. A secret is its maker and whether it was generated or chosen, so that "the
user has it" can be told (`shown`); a Hello slot holds the identity of the Hello key that
sealed it; `cred` is the one credential a vault id names. `revoked` is a history variable.

**`Unlock`** has one action per call that another process can come between. `Begin` picks
a command line and its surroundings, `ReadHeader` reads the file for the labels, `Order`
arranges the slots as `slot/mod.rs` does and `Try` takes the next one: a passphrase slot
is answered from `WCM_PASSPHRASE` or by the user (`Answer`), a Hello slot goes through
`OpenKey`, `Sign` and `Unwrap` (the DPAPI envelope). `ReadBody` is the third read of the
file. A command that enrols goes on with `OpenKey`/`CreateKey`, `PublicKey`, `Sign` and
`Seal`. `SlotFailed` sorts the errors into those that go to the next slot and those that
end the unlock; `Failed` is the loop around it, over the labels of all passphrase slots,
when `WCM_PASSPHRASE` is set. `skipped` is a history variable: the slots this unlock has
passed over. `PinReset` and `Replace` are what others do meanwhile; every
call into Windows may be refused by the user, fail, or fail after it has succeeded.

**`Items`** runs commands out of a given set of `Tasks` at the same time: `Check` (names
and options), `ReadFile` and `OpenExport` (import), `Load` (unlock and the body in
memory), `Confirm` (the prompt of `rm` and others), `Save` with `SaveLocked` (a later
generation is there) and `SaveFails`, `After` (what follows a successful save), `Deliver`
(print or copy), `Kill`. A plaintext export creates its file (`CreatePlain`) and writes it
(`WritePlain`); an encrypted one looks at the path under its lock (`CreateExport`), renames
an empty vault there (`PlaceExport`) and saves the items into it (`FillExport`); each write
may fail half way (`WriteFails`). What a command does to
the list is an operator per method of `VaultBody` and `merge`; a filtered list is `Sublist`
of the positions kept, a sorted one puts each item where its `Rank` is. A field value is
who gave it and in which form, not its bytes. `ItemMap` forgets the order, so an exported
document is one of the `Listings` of contents the vault has had.

**`Clipboard`** has the command (`Begin`, `Disabled`, `Copy`, `Spawn`) and its detached
process (`Compare`, `Clear`), with `UserCopies`, `Tick` and `Kill` around them. `writes`
counts what was put on the clipboard, so that a process can be told to clear what it was
started for.

**`ShimArgs`**, **`Launch`**, **`Shim`**: a command line is a sequence of tokens of five
forms (`text`, `--opt`, `--opt=text`, `-otext`, `--`). `ShimArgs` has the readings of
it, one step per token: `ReadToken` is clap's (an option is refused a second time at the
same level, and a global one may come before and after the subcommand, where the deeper
counts), `TranslateToken` that of `translate_args`,
`SshToken` that of `parse_ssh_action`; `Scanning!Result` is the loop around each. `Launch`
has the steps of `run` (collect the mappings, resolve, start, wait) and of `ssh` (load the
item, call ssh-add, report: `LateFaults` are the exits after ssh-add has done its work). `Shim` has `Enter` (detection, loop guard), `Locate`,
`Preflight`, `HandOver`, and for the `ssh` detour `Fetched` and `Pipe`; after `HandOver`
the same process is a native one on Windows and takes `Launch`'s steps.

## 3. Runs

Passing:

| Run | Instance | Shows |
|---|---|---|
| `StoreRaces` | 4 commands out of init, edit and rekey, kills | saves exclude each other; the backup stays behind the vault; after a rekey neither of them opens with the old key |
| `StoreOutages` | 3 commands with readers, kills, 2 outages | no confirmed change is lost, loads are current, the files implement an atomic register |
| `StoreLive` | 2 commands of any kind, exports too, no directory sync, 1 outage that may keep neither file of a rename, fair | every save that was started ends; no torn file |
| `SlotRaces` | 3 slot commands at once, all operations, 3 slot ids, 1 PIN reset | every slot opens the body; headers stay valid; a passphrase slot remains; removed slots stay out; the user has a way in |
| `SlotTurns` | 3 slot commands in turn, two Hello slots, 4 slot ids, 1 kill, 1 PIN reset | wcm never destroys or replaces a Hello key that a saved slot needs |
| `UnlockSlots` | 2 commands, 2 vault files, 11 option sets, 3 Hello keys, 1 change of the file or PIN, 1 failing call each | see below |
| `ItemEdits` | 2 commands out of 21 command lines, 3 names, 1 failing save or kill | see below |
| `ClipboardTimers` | 2 copies of 2 secrets, timeouts 1 and 2, 1 user copy, 1 fault | only its own text is cleared, not before its time, and no secret stays |
| `ShimCalls` | 52 command lines × 8 environments × 5 machines × 8 items | see below |

`UnlockSlots`: with `--no-input` nothing is asked; a secret in `WCM_PASSPHRASE` is not
asked for again, and the loop that tries it shows a Hello prompt only for a label that
another command has given to a Hello slot meanwhile (`SilenceIsKept`); the right secret in `WCM_PASSPHRASE` opens (`EnvPassphraseOpens`);
however Windows Hello fails, a typed secret is asked for (`RecoverySlotIsReached`); one
Hello prompt per command and two more for an enrolment (`OneHelloPrompt`); a sealed slot
names the key that signed (`SealedSlotsOpen`); after a dismissed dialog there is no other
prompt (`RefusalIsFinal`); every command comes to a prompt or its end (`UnlockProgress`).

`ItemEdits`: a command that ends with an error other than of the file system or a helper
program has not changed the vault (`ErrorsChangeNothing`; the file of an export is another
matter); an export that ended well is one state the vault has had, unless it is a plaintext
one that an encrypted one has overwritten (`ExportIsSnapshot`); the counts an import
reports are the changes it made (`ReportIsTrue`); what was typed as a secret is never
in a public field (`SecretsStaySecret`) and is printed by the commands that are listed at
`PrintedOnRequest` only; every save is one operation on a map (`ImplementsItemMap`).

`ShimCalls`: `wcm.exe` reads the command that was typed, and for the `ssh` detour one for the
same key and vault unless a global option is repeated (`ShimKeepsTheCommand`); exit code 0
of `ssh add` and `ssh remove` means that the agent is as asked, another that it is as it was
or that only the report after ssh-add failed (`SshExitIsTrue`); a started
program sees the variables that were asked for and none of wcm's secrets
(`StartedSeeWhatWasAsked`); the call ends, or comes to where it waits for its user, for
Windows, or for the command it has started (`CallProgress`).

Violated, each a disagreement between the code and what its documents or comments say
(quoted in `PROJECT.json`):

| Run | Shows |
|---|---|
| `StoreExportLock` | An export unlinks its lock file while another command has it open; a third locks a new file, and two saves overlap. |
| `SlotDestroyRace` | `slot rm` deletes the credential a concurrent `slot add --hello` has just reused. |
| `ShimSshAgent` | `wcm ssh add k -t60` and `wcm ssh add -- k` are not recognised by the shim and run on the agent of Windows. |

More disagreements came up while modelling. The modules contain them, most as an exception
that a property names, but no run states them:

* `src/README.md:181` has `WCM_PASSPHRASE` "used without prompting". The labels it is tried
  under come from one read of the header, each try from another (`context.rs:107-116`): when
  the label of a removed passphrase slot has been given to a Hello slot in between, wcm shows
  a Hello prompt. With `--slot`, and in `recover`, Hello slots are tried as well.
* `src/README.md:107` has "exactly one Windows Hello prompt per command" and line 132 one for
  `slot add --hello`. An enrolment asks up to three times: for the unlock, for the creation
  of the key and for its signature (`OneHelloPrompt`).
* `src/docs/EXIT_CODES.md:21`, `src/docs/TESTER_CHECKLIST.md:147` and `src/docs/WSL.md:208`
  expect exit code 7 of a session that cannot show Hello, or of a Hello key that is gone.
  The code goes on to ask for the recovery key or a passphrase, and ends with 7 only under
  `--no-input` (`RecoverySlotIsReached`).
* `wsl_core.rs:371` recognises `ssh add` "with global options anywhere". clap takes a global
  option before *and* after the subcommand and uses the deeper one; the shim sends both to
  `wcm.exe` at one level (`wsl_core.rs:339`, `:405`), which refuses them as a usage error.
  `wcm --vault a ssh add k --vault b` and `wcm -q ssh add k -q` fail from a WSL and work on
  Windows. `ShimKeepsTheCommand` names the case (`Repeats`).
* `ssh add` may report an error although ssh-add has taken the key: a failed write to its
  stdin that its exit status does not show (`ssh.rs:109`), a JSON report that cannot be written
  (`commands/ssh.rs:158`), or a message that cannot be, which aborts the process
  (`panic = "abort"`, `src/Cargo.toml:63`).
* An encrypted export looks whether its path is free and renames its file there in two steps
  under a lock (`vault/mod.rs:202-226`) that a plaintext export does not take, and may so
  overwrite one (`outfile.rs:19` has "never overwrites"). An export that fails or is killed
  leaves an empty or a partly written file behind.
* `src/README.md:165` has JSON print secrets for `get`, `show --reveal` and plaintext exports
  only; `add --generate --json` prints the value as well (`add.rs:74`).
* An outage after a rename and before the directory sync may, on some filesystems, leave
  *neither* file (`file.rs:102`). What is said about outages below holds where one of them is
  left (`OldOrNew`), except that there is no torn file.
* `run.rs:174` tells variables apart by their exact names. On Windows two names that differ
  only in case are one variable; when one of them is mapped twice, its later value takes the
  place of its earlier one, and a mapping under the other name in between wins.
* `src/docs/SECURITY.md:129` has `rekey`, `recover` and `slot rm` delete the backup. The
  directory is not synced after the removal (`context.rs:142`), so an outage may bring
  the backup back after the command has reported success. `RevokedKeyIsGone` is
  therefore checked without outages.
* `export.rs:167` speaks of a fresh vault *holding* the body; it is created empty and
  filled by a second save, so an export can be opened while it holds nothing.
* `rekey.rs:128` says that the previous recovery key no longer works. When the vault was
  unlocked with that key in `WCM_PASSPHRASE`, `rekey` seals the other passphrase slots
  with it again (`rekey.rs:32`).
* The last passphrase slot cannot be removed (`src/README.md:133`, `slot.rs:312`). When it
  was given the label `hello`, `recover` drops it (`recover.rs:66`).
  `RecoverySlotRemains` and `UserKeepsAccess` are checked with other labels.
* A `rekey` that is killed between its save and its message (`rekey.rs:116`) has replaced
  the recovery key by one nobody saw. `UserKeepsAccess` is checked without kills.
* `src/docs/TESTER_CHECKLIST.md:117` expects a Hello prompt after a `recover`; the new slot
  comes after the recovery slot, which is asked for first. Line 110 expects a lost Hello
  key to fall through; one that was lost *and replaced* under its name ends the unlock.
* `src/docs/WSL.md:179` says that 126 and 127 are never produced by `wcm.exe`; `wcm run`
  passes on any exit status of the program it starts.
* `src/README.md:185` has `WCM_CLIP_DISABLE` take effect when set; the code wants `1`. A garbled
  `WCM_CLIP_TIME` is a usage error for `get` and `generate` and ignored by `add`.
* The same secret copied again is cleared when the *earlier* timer ends (`src/README.md:99`).
* `src/docs/EXIT_CODES.md:40` keeps stdout empty on errors; a plain export to stdout has been
  printed when the save of its bookkeeping fails.
* `add --clip` of a binary value fails after the item was stored (`add.rs:71`): the one
  exception in `ErrorsChangeNothing`.
* The shim does not translate the path in `-oPATH` or after `--`, and translates the
  option that follows a `--vault` without a value; it accepts a repeated `--json` or `-t`
  in `ssh add`, which clap refuses; it does not check the kind of the item.

Every property of a passing run has a mutant: a plausible bug, defined beside the
definition it replaces, under which the run finds the property violated.

## 4. Bounds, and why they are enough

* *Commands of the store and slots.* Each is one process, so `Cmds` bounds the length of a
  history as well as its concurrency. Two racing savers and one earlier command that made
  the vault need three; four add a writer that stands between two others. The lock-file
  race needs three (remover, waiter, newcomer). The slot hazards are races of two after an
  `init`.
* `DirSyncs` and `OldOrNew` are TRUE where confirmed changes are to survive an outage, as the
  code says that they need it, and FALSE in `StoreLive`.
* `MaxOutages` (2): one outage to fall back to an older file, one more on top of it.
* `MaxActive` (1 or 3), `MaxCrashes`, `MaxResets` (0 or 1): one kill or reset is enough
  to separate any two steps.
* `MaxId` (3 or 4) stands for the 255 slot ids. It is small so that the ids run out and are
  used again within three commands; nothing else depends on its value.
* Labels: the default ones and one more; wcm treats no other label specially.
* *Unlock.* Two commands, since a command meets others only through the file, the Hello
  key and their absence, which `Replace` and `PinReset` change at any moment; the second one
  is there to create keys. The first file has two Hello slots and two passphrase slots, so that each kind
  comes before and after the other; the second is the vault after a rekey, with the label of
  a passphrase slot given to a Hello slot.
  The eleven option sets cover every option alone and the pairs that meet in the code; the
  theorems hold for all of them. `Keys` (3) is a replaced key and its replacement.
  `MaxFailures` (1): wcm repeats a call once, and a second failure is like a failure that
  is not repeated.
* *Items.* Two commands, as the only things they share are the generation check and the
  export file; three names, so that one can be before, at and after another in the sorted
  list. The 21 command lines have every command, each form of value and each option that
  changes what is stored or printed; the documents repeat a new and an existing name, or
  are refused half way.
* *Clipboard.* Two processes and the user are what compare and clear can race with; the two
  timeouts are an option and the default, in either order. `MaxCopies` and `MaxFaults` are
  1 each, and either can come anywhere.
* *Shim.* Everything the two readings distinguish occurs in a line: an option before, in and
  after a subcommand and at two of these places, a value that looks like a subcommand or option, each form of token, a
  path that is Linux, Windows, no path, or refused by `wslpath`. The machines have every
  kind of file under the name of `wcm.exe`, on the `PATH`, in a home and in `WCM_WINDOWS_EXE`.
* The generation counter, lock inodes and Hello keys are bounded by the commands.
  Symmetry permutes commands, which are interchangeable, in the safety runs of the store
  and the slots; no liveness run uses it.

## 5. Fairness

* `SaveEnds`: weak fairness of each command's own save steps. The operating system keeps a
  process running that is not waiting for its user, and a process that waits for a lock
  gets it when it stays free; a lock is always freed because the holder ends, fails or is
  killed. None is needed among the waiters: each holds the lock once.
* `UnlockProgress`: weak fairness of `Work(c)`, the steps a command does on its own. The
  prompts (`Answer`, `CreateKey`, `Sign`) have none: the user may never answer.
* `NoSecretStays`: weak fairness of the clock and of the steps of each process. A command
  need not be started, and `Kill` may stop it: then the property asks that somebody could
  be told.
* `CallProgress`: weak fairness of `Work`, the shim's own steps and those of a native wcm
  that need nobody else. What a prompt, ssh-add or the command of `run` takes is not in it:
  `wcm run -- a-server` need never end.

## 6. Proofs

`VaultStoreProofs`, for any number of commands and outages:

| Theorem | Property | Assumes |
|---|---|---|
| `TypeCorrect`, `NeverTorn` | `TypeOK`, `VaultNeverTorn` | nothing |
| `Exclusion` | `MutualExclusion` | `"export" \notin Kinds` |
| `NoUpdateIsLost`, `LoadsSeeConfirmed`, `Refinement` | `NoLostUpdate`, `LoadsAreCurrent`, `ImplementsAtomicVault` | that, `DirSyncs` and `OldOrNew` |
| `BackupIsBehind` | `BackupIsAncestor`, which is about the time before the first outage | the same |
| `RevokedKeyStaysGone` | `RevokedKeyIsGone`, which is about vault and backup (the temporary file of a killed save stays) | that and `MaxOutages = 0` |

The assumptions are needed: an outage on a system without directory sync can undo a
confirmed rename or, without `OldOrNew`, lose both files of it, `StoreExportLock` shows what an export does, and an outage brings a
removed backup back (section 3). That confirmed changes are in the vault does not follow
from itself. A saver between its check and its rename must still hold the *current* file
plus its own change (`SaveInv`), which needs that nobody else can rename meanwhile, which
needs mutual exclusion, which needs that all have the same inode open (`LockInv`); the
check is only worth something if a generation number names its contents for everyone who
loaded it (`LoadInv`); and an outage is harmless only if every file the disk may hold has
all settled changes (`DiskInv`). The refinement maps each step to one of `AtomicVault` or
a stutter, from the same invariant.

`KeySlotsProofs`, for any commands, labels, ids, kills and PIN resets:

| Theorem | Property | Assumes |
|---|---|---|
| `TypeCorrect`, `SlotsFitTheBody`, `HeadersStayValid`, `RevokedSlotsStayGone` | `TypeOK`, `SlotsOpenTheBody`, `HeadersAreValid`, `RevokedSlotsStayOut` | nothing |
| `RecoveryIsPossible` | `RecoverySlotRemains` | `"hello" \notin PassLabels` |
| `UserGetsIn` | `UserKeepsAccess` | that and `MaxCrashes = 0` |
| `HelloKeysStay` | `HelloKeysOutliveSlots` | `MaxActive = 1`, finitely many commands |

What a save writes is decided on the vault that was loaded; `LoadInv` says that it is a
good one, that it *is* the present vault while the generation has not moved, and that the
request was accepted on it, which is what makes a saved vault good (`VaultInv`). `MadeInv`
dates every slot by the command that made it, since a slot can only come back from a
command that has not saved. `UserGetsIn` and `HelloKeysStay` have invariants of their own:
which secrets are shown or still on their way, and which Hello key each saved slot and the
one running command depend on.

`UnlockProofs`, for any commands, options, files, secrets, changes and failures, from
`UnlockConstants` alone (what `KeySlots` proves of a vault file: a passphrase slot, slots
that wrap the body's key, different labels; a label may belong to a slot of either kind in
the next file): `TypeCorrect`,
`SilenceHolds`, `EnvPassphraseHolds`, `RecoveryHolds`, `OnePromptHolds`, `SealedSlotsHold`
and `RefusalHolds`. The invariant says of each command (`Sound`): once refused it is at its
end (`Dismissed`), since then no step can prompt; a verified signature is by the key the
slot will name (`SignedBy`); a silent command is never on the way to a prompt, or has met a label that changed its kind
(`Quiet`);
the queue of an unlock that may ask still holds a slot whose secret can be typed
(`Recovers`); the place in the loop over passphrase slots is the one
the queue holds (`Loop`); and the prompts so far fit the place (`FewPrompts`). For
`EnvPassphraseOpens` there is one more: while the file has not changed, no slot before the
present one takes the secret (`Finds`).

`ItemsProofs`, for any commands, names, documents and faults, from `ItemsConstants` alone
(what the command line and the JSON reader let through, and that the vault's first item
was added like the others):

| Theorem | Property |
|---|---|
| `TypeCorrect` | `TypeOK` |
| `ErrorsHarmless`, `ExportsSnapshots`, `ReportsTrue` | `ErrorsChangeNothing`, `ExportIsSnapshot`, `ReportIsTrue` |
| `SecretsKept`, `PrintsRequested` | `SecretsStaySecret`, `PrintedOnRequest` |
| `ItemsImplementTheMap` | `ImplementsItemMap` |

The invariant dates things by the history `log`: every generation is a clean list (sorted,
one item per valid name, secrets kept) whose items were made by commands that have written
by then; the export file holds a document or a past generation; and of each command
(`Sound`) it says what it has read, reported and printed at each step. A command that can
still save knows the generation it loaded (`Knows`), so a save that passes the generation
check is an edit of the *present* list; `Owns` says that a path that is being exported to
has one owner, without which an export could be filled by somebody else; a plaintext export that
has been overwritten finds an encrypted one in its place.

What the operators compute is in `ItemListProofs`, as facts on sets of positions:
`Sublist` keeps the order, `WithItems` is a permutation that sorts, an insertion into a
sorted list puts one item under its name and leaves the rest. `Merge` goes through a
document item by item; that every prefix of it gives the same contents as `ItemMap!Merged`
is proved by looking at the least prefix that would not (`LeastNumber`, `Climb`), since the
induction rules of the library cannot be instantiated.

`ClipboardProofs`, for any number of commands, copies and faults: `TypeCorrect`,
`OwnTextOnly` and `TimeIsKept`. A process that is about to clear saw its own text
(`ClearInv`), and what is on the clipboard is what was put there last, or nothing
(`LastInv`), so without a write in between it clears nothing else.

`ShimProofs`, for any command lines of any length, environments, machines, items,
mappings and env files, from `LaunchConstants` and `ShimConstants` alone (tokens are what a
shell can hand over, mappings what the two parsers return, `WCM_VAULT` is absent or a word):

| Theorem | Property |
|---|---|
| `TypeCorrect` | `TypeOK` |
| `CommandReachesWindows` | `ShimKeepsTheCommand` |
| `CommandsSeeWhatWasAsked` | `StartedSeeWhatWasAsked` |
| `ExitTellsTheAgent` | `SshExitIsTrue` |

The argument has two halves. The first is about command lines and no state: clap reading
what was typed, the shim translating it, and clap on Windows reading what was sent stay in
step token by token. After each token (`AlikeSteps`) both of clap's readers wait for the
same thing, have the same command, the same options with the same texts, paths made Windows
ones, and the value that is due is due for the shim as well. An option may be repeated at a deeper level, so the two readers also agree on what was given
at the present one (`here`). The three cases where the shim and clap part company are what `Documented` excludes (an attached short value, `--` before
something else than the command of `run`) or what makes clap refuse the line as typed (an
option in the place of a value). `--vault` in front is a state of the second reader to start
from. In the same way the shim's reader of `ssh` lines follows clap's (`SshReads`), and what
it sends for the key is read as a `get` or `ssh pubkey` of that name with the same vault,
slot and `--no-input`: for this the shim must have collected each of them once, which is
where a repeated one is left out (`TwoAhead`, `RepeatsStay`). A last-wins list of mappings goes through the same kind of induction.
All of these use `Climb` in `ScanningProofs`, on the set of prefixes for which the readers
agree.

The second half is the inductive invariant of the system. `Running` says which process runs
in each phase of the shim: the Linux `wcm` as it was called (`Looking`), or what it became,
with the translated line, the passphrases that cross and no `ssh` action in it (`Alone`), or a
`wcm.exe` that fetches a key for the shim (`Fetching`); without it a running `wcm.exe` would
not be tied to what was typed. `Serving` follows a `run`: its mappings and values, as
far as it has come, are those of the typed line, nothing is started before the last step and
nothing after. `Told` says of the agents that they are as before until the call is over and
what the code says then, with the codes (`LateCodes`) that a late failure may have. `RunsOn` and `ServesOn` are the first two as theorems.

`SshExitIsTrue` and `ShimKeepsTheCommand` are about documented spellings, as `ShimSshAgent`
shows they have to be, and about the passphrases only where the user has not put the
shim's own marker into `WSLENV`: the code then takes the list for complete.

Model-checked only:

* Liveness (`SaveEnds`, `UnlockProgress`, `NoSecretStays`, `CallProgress`): fairness is out of
  the prover's reach.

All other properties of the passing runs are proved. What the three violated ones say is
not true of the code; each theorem that comes near them names the condition it needs.

## 7. What is abstracted or left out

* Cryptography: a ciphertext opens exactly under its key, fresh keys differ, a header
  change is always noticed, SHA-256 tells texts apart. A secret is who made it.
* The composition goes by assumption: `KeySlots` takes a save as atomic (`VaultStore`),
  `Unlock` takes a vault file to be what `KeySlots` promises, `Items`, `Launch` and `Shim`
  take an unlock or a save as one step that may fail.
* Items: notes, tags, timestamps and the wording of output. A generated password
  is a value. An `export` and an `import` share one path.
* A vault is never deleted by wcm, so neither do the models. The user editing files by
  hand and copies synchronised between machines are out of scope.
* Advisory locks follow the inode (Unix `flock`). On Windows a file that is open cannot
  be unlinked in the same way, so `StoreExportLock` speaks of Unix.
* Windows Hello: attestation (optional, and no part of what is decided), memory handling
  of the DPAPI calls, the focus of the dialog. A transient failure may or may not have had
  its effect; what Windows does beyond the status codes is not modelled.
* Names of variables are compared as they are written, as the code does; that Windows takes
  no notice of case is not in `Launch` (section 3).
* Shim: subcommand aliases and the optional value of `--generate`, `wslpath` beyond
  success and refusal, quoting by the kernel. `run`'s signals are an exit status. The
  parsing of OpenSSH keys and of env files is taken as given.
* Argon2 parameters, `doctor`, `status`, completions and the
  printing of tables and JSON: read-only or pure formatting, with no state of their own.

## 8. Plan

Done: every module of section 2, with all safety properties and both refinements proved.
What would come next:

1. Several slots of one vault file in `Unlock` with `KeySlots` underneath instead of by
   assumption, as a refinement of the vault file `Unlock` reads.
2. `wcm doctor`, if it ever repairs what it reports.
