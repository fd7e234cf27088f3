------------------------------ MODULE KeySlots ------------------------------
(***************************************************************************)
(* The key slots of a vault and the secrets that open them: `wcm init`,    *)
(* `slot add`, `slot rm`, `recover` and `rekey` (wcm-cli/src/commands), the *)
(* unlock they start with (wcm-core/src/vault/mod.rs, slot/mod.rs) and the *)
(* Windows Hello credential a vault owns (wcm-hello/src/backend.rs), under *)
(* concurrent commands, crashes, refused prompts and PIN resets.           *)
(*                                                                         *)
(* The vault file is what VaultStore makes of it: a register that a save   *)
(* replaces in one step if it still has the generation that was loaded     *)
(* (the backup, which three of these commands remove, is modelled there).  *)
(* Items and the body are left out; what a slot unwraps is the identity of *)
(* a data encryption key.  The slots of a header are a set: their order,   *)
(* which decides what an unlock tries first, is in Unlock.                 *)
(***************************************************************************)
EXTENDS Naturals, FiniteSets

CONSTANTS
  Cmds,         \* the wcm processes
  NoCmd,        \* no process
  PassLabels,   \* labels `slot add --passphrase` is given
  HelloLabels,  \* labels `slot add --hello` is given
  Ops,          \* the operations the commands run
  MaxId,        \* u8::MAX, the highest slot id
  MaxActive,    \* bound on the commands that run at the same time
  MaxCrashes,   \* bound on the commands that are killed
  MaxResets     \* bound on the PIN resets

ASSUME SlotConstants ==
  /\ NoCmd \notin Cmds
  /\ Ops \subseteq {"init", "add", "rm", "recover", "rekey"}
  /\ MaxId \in Nat \ 0..2
  /\ MaxActive \in Nat /\ MaxCrashes \in Nat /\ MaxResets \in Nat

VARIABLES
  pc,        \* pc[c]: the step command c is about to take
  task,      \* task[c]: what command c was asked to do
  loaded,    \* loaded[c]: the vault c unlocked
  newsec,    \* newsec[c]: the passphrase c seals new passphrase slots with
  enrolled,  \* enrolled[c][i]: the Hello key c seals the slot with id i with, 0 if none yet
  vault,     \* the vault file
  cred,      \* cred[v]: the Hello key under the credential name of vault v, 0 if none
  keys,      \* the number of Hello keys created so far
  lost,      \* the Hello keys a PIN reset has destroyed
  shown,     \* the recovery keys that were displayed to the user
  revoked,   \* history: the slots that a saved command removed or re-sealed
  crashes, resets

vars == <<pc, task, loaded, newsec, enrolled, vault, cred, keys, lost, shown,
          revoked, crashes, resets>>

-----------------------------------------------------------------------------
(* Slots and secrets *)

(* A secret is generated (a recovery key) or chosen (a passphrase) in the   *)
(* command `by`.                                                            *)
Secret == [by : Cmds \cup {NoCmd}, made : {"generated", "chosen"}]
NoSecret == [by |-> NoCmd, made |-> "chosen"]
RecoveryKey(c) == [by |-> c, made |-> "generated"]
Passphrase(c)  == [by |-> c, made |-> "chosen"]

(* The default labels (`none` where a command takes no label) and others.   *)
SlotLabels == {"none", "hello", "recovery", "passphrase"} \cup PassLabels \cup HelloLabels

(* A slot sealed by command `by` wraps the key drawn by command `dek`, under *)
(* a passphrase or under the signature of one particular Hello key.         *)
Slot == [id : 1..MaxId, label : SlotLabels, kind : {"hello", "passphrase"}, by : Cmds,
         key : Nat, sec : Secret, dek : Cmds]

PassSlot(c, id, label, sec, dek) ==
  [id |-> id, label |-> label, kind |-> "passphrase", by |-> c,
   key |-> 0, sec |-> sec, dek |-> dek]
HelloSlot(c, id, label, key, dek) ==
  [id |-> id, label |-> label, kind |-> "hello", by |-> c,
   key |-> key, sec |-> NoSecret, dek |-> dek]

Labels(s) == {x.label : x \in s}
Ids(s)    == {x.id : x \in s}
HelloSlots(s) == {x \in s : x.kind = "hello"}
PassSlots(s)  == {x \in s : x.kind = "passphrase"}

(* The vault: its id (the init that created it names it), its generation, 0 *)
(* while there is no file, the key of its body and its slots.               *)
NoVault == [vid |-> NoCmd, gen |-> 0, dek |-> NoCmd, slots |-> {}]

(* No Hello key enrolled. *)
NoKeys == [i \in 1..MaxId |-> 0]

Exists == vault.gen > 0

(* The user has written down every recovery key that was displayed. *)
Known(sec) == sec.made = "chosen" \/ sec \in shown

(* What opening a slot comes to (open_slot and the backends' `open`): a     *)
(* Hello slot without credential is unavailable, one whose credential is    *)
(* another key fails the signature check.                                   *)
Opening(slot, vid) ==
  IF slot.kind = "passphrase" THEN IF Known(slot.sec) THEN "opens" ELSE "wrong"
  ELSE IF cred[vid] = 0 THEN "unavailable"
  ELSE IF cred[vid] = slot.key THEN "opens" ELSE "wrong"

(* Mutant of FreeId: one more than the number of slots. *)
FreeIdByCount(slots) == Cardinality(slots) + 1

FreeIds(slots) == (1..MaxId) \ Ids(slots)

(* next_slot_id / first_free_id: the lowest unused one; MaxId + 1, which no *)
(* u8 holds, stands for `no free slot id`, an error.                        *)
FreeId(slots) ==
  LET unused == (1..(MaxId + 1)) \ Ids(slots)
  IN  CHOOSE n \in unused : \A m \in unused : n <= m

(* Header::validate, applied when a header is encoded. *)
Valid(slots) ==
  /\ slots # {}
  /\ \A x, y \in slots : x # y => x.id # y.id /\ x.label # y.label

(* check_removable. *)
Removable(slots, label) ==
  /\ label \in Labels(slots)
  /\ \E x \in PassSlots(slots) : x.label # label

(* recover::partition_slots: every Hello slot goes, and any slot that has   *)
(* the new slot's label.                                                    *)
Kept(c, x) ==
  /\ task[c].op \in {"rm", "recover"} => x.label # task[c].label
  /\ task[c].op = "recover" => x.kind # "hello"

KeptSlots(c, slots) == {x \in slots : Kept(c, x)}

(* Mutant of HasRoom: the search for an id does not stop at u8::MAX. *)
HasRoomAlways(c, slots) == TRUE

(* A slot that is added needs an id. *)
HasRoom(c, slots) ==
  task[c].op \in {"add", "recover"} => FreeIds(KeptSlots(c, slots)) # {}

(* Mutant of Accepts: the header that was unlocked is not checked again. *)
AcceptsUnseen(c, slots) == HasRoom(c, slots)

(* `slot add` refuses a label that is taken, `slot rm` a slot that must     *)
(* stay.                                                                    *)
Accepts(c, slots) ==
  /\ task[c].op = "add" => task[c].label \notin Labels(slots)
  /\ task[c].op = "rm" => Removable(slots, task[c].label)
  /\ HasRoom(c, slots)

-----------------------------------------------------------------------------
Init ==
  /\ pc = [c \in Cmds |-> "new"]
  /\ task = [c \in Cmds |-> [op |-> "none", kind |-> "none", label |-> "none"]]
  /\ loaded = [c \in Cmds |-> NoVault]
  /\ newsec = [c \in Cmds |-> NoSecret]
  /\ enrolled = [c \in Cmds |-> NoKeys]
  /\ vault = NoVault
  /\ cred = [c \in Cmds |-> 0] /\ keys = 0 /\ lost = {}
  /\ shown = {} /\ revoked = {}
  /\ crashes = 0 /\ resets = 0

Goto(c, step) == pc' = [pc EXCEPT ![c] = step]

Active(c) == pc[c] \notin {"new", "done", "crashed"}

(* The vault id c works on: `init` draws a new one. *)
Vid(c) == IF task[c].op = "init" THEN c ELSE loaded[c].vid

(* What the command may be asked to do.  For `init`, `kind` says whether it *)
(* makes a Hello slot and `label` whether it makes a passphrase slot; for   *)
(* `recover`, they are the slot it makes.                                   *)
Tasks ==
  {t \in [op : {"init"}, kind : {"hello", "none"}, label : {"passphrase", "none"}]
     \cup [op : {"add"}, kind : {"passphrase"}, label : PassLabels]
     \cup [op : {"add"}, kind : {"hello"}, label : HelloLabels]
     \cup [op : {"rm"}, kind : {"none"}, label : Labels(vault.slots)]
     \cup {[op |-> "recover", kind |-> "hello", label |-> "hello"],
           [op |-> "recover", kind |-> "passphrase", label |-> "passphrase"],
           [op |-> "rekey", kind |-> "none", label |-> "none"]}
   : t.op \in Ops}

(* The ids of the Hello slots the command seals. *)
ToSeal(c, slots) ==
  IF task[c].op = "rekey" THEN Ids(HelloSlots(slots))
  ELSE IF task[c].kind # "hello" THEN {}
  ELSE IF task[c].op = "init" THEN {1}
  ELSE {FreeId(KeptSlots(c, slots))}

(* The checks before the prompt; a command that fails here has no effect    *)
(* and is not followed.                                                     *)
Start(c) ==
  /\ pc[c] = "new"
  /\ Cardinality({d \in Cmds : Active(d)}) < MaxActive
  /\ \E t \in Tasks :
       /\ task' = [task EXCEPT ![c] = t]
       /\ (t.op = "init") = ~Exists
       /\ t.op = "add" => t.label \notin Labels(vault.slots)
       /\ t.op = "rm" => Removable(vault.slots, t.label)
       /\ Goto(c, IF t.op # "init" THEN "unlock"
                  ELSE IF t.kind = "hello" THEN "enroll" ELSE "save")
  /\ newsec' = [newsec EXCEPT ![c] = Passphrase(c)]
  /\ UNCHANGED <<loaded, enrolled, vault, cred, keys, lost, shown, revoked, crashes, resets>>

(* The user opens a slot of their choice (`--slot`), which gives the        *)
(* command the key the slot wraps.  With WCM_PASSPHRASE set and no          *)
(* WCM_NEW_PASSPHRASE, new passphrase slots get the secret that opened the  *)
(* vault; otherwise a passphrase is chosen.                                 *)
Unlock(c) ==
  /\ pc[c] = "unlock"
  /\ \E x \in vault.slots :
       /\ Opening(x, vault.vid) = "opens"
       /\ loaded' = [loaded EXCEPT ![c] = [vault EXCEPT !.dek = x.dek]]
       /\ newsec' \in {newsec, [newsec EXCEPT ![c] = IF x.kind = "passphrase" THEN x.sec ELSE @]}
  /\ Goto(c, "open")
  /\ UNCHANGED <<task, enrolled, vault, cred, keys, lost, shown, revoked, crashes, resets>>

(* open_with_dek reads the file again, which opens under that key or not;   *)
(* then the command checks the header it has now loaded.                    *)
Open(c) ==
  /\ pc[c] = "open"
  /\ loaded' = [loaded EXCEPT ![c] = vault]
  /\ Goto(c, IF loaded[c].dek # vault.dek \/ ~Accepts(c, vault.slots) THEN "done"
             ELSE IF ToSeal(c, vault.slots) # {} THEN "enroll" ELSE "save")
  /\ UNCHANGED <<task, newsec, enrolled, vault, cred, keys, lost, shown, revoked, crashes, resets>>

(* HelloBackend::enroll opens the credential of this vault or creates it,   *)
(* which is a prompt of its own ...                                         *)
OpenKey(c) ==
  /\ pc[c] = "enroll"
  /\ IF cred[Vid(c)] # 0
     THEN UNCHANGED <<cred, keys>>
     ELSE /\ keys' = keys + 1
          /\ cred' = [cred EXCEPT ![Vid(c)] = keys + 1]
  /\ Goto(c, "sign")
  /\ UNCHANGED <<task, loaded, newsec, enrolled, vault, lost, shown, revoked, crashes, resets>>

(* The key whose public half and signature go into the slot. *)
KeyUsed(c) == cred[Vid(c)]

(* ... then has it sign a fresh challenge; rekey does both for each Hello   *)
(* slot, in their order, which makes no difference here.  A credential that *)
(* was deleted in between is an error (GiveUp).                             *)
SignKey(c) ==
  /\ pc[c] = "sign" /\ cred[Vid(c)] # 0
  /\ LET open == {i \in ToSeal(c, loaded[c].slots) : enrolled[c][i] = 0}
     IN  \E i \in open :
           /\ enrolled' = [enrolled EXCEPT ![c][i] = KeyUsed(c)]
           /\ Goto(c, IF open = {i} THEN "save" ELSE "enroll")
  /\ UNCHANGED <<task, loaded, newsec, vault, cred, keys, lost, shown, revoked, crashes, resets>>

(* A prompt is refused or a step fails before anything is written. *)
GiveUp(c) ==
  /\ pc[c] \in {"unlock", "open", "enroll", "sign", "save"}
  /\ Goto(c, "done")
  /\ UNCHANGED <<task, loaded, newsec, enrolled, vault, cred, keys, lost, shown,
                 revoked, crashes, resets>>

-----------------------------------------------------------------------------
(* What a command makes of the slots it loaded *)

InitSlots(c) ==
  LET first == IF task[c].kind = "hello" THEN 2 ELSE 1
  IN  {PassSlot(c, first, "recovery", RecoveryKey(c), c)}
        \cup {HelloSlot(c, i, "hello", enrolled[c][i], c) : i \in ToSeal(c, {})}
        \cup (IF task[c].label = "passphrase"
              THEN {PassSlot(c, first + 1, "passphrase", newsec[c], c)} ELSE {})

(* The slot that `slot add` and `recover` append to the slots they keep. *)
NewSlot(c, kept) ==
  LET id == FreeId(kept)
  IN  IF task[c].kind = "hello"
      THEN HelloSlot(c, id, task[c].label, enrolled[c][id], loaded[c].dek)
      ELSE PassSlot(c, id, task[c].label, newsec[c], loaded[c].dek)

(* Mutant of Resealed: a Hello slot is carried over. *)
ResealedButHello(c, x) ==
  IF x.kind = "hello" THEN x
  ELSE PassSlot(c, x.id, x.label, IF x.label = "recovery" THEN RecoveryKey(c) ELSE newsec[c], c)

(* rekey: every slot is sealed again around the new key, under its id and   *)
(* label; the slot labelled `recovery` gets a new recovery key.             *)
Resealed(c, x) ==
  IF x.kind = "hello" THEN HelloSlot(c, x.id, x.label, enrolled[c][x.id], c)
  ELSE PassSlot(c, x.id, x.label, IF x.label = "recovery" THEN RecoveryKey(c) ELSE newsec[c], c)

NextSlots(c) ==
  LET kept == KeptSlots(c, loaded[c].slots)
  IN  IF task[c].op = "init" THEN InitSlots(c)
      ELSE IF task[c].op = "rekey" THEN {Resealed(c, x) : x \in kept}
      ELSE IF task[c].op = "rm" THEN kept
      ELSE kept \cup {NewSlot(c, kept)}

NextVault(c) ==
  [vid |-> Vid(c), gen |-> loaded[c].gen + 1,
   dek |-> IF task[c].op \in {"init", "rekey"} THEN c ELSE loaded[c].dek,
   slots |-> NextSlots(c)]

(* Mutant of Writable: the last writer wins. *)
WritableAnyGeneration(c) == Valid(NextSlots(c))

(* UnlockedVault::write: refused when the file has changed since it was     *)
(* loaded (for `init`: when it exists), or when the header is not valid.    *)
Writable(c) == vault.gen = loaded[c].gen /\ Valid(NextSlots(c))

Save(c) ==
  /\ pc[c] = "save"
  /\ \/ /\ Writable(c)
        /\ vault' = NextVault(c)
        /\ revoked' = revoked \cup (loaded[c].slots \ NextSlots(c))
        /\ Goto(c, "saved")
     \/ ~Writable(c) /\ Goto(c, "done") /\ UNCHANGED <<vault, revoked>>
  /\ UNCHANGED <<task, loaded, newsec, enrolled, cred, keys, lost, shown, crashes, resets>>

(* Mutant of CredentialShared: a removed slot takes its credential along. *)
CredentialNotShared(c) == FALSE

(* credential_shared: all Hello slots of a vault use the credential that is *)
(* named after the vault id, and c knows the slots it saved itself.         *)
CredentialShared(c) == HelloSlots(NextSlots(c)) # {}

(* After the save, `slot rm` and `recover` destroy the credential of the    *)
(* Hello slots they removed, unless a slot they kept shares it; `init` and  *)
(* `rekey` go on to display the recovery key they made.  A deletion that    *)
(* fails is a notice and otherwise ignored.                                 *)
Destroy(c) ==
  /\ pc[c] = "saved"
  /\ IF /\ task[c].op \in {"rm", "recover"}
        /\ \E x \in HelloSlots(loaded[c].slots) : ~Kept(c, x)
        /\ ~CredentialShared(c)
     THEN cred' \in {cred, [cred EXCEPT ![Vid(c)] = 0]}
     ELSE UNCHANGED cred
  /\ Goto(c, IF task[c].op \in {"init", "rekey"} THEN "show" ELSE "done")
  /\ UNCHANGED <<task, loaded, newsec, enrolled, vault, keys, lost, shown, revoked,
                 crashes, resets>>

(* Mutant of MadeKeys: only `init` displays its recovery key. *)
MadeKeysByInit(c) == IF task[c].op = "init" THEN {RecoveryKey(c)} ELSE {}

(* The recovery keys of the saved slots that c has made. *)
MadeKeys(c) == {RecoveryKey(c)} \cap {x.sec : x \in NextSlots(c)}

Show(c) ==
  /\ pc[c] = "show"
  /\ shown' = shown \cup MadeKeys(c)
  /\ Goto(c, "done")
  /\ UNCHANGED <<task, loaded, newsec, enrolled, vault, cred, keys, lost, revoked,
                 crashes, resets>>

-----------------------------------------------------------------------------
(* The command is killed, or its output cannot be written. *)
Crash(c) ==
  /\ Active(c) /\ crashes < MaxCrashes
  /\ crashes' = crashes + 1
  /\ Goto(c, "crashed")
  /\ UNCHANGED <<task, loaded, newsec, enrolled, vault, cred, keys, lost, shown,
                 revoked, resets>>

(* The user removes the PIN or the TPM is cleared: all Hello keys are gone. *)
PinReset ==
  /\ resets < MaxResets
  /\ resets' = resets + 1
  /\ lost' = lost \cup ({cred[v] : v \in Cmds} \ {0})
  /\ cred' = [v \in Cmds |-> 0]
  /\ UNCHANGED <<pc, task, loaded, newsec, enrolled, vault, keys, shown, revoked, crashes>>

Done == (\A c \in Cmds : ~Active(c)) /\ UNCHANGED vars

Next ==
  \/ \E c \in Cmds : \/ Start(c) \/ Unlock(c) \/ Open(c) \/ OpenKey(c) \/ SignKey(c)
                     \/ GiveUp(c) \/ Save(c) \/ Destroy(c) \/ Show(c) \/ Crash(c)
  \/ PinReset
  \/ Done

Spec == Init /\ [][Next]_vars

-----------------------------------------------------------------------------
(* Properties *)

Vault == [vid : Cmds \cup {NoCmd}, gen : Nat, dek : Cmds \cup {NoCmd}, slots : SUBSET Slot]

TypeOK ==
  /\ pc \in [Cmds -> {"new", "unlock", "open", "enroll", "sign", "save", "saved",
                   "show", "done", "crashed"}]
  /\ vault \in Vault /\ loaded \in [Cmds -> Vault]
  /\ newsec \in [Cmds -> Secret]
  /\ enrolled \in [Cmds -> [1..MaxId -> 0..keys]]
  /\ keys \in Nat /\ cred \in [Cmds -> 0..keys] /\ lost \subseteq 1..keys
  /\ shown \subseteq Secret /\ revoked \subseteq Slot

(* Whichever slot opens, it unwraps the key the body is encrypted with:     *)
(* rekey seals every slot again, and no concurrent `slot add` puts a slot   *)
(* of the old key beside them.                                              *)
SlotsOpenTheBody == \A x \in vault.slots : x.dek = vault.dek

(* A command never builds a header that `Header::validate` refuses, so that *)
(* nobody is told their vault is corrupt because two commands raced: labels *)
(* are checked against the header that was unlocked, not the one that was   *)
(* read before the prompt.                                                  *)
HeadersAreValid == \A c \in Cmds : pc[c] = "save" => Valid(NextSlots(c))

(* The vault always has a slot that does not depend on Windows Hello (a     *)
(* vault with only Hello slots "cannot be recovered"), also when several    *)
(* commands remove slots at the same time.                                  *)
RecoverySlotRemains == Exists => PassSlots(vault.slots) # {}

(* A slot that a saved command has removed or re-sealed never comes back:   *)
(* no command that loaded the vault before writes it again.                 *)
RevokedSlotsStayOut == revoked \cap vault.slots = {}

(* wcm never destroys or replaces a Hello key that a saved slot still       *)
(* needs; only a PIN reset does ("a credential one of them still uses is    *)
(* left alone", destroy_slot_state).                                        *)
HelloKeysOutliveSlots ==
  \A x \in HelloSlots(vault.slots) : cred[vault.vid] = x.key \/ x.key \in lost

(* The user can always get into a vault that has been in use without Hello: *)
(* once no command is about to display a key, some passphrase slot has a    *)
(* secret the user was given.  (An interrupted `init` leaves an empty vault *)
(* that nobody can open, which loses nothing.)                              *)
UserKeepsAccess ==
  vault.gen > 1 /\ (\A c \in Cmds : pc[c] \notin {"saved", "show"})
    => \E x \in PassSlots(vault.slots) : Known(x.sec)
=============================================================================
