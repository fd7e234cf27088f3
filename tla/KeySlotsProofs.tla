--------------------------- MODULE KeySlotsProofs ----------------------------
(***************************************************************************)
(* Proofs about KeySlots, for any number of commands, labels, kills and    *)
(* PIN resets: what racing slot commands may make of the slots of a vault. *)
(***************************************************************************)
EXTENDS KeySlots, TLAPS, WellFoundedInduction, FiniteSetTheorems

(* A nonempty set of numbers has a least one. *)
LEMMA LeastNumber ==
  ASSUME NEW T \in SUBSET Nat, T # {}
  PROVE  \E n \in T : \A m \in T : n <= m
<1>1. PICK n \in T : \A m \in T : <<m, n>> \notin OpToRel(<, Nat)
  BY WFMin, NatLessThanWellFounded, Zenon
<1>2. \A m \in T : ~(m < n)
  BY <1>1 DEF OpToRel
<1> QED
  BY <1>2

(* next_slot_id returns an id that no slot has. *)
LEMMA FreeIdIsFree ==
  ASSUME NEW slots \in SUBSET Slot, FreeIds(slots) # {}
  PROVE  FreeId(slots) \in 1..MaxId /\ FreeId(slots) \notin Ids(slots)
<1> DEFINE unused == (1..(MaxId + 1)) \ Ids(slots)
<1>1. unused \in SUBSET Nat /\ unused # {}
  <2>1. FreeIds(slots) \subseteq unused
    BY SlotConstants DEF FreeIds
  <2> QED
    BY <2>1, SlotConstants
<1>2. \E n \in unused : \A m \in unused : n <= m
  <2> HIDE DEF unused
  <2> QED
    BY <1>1, LeastNumber
<1>3. FreeId(slots) \in unused /\ \A m \in unused : FreeId(slots) <= m
  BY <1>2 DEF FreeId
<1>4. PICK m \in FreeIds(slots) : TRUE
  OBVIOUS
<1>5. FreeId(slots) <= m /\ m \in 1..MaxId
  <2>1. m \in 1..MaxId /\ m \in unused
    BY <1>4, SlotConstants DEF FreeIds
  <2> HIDE DEF unused
  <2> QED
    BY <1>3, <2>1
<1>6. FreeId(slots) \in 1..(MaxId + 1) /\ FreeId(slots) \notin Ids(slots)
  BY <1>3
<1>7. \A n \in 1..(MaxId + 1) : n <= m => n \in 1..MaxId
  BY <1>5, SlotConstants
<1> QED
  BY <1>5, <1>6, <1>7

-----------------------------------------------------------------------------
(* The inductive invariant *)

Task == [op : {"none", "init", "add", "rm", "recover", "rekey"},
         kind : {"none", "hello", "passphrase"}, label : SlotLabels]

TypeInv == TypeOK /\ task \in [Cmds -> Task]

(* What a saved vault is: its slots wrap the key of its body, and one is a  *)
(* passphrase slot that `recover` would keep.                               *)
Good(v) ==
  /\ v.gen > 0 /\ v.vid \in Cmds /\ v.dek \in Cmds
  /\ Valid(v.slots)
  /\ \A x \in v.slots : x.dek = v.dek
  /\ "hello" \notin PassLabels =>
       /\ PassSlots(v.slots) # {}
       /\ \A x \in PassSlots(v.slots) : x.label # "hello"

VaultInv == vault = NoVault \/ Good(vault)

(* A command that has unlocked a vault has a good one, the present one if   *)
(* the generation has not changed, and its request fits the header it has.  *)
CmdInv(c) ==
  /\ pc[c] # "new" => task[c].op # "none"
  /\ loaded[c].gen <= vault.gen
  /\ pc[c] \in {"new", "unlock"} \/ task[c].op = "init" => loaded[c] = NoVault
  /\ pc[c] \in {"unlock", "open"} => task[c].op # "init" /\ vault.gen > 0
  /\ pc[c] \in {"open", "enroll", "sign", "save"} /\ task[c].op # "init" =>
       /\ Good(loaded[c])
       /\ loaded[c].gen = vault.gen => loaded[c] = vault
  /\ pc[c] \in {"enroll", "sign", "save"} /\ task[c].op # "init" => Accepts(c, loaded[c].slots)
  /\ task[c].op = "init" => task[c].kind # "passphrase"
  /\ task[c].op = "recover" => task[c].label = task[c].kind /\ task[c].kind # "none"
  /\ task[c].op = "add" /\ task[c].kind # "hello" => task[c].label \in PassLabels
  /\ task[c].op = "rm" => task[c].kind # "hello"

LoadInv == \A c \in Cmds : CmdInv(c)

(* A slot that is or was in the vault was made by a command that has saved. *)
MadeInv ==
  /\ \A x \in vault.slots \cup revoked : pc[x.by] \in {"saved", "show", "done", "crashed"}
  /\ revoked \cap vault.slots = {}

IInv == TypeInv /\ VaultInv /\ LoadInv /\ MadeInv

LEMMA InitInv == Init => IInv
<1> SUFFICES ASSUME Init PROVE IInv
  OBVIOUS
<1> USE DEF Init
<1>1. NoVault \in Vault /\ NoSecret \in Secret /\ NoKeys \in [1..MaxId -> 0..0]
  BY DEF NoVault, Vault, NoSecret, Secret, NoKeys
<1>2. TypeOK
  BY <1>1 DEF TypeOK
<1>3. task \in [Cmds -> Task]
  BY DEF Task, SlotLabels
<1>4. VaultInv /\ LoadInv /\ MadeInv
  BY DEF VaultInv, LoadInv, CmdInv, MadeInv, NoVault
<1> QED
  BY <1>2, <1>3, <1>4 DEF IInv, TypeInv

-----------------------------------------------------------------------------
(* What a command makes of the slots it loaded *)

LEMMA RekeySlots ==
  ASSUME IInv, NEW c \in Cmds, pc[c] = "save", task[c].op = "rekey"
  PROVE  /\ NextSlots(c) \in SUBSET Slot /\ Valid(NextSlots(c))
         /\ \A x \in NextSlots(c) : x.dek = c /\ x.by = c
         /\ "hello" \notin PassLabels =>
              /\ PassSlots(NextSlots(c)) # {}
              /\ \A x \in PassSlots(NextSlots(c)) : x.label # "hello"
<1> DEFINE S == loaded[c].slots
<1>1. S \in SUBSET Slot /\ Good(loaded[c])
  BY DEF IInv, TypeInv, TypeOK, LoadInv, CmdInv, Vault
<1>2. NextSlots(c) = {Resealed(c, x) : x \in S}
  BY DEF NextSlots, KeptSlots, Kept
<1>3. ASSUME NEW x \in S
      PROVE  /\ Resealed(c, x) \in Slot
             /\ Resealed(c, x).id = x.id /\ Resealed(c, x).label = x.label
             /\ Resealed(c, x).kind = x.kind
             /\ Resealed(c, x).dek = c /\ Resealed(c, x).by = c
  <2>1. x \in Slot /\ newsec[c] \in Secret /\ RecoveryKey(c) \in Secret /\ NoSecret \in Secret
    BY <1>1 DEF IInv, TypeInv, TypeOK, Secret, RecoveryKey, NoSecret
  <2>2. enrolled[c] \in [1..MaxId -> 0..keys] /\ keys \in Nat
    BY DEF IInv, TypeInv, TypeOK
  <2>3. x.id \in 1..MaxId /\ x.label \in SlotLabels
    BY <2>1 DEF Slot
  <2>4. enrolled[c][x.id] \in Nat
    BY <2>2, <2>3, SlotConstants
  <2> QED
    BY <2>1, <2>3, <2>4 DEF Resealed, PassSlot, HelloSlot, Slot
<1> QED
  BY <1>1, <1>2, <1>3 DEF Good, Valid, PassSlots

LEMMA EnrolledType ==
  ASSUME TypeInv, NEW c \in Cmds, NEW i \in 1..MaxId
  PROVE  enrolled[c][i] \in Nat /\ enrolled[c][i] \in 0..keys
<1>1. enrolled[c] \in [1..MaxId -> 0..keys] /\ keys \in Nat
  BY DEF TypeInv, TypeOK
<1> QED
  BY <1>1, SlotConstants

LEMMA SlotTypes ==
  ASSUME NEW c \in Cmds, NEW id \in 1..MaxId, NEW label \in SlotLabels, NEW dek \in Cmds
  PROVE  /\ \A key \in Nat : HelloSlot(c, id, label, key, dek) \in Slot
         /\ \A sec \in Secret : PassSlot(c, id, label, sec, dek) \in Slot
BY DEF HelloSlot, PassSlot, Slot, Secret, NoSecret

LEMMA InitialSlots ==
  ASSUME IInv, NEW c \in Cmds, pc[c] = "save", task[c].op = "init"
  PROVE  /\ NextSlots(c) \in SUBSET Slot /\ Valid(NextSlots(c))
         /\ \A x \in NextSlots(c) : x.dek = c /\ x.by = c
         /\ PassSlots(NextSlots(c)) # {}
         /\ \A x \in PassSlots(NextSlots(c)) : x.label # "hello"
<1> DEFINE first == IF task[c].kind = "hello" THEN 2 ELSE 1
           rec == PassSlot(c, first, "recovery", RecoveryKey(c), c)
           pass == PassSlot(c, first + 1, "passphrase", newsec[c], c)
           hello == HelloSlot(c, 1, "hello", enrolled[c][1], c)
<1>1. /\ NextSlots(c) \subseteq {rec, hello, pass} /\ rec \in NextSlots(c)
      /\ hello \in NextSlots(c) => task[c].kind = "hello"
  <2>1. NextSlots(c) = InitSlots(c)
    BY DEF NextSlots
  <2>2. hello # rec /\ hello # pass
    BY DEF HelloSlot, PassSlot
  <2> QED
    BY <2>1, <2>2 DEF InitSlots, ToSeal
<1>2. 1 \in 1..MaxId /\ first \in 1..MaxId /\ first + 1 \in 1..MaxId
  BY SlotConstants
<1>3. {"hello", "recovery", "passphrase"} \subseteq SlotLabels
  BY DEF SlotLabels
<1>4. newsec[c] \in Secret /\ RecoveryKey(c) \in Secret /\ enrolled[c][1] \in Nat
  BY <1>2, EnrolledType DEF IInv, TypeInv, TypeOK, Secret, RecoveryKey
<1>5. rec \in Slot /\ pass \in Slot /\ hello \in Slot
  BY <1>2, <1>3, <1>4, SlotTypes
<1>6. /\ rec.id = first /\ rec.label = "recovery" /\ rec.kind = "passphrase"
      /\ pass.id = first + 1 /\ pass.label = "passphrase" /\ pass.kind = "passphrase"
      /\ hello.id = 1 /\ hello.label = "hello" /\ hello.kind = "hello"
      /\ rec.by = c /\ pass.by = c /\ hello.by = c /\ rec.dek = c /\ pass.dek = c /\ hello.dek = c
  BY DEF PassSlot, HelloSlot
<1>7. task[c].kind = "hello" => first = 2
  OBVIOUS
<1>8. first \in {1, 2}
  OBVIOUS
<1> HIDE DEF rec, pass, hello, first
<1>9. Valid(NextSlots(c))
  BY <1>1, <1>6, <1>7, <1>8 DEF Valid
<1> QED
  BY <1>1, <1>5, <1>6, <1>9 DEF PassSlots

LEMMA RemainingSlots ==
  ASSUME IInv, NEW c \in Cmds, pc[c] = "save", task[c].op = "rm"
  PROVE  /\ NextSlots(c) \in SUBSET loaded[c].slots /\ Valid(NextSlots(c))
         /\ "hello" \notin PassLabels => PassSlots(NextSlots(c)) # {}
<1>1. Good(loaded[c]) /\ Removable(loaded[c].slots, task[c].label)
  BY DEF IInv, LoadInv, CmdInv, Accepts
<1>2. NextSlots(c) = {x \in loaded[c].slots : x.label # task[c].label}
  BY DEF NextSlots, KeptSlots, Kept
<1> QED
  BY <1>1, <1>2 DEF Good, Valid, Removable, PassSlots

LEMMA AddedSlots ==
  ASSUME IInv, NEW c \in Cmds, pc[c] = "save", task[c].op \in {"add", "recover"}
  PROVE  /\ \E y \in Slot : /\ NextSlots(c) = KeptSlots(c, loaded[c].slots) \cup {y}
                            /\ y.by = c /\ y.dek = loaded[c].dek
         /\ Valid(NextSlots(c))
         /\ "hello" \notin PassLabels =>
              /\ PassSlots(NextSlots(c)) # {}
              /\ \A x \in PassSlots(NextSlots(c)) : x.label # "hello"
<1> DEFINE kept == KeptSlots(c, loaded[c].slots)
           id == FreeId(kept)
           y == NewSlot(c, kept)
<1>1. /\ loaded[c].slots \in SUBSET Slot /\ Good(loaded[c])
      /\ Accepts(c, loaded[c].slots) /\ loaded[c].dek \in Cmds
      /\ task[c] \in Task /\ newsec[c] \in Secret
  BY DEF IInv, TypeInv, TypeOK, LoadInv, CmdInv, Vault, Good
<1>2. kept \in SUBSET Slot /\ kept \subseteq loaded[c].slots /\ FreeIds(kept) # {}
  BY <1>1 DEF KeptSlots, Accepts, HasRoom
<1>3. id \in 1..MaxId /\ id \notin Ids(kept)
  BY <1>2, FreeIdIsFree
<1>4. NextSlots(c) = kept \cup {y}
  BY DEF NextSlots
<1>5. /\ y \in Slot /\ y.id = id /\ y.label = task[c].label /\ y.by = c /\ y.dek = loaded[c].dek
      /\ y.kind = IF task[c].kind = "hello" THEN "hello" ELSE "passphrase"
  <2>1. enrolled[c][id] \in Nat /\ task[c].label \in SlotLabels
    BY <1>1, <1>3, EnrolledType DEF IInv, Task
  <2>2. /\ HelloSlot(c, id, task[c].label, enrolled[c][id], loaded[c].dek) \in Slot
        /\ PassSlot(c, id, task[c].label, newsec[c], loaded[c].dek) \in Slot
    BY <1>1, <1>3, <2>1, SlotTypes
  <2> QED
    BY <2>2 DEF NewSlot, HelloSlot, PassSlot
<1>6. \A x \in kept : x.label # task[c].label
  BY <1>1, <1>2 DEF KeptSlots, Kept, Accepts, Labels
<1> HIDE DEF y, id
<1>7. Valid(NextSlots(c))
  BY <1>1, <1>2, <1>3, <1>4, <1>5, <1>6 DEF Valid, Good, Ids
<1>8. ASSUME "hello" \notin PassLabels
      PROVE  /\ PassSlots(NextSlots(c)) # {}
             /\ \A x \in PassSlots(NextSlots(c)) : x.label # "hello"
  <2>1. y.kind = "passphrase" => y.label # "hello"
    BY <1>1, <1>5, <1>8 DEF IInv, LoadInv, CmdInv, Task
  <2>2. CASE task[c].op = "add"
    <3>1. kept = loaded[c].slots
      BY <2>2 DEF KeptSlots, Kept
    <3> QED
      BY <1>1, <1>4, <1>8, <2>1, <3>1 DEF PassSlots, Good
  <2>3. CASE task[c].op = "recover"
    <3>1. \A x \in PassSlots(loaded[c].slots) : x.label # task[c].label => x \in kept
      BY <2>3 DEF KeptSlots, Kept, PassSlots
    <3>2. task[c].label = task[c].kind /\ task[c].kind \in {"hello", "passphrase"}
      BY <1>1, <2>3 DEF IInv, LoadInv, CmdInv, Task
    <3> QED
      BY <1>1, <1>2, <1>4, <1>5, <1>8, <2>1, <3>1, <3>2 DEF PassSlots, Good
  <2> QED
    BY <2>2, <2>3
<1> QED
  BY <1>4, <1>5, <1>7, <1>8

(* The header that a command is about to save is valid, and the vault that  *)
(* a save makes is good.                                                    *)
LEMMA NextVaultGood ==
  ASSUME IInv, NEW c \in Cmds, pc[c] = "save"
  PROVE  /\ NextVault(c) \in Vault /\ Good(NextVault(c))
         /\ \A x \in NextSlots(c) \ loaded[c].slots : x.by = c
<1> DEFINE op == task[c].op
<1>1. op \in {"init", "add", "rm", "recover", "rekey"}
  BY DEF IInv, TypeInv, LoadInv, CmdInv, Task
<1>2. loaded[c] \in Vault /\ (op # "init" => Good(loaded[c])) /\ (op = "init" => loaded[c] = NoVault)
  BY DEF IInv, TypeInv, TypeOK, LoadInv, CmdInv
<1>3. loaded[c].gen \in Nat /\ loaded[c].slots \in SUBSET Slot
  BY <1>2 DEF Vault
<1>4. /\ NextVault(c).vid \in Cmds /\ NextVault(c).dek \in Cmds
      /\ NextVault(c).gen = loaded[c].gen + 1 /\ NextVault(c).slots = NextSlots(c)
      /\ NextVault(c).dek = IF op \in {"init", "rekey"} THEN c ELSE loaded[c].dek
  BY <1>2 DEF NextVault, Vid, Good
<1>5. /\ NextSlots(c) \in SUBSET Slot /\ Valid(NextSlots(c))
      /\ \A x \in NextSlots(c) : x.dek = NextVault(c).dek
      /\ "hello" \notin PassLabels =>
           /\ PassSlots(NextSlots(c)) # {}
           /\ \A x \in PassSlots(NextSlots(c)) : x.label # "hello"
      /\ \A x \in NextSlots(c) \ loaded[c].slots : x.by = c
  <2>1. CASE op = "init"
    BY <1>4, <2>1, InitialSlots
  <2>2. CASE op = "rekey"
    BY <1>4, <2>2, RekeySlots
  <2>3. CASE op = "rm"
    BY <1>2, <1>3, <1>4, <2>3, RemainingSlots DEF Good, PassSlots
  <2>4. CASE op \in {"add", "recover"}
    BY <1>2, <1>3, <1>4, <2>4, AddedSlots DEF Good, KeptSlots
  <2> QED
    BY <1>1, <2>1, <2>2, <2>3, <2>4
<1>6. NextVault(c) \in Vault
  BY <1>3, <1>4, <1>5 DEF Vault, NextVault
<1> QED
  BY <1>3, <1>4, <1>5, <1>6 DEF Good

-----------------------------------------------------------------------------
(* The steps *)

Steps == {"new", "unlock", "open", "enroll", "sign", "save", "saved", "show", "done", "crashed"}

LEMMA Goes ==
  ASSUME TypeInv, NEW c \in Cmds, NEW step \in Steps, Goto(c, step)
  PROVE  /\ pc' \in [Cmds -> Steps] /\ pc'[c] = step
         /\ \A d \in Cmds : d # c => pc'[d] = pc[d]
BY DEF TypeInv, TypeOK, Goto, Steps

LEMMA TasksType ==
  ASSUME TypeInv, NEW t \in Tasks
  PROVE  /\ t \in Task /\ t.op # "none"
         /\ t.op = "init" => t.kind # "passphrase"
         /\ t.op = "recover" => t.label = t.kind /\ t.kind # "none"
         /\ t.op = "add" /\ t.kind # "hello" => t.label \in PassLabels
         /\ t.op = "rm" => t.kind # "hello"
<1>1. Labels(vault.slots) \subseteq SlotLabels
  BY DEF TypeInv, TypeOK, Vault, Slot, Labels
<1> QED
  BY <1>1 DEF Tasks, Task, SlotLabels

(* A step that leaves a command and the vault alone. *)
LEMMA OtherCmd ==
  ASSUME NEW d \in Cmds, CmdInv(d), vault' = vault,
         pc'[d] = pc[d], task'[d] = task[d], loaded'[d] = loaded[d]
  PROVE  CmdInv(d)'
BY DEF CmdInv, Good, Accepts, HasRoom, KeptSlots, Kept

LEMMA StartStep ==
  ASSUME IInv, NEW c \in Cmds, Start(c)
  PROVE  IInv'
<1>1. PICK t \in Tasks :
        /\ task' = [task EXCEPT ![c] = t]
        /\ (t.op = "init") = ~Exists
        /\ Goto(c, IF t.op # "init" THEN "unlock"
                   ELSE IF t.kind = "hello" THEN "enroll" ELSE "save")
  BY DEF Start
<1>2. /\ pc[c] = "new" /\ newsec' = [newsec EXCEPT ![c] = Passphrase(c)]
      /\ UNCHANGED <<loaded, enrolled, vault, cred, keys, lost, shown, revoked>>
  BY DEF Start
<1>3. /\ t \in Task /\ t.op # "none" /\ (t.op = "init" => t.kind # "passphrase")
      /\ t.op = "recover" => t.label = t.kind /\ t.kind # "none"
      /\ t.op = "add" /\ t.kind # "hello" => t.label \in PassLabels
      /\ t.op = "rm" => t.kind # "hello"
  BY TasksType DEF IInv
<1>4. /\ pc' \in [Cmds -> Steps] /\ pc'[c] \in {"unlock", "enroll", "save"}
      /\ pc'[c] = "unlock" <=> t.op # "init"
      /\ \A d \in Cmds : d # c => pc'[d] = pc[d]
  BY <1>1, Goes DEF IInv, Steps
<1>5. Passphrase(c) \in Secret
  BY DEF Passphrase, Secret
<1>6. TypeInv'
  BY <1>1, <1>2, <1>3, <1>4, <1>5 DEF IInv, TypeInv, TypeOK, Steps
<1>7. VaultInv'
  BY <1>2 DEF IInv, VaultInv, Good
<1>8. LoadInv'
  <2>1. task'[c] = t /\ \A d \in Cmds : d # c => task'[d] = task[d]
    BY <1>1 DEF IInv, TypeInv
  <2>2. t.op # "init" => vault.gen > 0
    BY <1>1 DEF Exists, IInv, TypeInv, TypeOK, Vault
  <2>3. loaded[c] = NoVault /\ loaded[c].gen <= vault.gen
    BY <1>2 DEF IInv, LoadInv, CmdInv
  <2>4. CmdInv(c)'
    BY <1>2, <1>3, <1>4, <2>1, <2>2, <2>3 DEF CmdInv
  <2>5. ASSUME NEW d \in Cmds, d # c PROVE CmdInv(d)'
    BY <1>2, <1>4, <2>1, <2>5, OtherCmd DEF IInv, LoadInv
  <2> QED
    BY <2>4, <2>5 DEF LoadInv
<1>9. MadeInv'
  BY <1>2, <1>4 DEF IInv, MadeInv, TypeInv, TypeOK, Vault, Slot
<1> QED
  BY <1>6, <1>7, <1>8, <1>9 DEF IInv

LEMMA UnlockStep ==
  ASSUME IInv, NEW c \in Cmds, Unlock(c)
  PROVE  IInv'
<1>1. PICK x \in vault.slots :
        /\ loaded' = [loaded EXCEPT ![c] = [vault EXCEPT !.dek = x.dek]]
        /\ newsec' \in {newsec, [newsec EXCEPT ![c] = IF x.kind = "passphrase" THEN x.sec ELSE @]}
  BY DEF Unlock
<1>2. /\ pc[c] = "unlock" /\ Goto(c, "open")
      /\ UNCHANGED <<task, enrolled, vault, cred, keys, lost, shown, revoked>>
  BY DEF Unlock
<1>3. Good(vault) /\ x \in Slot /\ vault \in Vault
  BY DEF IInv, TypeInv, TypeOK, VaultInv, NoVault, Vault
<1>4. [vault EXCEPT !.dek = x.dek] = vault
  BY <1>3 DEF Good, Vault
<1>5. loaded' = [loaded EXCEPT ![c] = vault]
  BY <1>1, <1>4
<1>6. newsec' \in [Cmds -> Secret]
  BY <1>1, <1>3 DEF IInv, TypeInv, TypeOK, Slot
<1>7. pc' \in [Cmds -> Steps] /\ pc'[c] = "open" /\ \A d \in Cmds : d # c => pc'[d] = pc[d]
  BY <1>2, Goes DEF IInv, Steps
<1>8. TypeInv'
  BY <1>2, <1>3, <1>5, <1>6, <1>7 DEF IInv, TypeInv, TypeOK, Steps
<1>9. VaultInv'
  BY <1>2 DEF IInv, VaultInv, Good
<1>10. LoadInv'
  <2>1. loaded'[c] = vault /\ \A d \in Cmds : d # c => loaded'[d] = loaded[d]
    BY <1>5 DEF IInv, TypeInv, TypeOK
  <2>2. vault.gen \in Nat /\ vault.gen > 0
    BY <1>3 DEF Vault, Good
  <2>3. CmdInv(c) /\ task[c].op # "init"
    BY <1>2 DEF IInv, LoadInv, CmdInv
  <2>4. Good(loaded[c])'
    BY <1>3, <2>1 DEF Good
  <2>5. CmdInv(c)'
    BY <1>2, <1>7, <2>1, <2>2, <2>3, <2>4 DEF CmdInv
  <2>6. ASSUME NEW d \in Cmds, d # c PROVE CmdInv(d)'
    BY <1>2, <1>7, <2>1, <2>6, OtherCmd DEF IInv, LoadInv
  <2> QED
    BY <2>5, <2>6 DEF LoadInv
<1>11. MadeInv'
  BY <1>2, <1>7 DEF IInv, MadeInv, TypeInv, TypeOK, Vault, Slot
<1> QED
  BY <1>8, <1>9, <1>10, <1>11 DEF IInv

LEMMA OpenStep ==
  ASSUME IInv, NEW c \in Cmds, Open(c)
  PROVE  IInv'
<1>1. /\ pc[c] = "open" /\ loaded' = [loaded EXCEPT ![c] = vault]
      /\ Goto(c, IF loaded[c].dek # vault.dek \/ ~Accepts(c, vault.slots) THEN "done"
                 ELSE IF ToSeal(c, vault.slots) # {} THEN "enroll" ELSE "save")
      /\ UNCHANGED <<task, newsec, enrolled, vault, cred, keys, lost, shown, revoked>>
  BY DEF Open
<1>2. /\ pc' \in [Cmds -> Steps] /\ pc'[c] \in {"done", "enroll", "save"}
      /\ pc'[c] # "done" => Accepts(c, vault.slots)
      /\ \A d \in Cmds : d # c => pc'[d] = pc[d]
  BY <1>1, Goes DEF IInv, Steps
<1>3. CmdInv(c) /\ vault \in Vault /\ vault.gen \in Nat /\ vault.gen > 0 /\ Good(vault)
  BY <1>1 DEF IInv, TypeInv, TypeOK, LoadInv, CmdInv, VaultInv, NoVault, Vault
<1>4. loaded'[c] = vault /\ \A d \in Cmds : d # c => loaded'[d] = loaded[d]
  BY <1>1 DEF IInv, TypeInv, TypeOK
<1>5. TypeInv'
  BY <1>1, <1>2, <1>3 DEF IInv, TypeInv, TypeOK, Steps
<1>6. VaultInv'
  BY <1>1 DEF IInv, VaultInv, Good
<1>7. LoadInv'
  <2>1. Good(loaded[c])'
    BY <1>3, <1>4 DEF Good
  <2>2. Accepts(c, vault.slots) => Accepts(c, loaded[c].slots)'
    BY <1>1, <1>4 DEF Accepts, HasRoom, KeptSlots, Kept
  <2>3. CmdInv(c)'
    BY <1>1, <1>2, <1>3, <1>4, <2>1, <2>2 DEF CmdInv
  <2>4. ASSUME NEW d \in Cmds, d # c PROVE CmdInv(d)'
    BY <1>1, <1>2, <1>4, <2>4, OtherCmd DEF IInv, LoadInv
  <2> QED
    BY <2>3, <2>4 DEF LoadInv
<1>8. MadeInv'
  BY <1>1, <1>2 DEF IInv, MadeInv, TypeInv, TypeOK, Vault, Slot
<1> QED
  BY <1>5, <1>6, <1>7, <1>8 DEF IInv

(* A step that changes nothing of the vault and of what was loaded. *)
LEMMA QuietStep ==
  ASSUME IInv, NEW c \in Cmds, pc[c] # "new", NEW step \in Steps, Goto(c, step),
         UNCHANGED <<task, loaded, vault, revoked>>,
         \/ step \in {"saved", "show", "done", "crashed"}
         \/ {pc[c], step} \subseteq {"enroll", "sign", "save"}
  PROVE  pc' \in [Cmds -> Steps] /\ VaultInv' /\ LoadInv' /\ MadeInv'
<1>1. pc' \in [Cmds -> Steps] /\ pc'[c] = step /\ \A d \in Cmds : d # c => pc'[d] = pc[d]
  BY Goes DEF IInv
<1>2. VaultInv'
  BY DEF IInv, VaultInv, Good
<1>3. LoadInv'
  <2>1. CmdInv(c)
    BY DEF IInv, LoadInv
  <2>2. CmdInv(c)'
    BY <1>1, <2>1 DEF CmdInv, Good, Accepts, HasRoom, KeptSlots, Kept
  <2>3. ASSUME NEW d \in Cmds, d # c PROVE CmdInv(d)'
    BY <1>1, <2>3, OtherCmd DEF IInv, LoadInv
  <2> QED
    BY <2>2, <2>3 DEF LoadInv
<1>4. MadeInv'
  BY <1>1 DEF IInv, MadeInv, TypeInv, TypeOK, Vault, Slot
<1> QED
  BY <1>1, <1>2, <1>3, <1>4

LEMMA OpenKeyStep ==
  ASSUME IInv, NEW c \in Cmds, OpenKey(c)
  PROVE  IInv'
<1>1. /\ pc[c] = "enroll" /\ Goto(c, "sign")
      /\ UNCHANGED <<task, loaded, newsec, enrolled, vault, lost, shown, revoked>>
  BY DEF OpenKey
<1>2. pc' \in [Cmds -> Steps] /\ VaultInv' /\ LoadInv' /\ MadeInv'
  BY <1>1, QuietStep DEF Steps
<1>3. /\ keys' \in Nat /\ keys <= keys' /\ cred' \in [Cmds -> 0..keys']
  <2>1. CASE cred[Vid(c)] # 0
    BY <2>1 DEF OpenKey, IInv, TypeInv, TypeOK
  <2>2. CASE cred[Vid(c)] = 0
    BY <2>2 DEF OpenKey, IInv, TypeInv, TypeOK
  <2> QED
    BY <2>1, <2>2
<1>4. enrolled \in [Cmds -> [1..MaxId -> 0..keys']] /\ lost \subseteq 1..keys'
  <2>1. 0..keys \subseteq 0..keys' /\ 1..keys \subseteq 1..keys'
    BY <1>3 DEF IInv, TypeInv, TypeOK
  <2>2. ASSUME NEW A, NEW B, A \subseteq B, NEW f \in [Cmds -> [1..MaxId -> A]]
        PROVE  f \in [Cmds -> [1..MaxId -> B]]
    BY <2>2
  <2> QED
    BY <2>1, <2>2 DEF IInv, TypeInv, TypeOK
<1> QED
  BY <1>1, <1>2, <1>3, <1>4 DEF IInv, TypeInv, TypeOK, Steps

LEMMA SignKeyStep ==
  ASSUME IInv, NEW c \in Cmds, SignKey(c)
  PROVE  IInv'
<1> DEFINE open == {i \in ToSeal(c, loaded[c].slots) : enrolled[c][i] = 0}
<1>1. /\ pc[c] = "sign" /\ cred[Vid(c)] # 0
      /\ UNCHANGED <<task, loaded, newsec, vault, cred, keys, lost, shown, revoked>>
  BY DEF SignKey
<1>2. PICK i \in open : /\ enrolled' = [enrolled EXCEPT ![c][i] = KeyUsed(c)]
                        /\ Goto(c, IF open = {i} THEN "save" ELSE "enroll")
  BY DEF SignKey
<1>3. pc' \in [Cmds -> Steps] /\ VaultInv' /\ LoadInv' /\ MadeInv'
  BY <1>1, <1>2, QuietStep DEF Steps
<1>4. Vid(c) \in Cmds
  BY <1>1 DEF IInv, LoadInv, CmdInv, Good, Vid
<1>5. KeyUsed(c) \in 0..keys
  BY <1>4 DEF KeyUsed, IInv, TypeInv, TypeOK
<1>6. enrolled' \in [Cmds -> [1..MaxId -> 0..keys]]
  BY <1>2, <1>5 DEF IInv, TypeInv, TypeOK
<1> QED
  BY <1>1, <1>3, <1>6 DEF IInv, TypeInv, TypeOK, Steps

LEMMA GiveUpStep ==
  ASSUME IInv, NEW c \in Cmds, GiveUp(c)
  PROVE  IInv'
<1>1. pc' \in [Cmds -> Steps] /\ VaultInv' /\ LoadInv' /\ MadeInv'
  BY QuietStep DEF GiveUp, Steps
<1> QED
  BY <1>1 DEF GiveUp, IInv, TypeInv, TypeOK, Steps

LEMMA SaveStep ==
  ASSUME IInv, NEW c \in Cmds, Save(c)
  PROVE  IInv'
<1>1. /\ pc[c] = "save"
      /\ UNCHANGED <<task, loaded, newsec, enrolled, cred, keys, lost, shown>>
  BY DEF Save
<1>2. CASE ~Writable(c) /\ Goto(c, "done") /\ UNCHANGED <<vault, revoked>>
  <2>1. pc' \in [Cmds -> Steps] /\ VaultInv' /\ LoadInv' /\ MadeInv'
    BY <1>1, <1>2, QuietStep DEF Steps
  <2> QED
    BY <1>1, <1>2, <2>1 DEF IInv, TypeInv, TypeOK, Steps
<1>3. CASE /\ Writable(c) /\ vault' = NextVault(c) /\ Goto(c, "saved")
           /\ revoked' = revoked \cup (loaded[c].slots \ NextSlots(c))
  <2>1. vault.gen = loaded[c].gen /\ CmdInv(c) /\ loaded[c] \in Vault /\ loaded[c].slots \in SUBSET Slot
    BY <1>1, <1>3 DEF Writable, IInv, TypeInv, TypeOK, LoadInv, Vault
  <2>2. pc' \in [Cmds -> Steps] /\ pc'[c] = "saved" /\ \A d \in Cmds : d # c => pc'[d] = pc[d]
    BY <1>3, Goes DEF IInv, Steps
  <2>3. /\ vault' \in Vault /\ Good(vault')
        /\ vault'.gen = vault.gen + 1 /\ vault'.slots = NextSlots(c)
        /\ \A x \in NextSlots(c) \ loaded[c].slots : x.by = c
    BY <1>1, <1>3, <2>1, NextVaultGood DEF NextVault
  <2>4. loaded[c].slots = vault.slots
    <3>1. CASE task[c].op = "init"
      <4>1. loaded[c] = NoVault /\ vault.gen = 0
        BY <2>1, <3>1 DEF CmdInv, NoVault
      <4> QED
        BY <4>1 DEF IInv, VaultInv, Good
    <3>2. CASE task[c].op # "init"
      BY <1>1, <2>1, <3>2 DEF CmdInv
    <3> QED
      BY <3>1, <3>2
  <2>5. TypeInv'
    BY <1>1, <1>3, <2>1, <2>2, <2>3 DEF IInv, TypeInv, TypeOK, Steps
  <2>6. VaultInv'
    BY <2>3 DEF VaultInv, Good
  <2>7. LoadInv'
    <3>1. vault.gen \in Nat
      BY DEF IInv, TypeInv, TypeOK, Vault
    <3>2. ASSUME NEW d \in Cmds PROVE CmdInv(d)'
      <4>1. CmdInv(d) /\ loaded[d].gen \in Nat
        BY DEF IInv, LoadInv, TypeInv, TypeOK, Vault
      <4>2. loaded[d].gen <= vault.gen /\ loaded[d].gen # vault'.gen
        BY <2>3, <3>1, <4>1 DEF CmdInv
      <4> QED
        BY <1>1, <2>2, <2>3, <3>1, <4>1, <4>2
           DEF CmdInv, Good, Accepts, HasRoom, KeptSlots, Kept
    <3> QED
      BY <3>2 DEF LoadInv
  <2>8. MadeInv'
    <3>1. \A x \in NextSlots(c) \ loaded[c].slots : x \notin revoked
      BY <1>1, <2>3 DEF IInv, MadeInv
    <3>2. \A x \in vault.slots \cup revoked \cup NextSlots(c) : x.by \in Cmds
      BY <2>3 DEF IInv, TypeInv, TypeOK, Vault, Slot
    <3>3. revoked' \cap vault'.slots = {}
      BY <1>3, <2>3, <2>4, <3>1 DEF IInv, MadeInv
    <3>4. ASSUME NEW x \in vault'.slots \cup revoked'
          PROVE  pc'[x.by] \in {"saved", "show", "done", "crashed"}
      <4>1. x \in vault.slots \cup revoked \/ x.by = c
        BY <1>3, <2>3, <2>4
      <4>2. x.by \in Cmds
        BY <1>3, <2>3, <2>4, <3>2
      <4> QED
        BY <2>2, <4>1, <4>2 DEF IInv, MadeInv
    <3> QED
      BY <3>3, <3>4 DEF MadeInv
  <2> QED
    BY <2>5, <2>6, <2>7, <2>8 DEF IInv
<1> QED
  BY <1>2, <1>3 DEF Save

LEMMA DestroyStep ==
  ASSUME IInv, NEW c \in Cmds, Destroy(c)
  PROVE  IInv'
<1>1. pc' \in [Cmds -> Steps] /\ VaultInv' /\ LoadInv' /\ MadeInv'
  BY QuietStep DEF Destroy, Steps
<1>2. cred' \in [Cmds -> 0..keys]
  <2>1. cred \in [Cmds -> 0..keys] /\ 0 \in 0..keys
    BY DEF IInv, TypeInv, TypeOK
  <2> QED
    BY <2>1 DEF Destroy
<1> QED
  BY <1>1, <1>2 DEF Destroy, IInv, TypeInv, TypeOK, Steps

LEMMA ShowStep ==
  ASSUME IInv, NEW c \in Cmds, Show(c)
  PROVE  IInv'
<1>1. pc' \in [Cmds -> Steps] /\ VaultInv' /\ LoadInv' /\ MadeInv'
  BY QuietStep DEF Show, Steps
<1>2. MadeKeys(c) \subseteq Secret
  BY DEF MadeKeys, RecoveryKey, Secret
<1> QED
  BY <1>1, <1>2 DEF Show, IInv, TypeInv, TypeOK, Steps

LEMMA CrashStep ==
  ASSUME IInv, NEW c \in Cmds, Crash(c)
  PROVE  IInv'
<1>1. pc' \in [Cmds -> Steps] /\ VaultInv' /\ LoadInv' /\ MadeInv'
  BY QuietStep DEF Crash, Active, Steps
<1> QED
  BY <1>1 DEF Crash, IInv, TypeInv, TypeOK, Steps

LEMMA PinResetStep ==
  ASSUME IInv, PinReset
  PROVE  IInv'
<1>1. /\ cred' = [v \in Cmds |-> 0] /\ lost' = lost \cup ({cred[v] : v \in Cmds} \ {0})
      /\ UNCHANGED <<pc, task, loaded, newsec, enrolled, vault, keys, shown, revoked>>
  BY DEF PinReset
<1>2. cred' \in [Cmds -> 0..keys] /\ lost' \subseteq 1..keys
  <2>1. keys \in Nat /\ lost \subseteq 1..keys /\ \A v \in Cmds : cred[v] \in 0..keys
    BY DEF IInv, TypeInv, TypeOK
  <2>2. \A v \in Cmds : cred[v] # 0 => cred[v] \in 1..keys
    BY <2>1
  <2>3. 0 \in 0..keys
    BY <2>1
  <2> QED
    BY <1>1, <2>1, <2>2, <2>3
<1>3. TypeInv' /\ VaultInv' /\ MadeInv'
  BY <1>1, <1>2 DEF IInv, TypeInv, TypeOK, VaultInv, Good, MadeInv
<1>4. LoadInv'
  BY <1>1, OtherCmd DEF IInv, LoadInv
<1> QED
  BY <1>3, <1>4 DEF IInv

LEMMA NextStep == IInv /\ [Next]_vars => IInv'
<1> SUFFICES ASSUME IInv, [Next]_vars
             PROVE  IInv'
  OBVIOUS
<1>1. CASE UNCHANGED vars
  <2>1. LoadInv'
    BY <1>1, OtherCmd DEF vars, IInv, LoadInv
  <2> QED
    BY <1>1, <2>1 DEF vars, IInv, TypeInv, TypeOK, VaultInv, Good, MadeInv
<1> QED
  BY <1>1, StartStep, UnlockStep, OpenStep, OpenKeyStep, SignKeyStep, GiveUpStep, SaveStep,
     DestroyStep, ShowStep, CrashStep, PinResetStep DEF Next, Done

(* The inductive invariant of the slots holds in every state. *)
THEOREM Invariant == Spec => []IInv
BY InitInv, NextStep, PTL DEF Spec

-----------------------------------------------------------------------------
(* What follows from it *)

(* Every variable of KeySlots has its type (TypeOK), for all constants. *)
THEOREM TypeCorrect == Spec => []TypeOK
BY Invariant, PTL DEF IInv, TypeInv

(* Every slot of the vault wraps the key of its body (SlotsOpenTheBody),    *)
(* whatever rekey, slot add and recover commands race.                      *)
THEOREM SlotsFitTheBody == Spec => []SlotsOpenTheBody
<1>1. IInv => SlotsOpenTheBody
  BY DEF IInv, VaultInv, NoVault, Good, SlotsOpenTheBody
<1> QED
  BY <1>1, Invariant, PTL

(* No command builds a header that Header::validate refuses                 *)
(* (HeadersAreValid): the ids and labels it chose are unique.               *)
THEOREM HeadersStayValid == Spec => []HeadersAreValid
<1>1. IInv => HeadersAreValid
  BY NextVaultGood DEF HeadersAreValid, Good, NextVault
<1> QED
  BY <1>1, Invariant, PTL

(* A slot that a saved command removed or sealed again never comes back     *)
(* (RevokedSlotsStayOut).                                                   *)
THEOREM RevokedSlotsStayGone == Spec => []RevokedSlotsStayOut
<1>1. IInv => RevokedSlotsStayOut
  BY DEF IInv, MadeInv, RevokedSlotsStayOut
<1> QED
  BY <1>1, Invariant, PTL

(* The vault keeps a passphrase slot (RecoverySlotRemains), provided that   *)
(* none is given the label that recover uses for its Hello slot.            *)
THEOREM RecoveryIsPossible ==
  ASSUME "hello" \notin PassLabels
  PROVE  Spec => []RecoverySlotRemains
<1>1. IInv => RecoverySlotRemains
  BY DEF IInv, VaultInv, NoVault, Good, Exists, RecoverySlotRemains
<1> QED
  BY <1>1, Invariant, PTL

-----------------------------------------------------------------------------
(* The user's access, as long as no command is killed *)

(* c has saved the recovery key it made and is about to display it.         *)
AboutToShow(c) ==
  /\ pc[c] \in {"saved", "show"} /\ task[c].op \in {"init", "rekey"}
  /\ RecoveryKey(c) \in MadeKeys(c)

Sure(sec) == Known(sec) \/ \E c \in Cmds : sec = RecoveryKey(c) /\ AboutToShow(c)

(* What opens a passphrase slot is known to the user or about to be; and no *)
(* command seals a slot with a passphrase the user does not know.           *)
AccessInv ==
  /\ crashes = 0
  /\ \A c \in Cmds : Known(newsec[c])
  /\ \A x \in PassSlots(vault.slots) : Sure(x.sec)

(* What a command saves depends on its own state only. *)
LEMMA SameSlots ==
  ASSUME NEW c \in Cmds, task'[c] = task[c], loaded'[c] = loaded[c],
         newsec'[c] = newsec[c], enrolled'[c] = enrolled[c]
  PROVE  NextSlots(c)' = NextSlots(c) /\ MadeKeys(c)' = MadeKeys(c)
BY DEF NextSlots, MadeKeys, InitSlots, ToSeal, KeptSlots, Kept, NewSlot, Resealed

(* A secret stays sure unless its maker goes on. *)
LEMMA StaysSure ==
  ASSUME NEW sec, Sure(sec), shown \subseteq shown',
         \A c \in Cmds : AboutToShow(c) =>
            \/ /\ pc'[c] \in {"saved", "show"} /\ task'[c] = task[c] /\ loaded'[c] = loaded[c]
               /\ newsec'[c] = newsec[c] /\ enrolled'[c] = enrolled[c]
            \/ MadeKeys(c) \subseteq shown'
  PROVE  Sure(sec)'
<1>1. CASE Known(sec)
  BY <1>1 DEF Sure, Known
<1>2. CASE \E c \in Cmds : sec = RecoveryKey(c) /\ AboutToShow(c)
  <2>1. PICK c \in Cmds : sec = RecoveryKey(c) /\ AboutToShow(c)
    BY <1>2
  <2>2. CASE MadeKeys(c) \subseteq shown'
    BY <2>1, <2>2 DEF Sure, Known, AboutToShow
  <2>3. CASE /\ pc'[c] \in {"saved", "show"} /\ task'[c] = task[c] /\ loaded'[c] = loaded[c]
             /\ newsec'[c] = newsec[c] /\ enrolled'[c] = enrolled[c]
    <3>1. RecoveryKey(c)' = RecoveryKey(c) /\ MadeKeys(c)' = MadeKeys(c)
      BY <2>3, SameSlots DEF RecoveryKey
    <3>2. AboutToShow(c)'
      BY <2>1, <2>3, <3>1 DEF AboutToShow
    <3> QED
      BY <2>1, <3>1, <3>2 DEF Sure
  <2> QED
    BY <2>1, <2>2, <2>3
<1> QED
  BY <1>1, <1>2 DEF Sure

(* A step of a command that is not about to display a key, which leaves the *)
(* vault and the secrets alone.                                             *)
LEMMA AccessKept ==
  ASSUME IInv, AccessInv, NEW c \in Cmds, pc[c] \notin {"saved", "show"},
         \A d \in Cmds : d # c => /\ pc'[d] = pc[d] /\ task'[d] = task[d]
                                  /\ loaded'[d] = loaded[d] /\ newsec'[d] = newsec[d]
                                  /\ enrolled'[d] = enrolled[d],
         Known(newsec'[c]), UNCHANGED <<vault, shown, crashes>>
  PROVE  AccessInv'
<1>1. \A d \in Cmds : AboutToShow(d) => d # c
  BY DEF AboutToShow
<1>2. \A x \in PassSlots(vault.slots) : Sure(x.sec)'
  BY <1>1, StaysSure DEF AccessInv, AboutToShow
<1>3. \A d \in Cmds : Known(newsec[d])'
  BY DEF AccessInv, Known
<1> QED
  BY <1>2, <1>3 DEF AccessInv, PassSlots

LEMMA AccessInit == Init => AccessInv
BY DEF Init, AccessInv, Known, NoSecret, NoVault, PassSlots

(* Where the passphrases of a saved header come from. *)
LEMMA SecretsSaved ==
  ASSUME IInv, AccessInv, NEW c \in Cmds, pc[c] = "save",
         NEW x \in PassSlots(NextSlots(c))
  PROVE  \/ x \in PassSlots(loaded[c].slots)
         \/ x.sec = newsec[c]
         \/ x.sec = RecoveryKey(c) /\ task[c].op \in {"init", "rekey"}
BY DEF NextSlots, InitSlots, KeptSlots, NewSlot, Resealed, PassSlot, HelloSlot, PassSlots

LEMMA AccessSave ==
  ASSUME IInv, AccessInv, NEW c \in Cmds, Save(c)
  PROVE  AccessInv'
<1>1. /\ pc[c] = "save"
      /\ UNCHANGED <<task, loaded, newsec, enrolled, cred, keys, lost, shown, crashes>>
  BY DEF Save
<1>2. CASE ~Writable(c) /\ Goto(c, "done") /\ UNCHANGED <<vault, revoked>>
  <2>1. Known(newsec'[c]) /\ \A d \in Cmds : d # c => pc'[d] = pc[d]
    BY <1>1, <1>2, Goes DEF IInv, AccessInv, Steps
  <2> QED
    BY <1>1, <1>2, <2>1, AccessKept
<1>3. CASE Writable(c) /\ vault' = NextVault(c) /\ Goto(c, "saved")
  <2>1. pc' \in [Cmds -> Steps] /\ pc'[c] = "saved" /\ \A d \in Cmds : d # c => pc'[d] = pc[d]
    BY <1>3, Goes DEF IInv, Steps
  <2>2. vault'.slots = NextSlots(c)
    BY <1>3 DEF NextVault
  <2>3. loaded[c].slots \subseteq vault.slots
    BY <1>1, <1>3 DEF Writable, IInv, LoadInv, CmdInv, NoVault
  <2>4. ASSUME NEW x \in PassSlots(NextSlots(c))
        PROVE  Sure(x.sec)'
    <3>1. CASE x \in PassSlots(loaded[c].slots)
      <4>1. Sure(x.sec)
        BY <2>3, <3>1 DEF AccessInv, PassSlots
      <4> QED
        BY <1>1, <2>1, <4>1, StaysSure DEF AboutToShow
    <3>2. CASE x.sec = newsec[c]
      BY <1>1, <3>2 DEF AccessInv, Sure, Known
    <3>3. CASE x.sec = RecoveryKey(c) /\ task[c].op \in {"init", "rekey"}
      <4>1. RecoveryKey(c) \in MadeKeys(c)
        BY <3>3 DEF MadeKeys, PassSlots
      <4>2. MadeKeys(c)' = MadeKeys(c) /\ RecoveryKey(c)' = RecoveryKey(c)
        BY <1>1, SameSlots DEF RecoveryKey
      <4>3. AboutToShow(c)'
        BY <1>1, <2>1, <3>3, <4>1, <4>2 DEF AboutToShow
      <4> QED
        BY <3>3, <4>2, <4>3 DEF Sure
    <3> QED
      BY <1>1, <3>1, <3>2, <3>3, SecretsSaved
  <2>5. \A d \in Cmds : Known(newsec[d])'
    BY <1>1 DEF AccessInv, Known
  <2> QED
    BY <1>1, <2>2, <2>4, <2>5 DEF AccessInv, PassSlots
<1> QED
  BY <1>2, <1>3 DEF Save

LEMMA AccessStep ==
  ASSUME MaxCrashes = 0, IInv, AccessInv, [Next]_vars
  PROVE  AccessInv'
<1>1. CASE UNCHANGED vars
  BY <1>1, StaysSure DEF vars, AccessInv, AboutToShow, Known, PassSlots
<1>2. ASSUME NEW c \in Cmds, Start(c) PROVE AccessInv'
  <2>1. /\ pc[c] = "new" /\ newsec' = [newsec EXCEPT ![c] = Passphrase(c)]
        /\ UNCHANGED <<loaded, enrolled, vault, shown, crashes>>
    BY <1>2 DEF Start
  <2>2. \A d \in Cmds : d # c => pc'[d] = pc[d] /\ task'[d] = task[d]
    BY <1>2 DEF Start, Goto, IInv, TypeInv, TypeOK
  <2>3. Known(newsec'[c]) /\ \A d \in Cmds : d # c => newsec'[d] = newsec[d]
    BY <2>1 DEF IInv, TypeInv, TypeOK, Known, Passphrase
  <2> QED
    BY <2>1, <2>2, <2>3, AccessKept
<1>3. ASSUME NEW c \in Cmds, Unlock(c) PROVE AccessInv'
  <2>1. PICK x \in vault.slots :
          /\ Opening(x, vault.vid) = "opens"
          /\ newsec' \in {newsec, [newsec EXCEPT ![c] = IF x.kind = "passphrase" THEN x.sec ELSE @]}
    BY <1>3 DEF Unlock
  <2>2. pc[c] = "unlock" /\ Goto(c, "open") /\ UNCHANGED <<task, enrolled, vault, shown, crashes>>
    BY <1>3 DEF Unlock
  <2>3. \A d \in Cmds : d # c => pc'[d] = pc[d]
    BY <2>2, Goes DEF IInv, Steps
  <2>4. \A d \in Cmds : d # c => loaded'[d] = loaded[d]
    BY <1>3 DEF Unlock, IInv, TypeInv, TypeOK
  <2>5. x.kind = "passphrase" => Known(x.sec)
    BY <2>1 DEF Opening
  <2>6. Known(newsec'[c]) /\ \A d \in Cmds : d # c => newsec'[d] = newsec[d]
    BY <2>1, <2>5 DEF IInv, TypeInv, TypeOK, AccessInv
  <2> QED
    BY <2>2, <2>3, <2>4, <2>6, AccessKept
<1>4. ASSUME NEW c \in Cmds, Open(c) PROVE AccessInv'
  <2>1. /\ pc[c] = "open" /\ loaded' = [loaded EXCEPT ![c] = vault]
        /\ UNCHANGED <<task, newsec, enrolled, vault, shown, crashes>>
    BY <1>4 DEF Open
  <2>2. \A d \in Cmds : d # c => pc'[d] = pc[d] /\ loaded'[d] = loaded[d]
    BY <1>4, <2>1 DEF Open, Goto, IInv, TypeInv, TypeOK
  <2> QED
    BY <2>1, <2>2, AccessKept DEF AccessInv
<1>5. ASSUME NEW c \in Cmds, OpenKey(c) \/ GiveUp(c) PROVE AccessInv'
  <2>1. /\ pc[c] \notin {"saved", "show"}
        /\ UNCHANGED <<task, loaded, newsec, enrolled, vault, shown, crashes>>
        /\ \A d \in Cmds : d # c => pc'[d] = pc[d]
    BY <1>5 DEF OpenKey, GiveUp, Goto, IInv, TypeInv, TypeOK
  <2> QED
    BY <2>1, AccessKept DEF AccessInv
<1>6. ASSUME NEW c \in Cmds, SignKey(c) PROVE AccessInv'
  <2>1. /\ pc[c] \notin {"saved", "show"}
        /\ UNCHANGED <<task, loaded, newsec, vault, shown, crashes>>
        /\ \A d \in Cmds : d # c => pc'[d] = pc[d] /\ enrolled'[d] = enrolled[d]
    BY <1>6 DEF SignKey, Goto, IInv, TypeInv, TypeOK
  <2> QED
    BY <2>1, AccessKept DEF AccessInv
<1>7. ASSUME NEW c \in Cmds, Destroy(c) PROVE AccessInv'
  <2>1. /\ pc[c] = "saved" /\ UNCHANGED <<task, loaded, newsec, enrolled, vault, shown, crashes>>
        /\ task[c].op \in {"init", "rekey"} => pc'[c] = "show"
        /\ \A d \in Cmds : d # c => pc'[d] = pc[d]
    BY <1>7 DEF Destroy, Goto, IInv, TypeInv, TypeOK
  <2>2. \A d \in Cmds : AboutToShow(d) => pc'[d] \in {"saved", "show"}
    BY <2>1 DEF AboutToShow
  <2>3. \A x \in PassSlots(vault.slots) : Sure(x.sec)'
    BY <2>1, <2>2, StaysSure DEF AccessInv
  <2> QED
    BY <2>1, <2>3 DEF AccessInv, PassSlots, Known
<1>8. ASSUME NEW c \in Cmds, Show(c) PROVE AccessInv'
  <2>1. /\ pc[c] = "show" /\ shown' = shown \cup MadeKeys(c)
        /\ UNCHANGED <<task, loaded, newsec, enrolled, vault, crashes>>
        /\ \A d \in Cmds : d # c => pc'[d] = pc[d]
    BY <1>8 DEF Show, Goto, IInv, TypeInv, TypeOK
  <2>2. \A x \in PassSlots(vault.slots) : Sure(x.sec)'
    BY <2>1, StaysSure DEF AccessInv, AboutToShow
  <2> QED
    BY <2>1, <2>2 DEF AccessInv, PassSlots, Known
<1>9. ASSUME PinReset PROVE AccessInv'
  <2>1. UNCHANGED <<pc, task, loaded, newsec, enrolled, vault, shown, crashes>>
    BY <1>9 DEF PinReset
  <2>2. \A x \in PassSlots(vault.slots) : Sure(x.sec)'
    BY <2>1, StaysSure DEF AccessInv, AboutToShow
  <2> QED
    BY <2>1, <2>2 DEF AccessInv, PassSlots, Known
<1>10. ASSUME NEW c \in Cmds PROVE ~Crash(c)
  BY DEF Crash, AccessInv
<1> QED
  BY <1>1, <1>2, <1>3, <1>4, <1>5, <1>6, <1>7, <1>8, <1>9, <1>10, AccessSave DEF Next, Done

(* The user can get into the vault without Windows Hello (UserKeepsAccess), *)
(* as long as no command is killed before it displays its recovery key and  *)
(* no passphrase slot has the label that recover uses for its Hello slot.   *)
THEOREM UserGetsIn ==
  ASSUME MaxCrashes = 0, "hello" \notin PassLabels
  PROVE  Spec => []UserKeepsAccess
<1>1. Init => AccessInv
  BY AccessInit
<1>2. IInv /\ AccessInv /\ [Next]_vars => AccessInv'
  BY AccessStep
<1>3. IInv /\ AccessInv => UserKeepsAccess
  <2>1. ASSUME IInv, AccessInv, vault.gen > 1, \A c \in Cmds : pc[c] \notin {"saved", "show"}
        PROVE  \E x \in PassSlots(vault.slots) : Known(x.sec)
    <3>1. PICK x \in PassSlots(vault.slots) : TRUE
      BY <2>1 DEF IInv, VaultInv, NoVault, Good
    <3> QED
      BY <2>1, <3>1 DEF AccessInv, Sure, AboutToShow
  <2> QED
    BY <2>1 DEF UserKeepsAccess
<1> QED
  BY <1>1, <1>2, <1>3, Invariant, PTL DEF Spec

-----------------------------------------------------------------------------
(* The Hello keys, when commands run one after the other *)

Alive(key, v) == key # 0 /\ (cred[v] = key \/ key \in lost)

(* A command knows the present vault, and the keys it has enrolled are      *)
(* alive, all of them when it comes to save.                                *)
TurnCmd(c) ==
  /\ pc[c] \in {"new", "unlock", "open"} => enrolled[c] = NoKeys
  /\ pc[c] \in {"open", "enroll", "sign", "save"} => loaded[c].gen = vault.gen
  /\ pc[c] = "saved" => vault = NextVault(c)
  /\ pc[c] \in {"enroll", "sign", "save"} =>
       \A i \in 1..MaxId : enrolled[c][i] # 0 => Alive(enrolled[c][i], Vid(c))
  /\ pc[c] = "save" => \A i \in ToSeal(c, loaded[c].slots) : enrolled[c][i] # 0

(* One command runs at a time, and the Hello slots of the vault have living *)
(* keys.                                                                    *)
AloneInv == \A c, d \in Cmds : Active(c) /\ Active(d) => c = d
HelloInv == \A x \in HelloSlots(vault.slots) : Alive(x.key, vault.vid)

TurnInv == AloneInv /\ HelloInv /\ \A c \in Cmds : TurnCmd(c)

(* The commands that do not run. *)
LEMMA OthersRest ==
  ASSUME TurnInv, NEW c \in Cmds, Active(c) \/ \A d \in Cmds : ~Active(d),
         \A d \in Cmds : d # c => pc'[d] = pc[d] /\ enrolled'[d] = enrolled[d]
  PROVE  AloneInv' /\ \A d \in Cmds : d # c => TurnCmd(d)'
<1>1. \A d \in Cmds : d # c => ~Active(d)
  BY DEF TurnInv, AloneInv
<1>2. \A d \in Cmds : d # c => ~Active(d)'
  BY <1>1 DEF Active
<1>3. AloneInv'
  BY <1>2 DEF AloneInv
<1>4. ASSUME NEW d \in Cmds, d # c PROVE TurnCmd(d)'
  BY <1>2, <1>4 DEF TurnInv, TurnCmd, Active
<1> QED
  BY <1>3, <1>4

LEMMA TurnInit == Init => TurnInv
BY DEF Init, TurnInv, AloneInv, HelloInv, TurnCmd, Active, NoVault, HelloSlots

LEMMA TurnStart ==
  ASSUME IsFiniteSet(Cmds), MaxActive = 1, IInv, TurnInv, NEW c \in Cmds, Start(c)
  PROVE  TurnInv'
<1>1. PICK t \in Tasks :
        /\ task' = [task EXCEPT ![c] = t]
        /\ (t.op = "init") = ~Exists
        /\ Goto(c, IF t.op # "init" THEN "unlock"
                   ELSE IF t.kind = "hello" THEN "enroll" ELSE "save")
  BY DEF Start
<1>2. /\ pc[c] = "new" /\ Cardinality({d \in Cmds : Active(d)}) < 1
      /\ UNCHANGED <<loaded, enrolled, vault, cred, keys, lost, shown, revoked>>
  BY DEF Start
<1>3. \A d \in Cmds : ~Active(d)
  <2>1. IsFiniteSet({d \in Cmds : Active(d)})
    BY FS_Subset
  <2>2. Cardinality({d \in Cmds : Active(d)}) = 0
    BY <1>2, <2>1, FS_CardinalityType
  <2> QED
    BY <2>1, <2>2, FS_EmptySet
<1>4. /\ t.op # "init" => pc'[c] = "unlock"
      /\ t.op = "init" => pc'[c] = IF t.kind = "hello" THEN "enroll" ELSE "save"
      /\ \A d \in Cmds : d # c => pc'[d] = pc[d]
  BY <1>1, Goes DEF IInv, Steps
<1>5. task'[c] = t /\ \A d \in Cmds : d # c => task'[d] = task[d]
  BY <1>1 DEF IInv, TypeInv
<1>6. enrolled[c] = NoKeys /\ loaded[c] = NoVault
  BY <1>2 DEF TurnInv, TurnCmd, IInv, LoadInv, CmdInv
<1>7. t.op = "init" => vault.gen = 0
  BY <1>1 DEF Exists, IInv, TypeInv, TypeOK, Vault
<1>8. pc'[c] = "save" => ToSeal(c, loaded[c].slots)' = {}
  BY <1>2, <1>4, <1>5 DEF ToSeal
<1>9. \A i \in 1..MaxId : NoKeys[i] = 0
  BY DEF NoKeys
<1>10. TurnCmd(c)'
  BY <1>2, <1>4, <1>6, <1>7, <1>8, <1>9 DEF TurnCmd, NoVault
<1>11. HelloInv'
  BY <1>2 DEF TurnInv, HelloInv, HelloSlots, Alive
<1> QED
  BY <1>2, <1>3, <1>4, <1>10, <1>11, OthersRest DEF TurnInv

LEMMA TurnUnlock ==
  ASSUME IInv, TurnInv, NEW c \in Cmds, Unlock(c)
  PROVE  TurnInv'
<1>1. /\ pc[c] = "unlock" /\ Goto(c, "open")
      /\ UNCHANGED <<task, enrolled, vault, cred, keys, lost>>
  BY DEF Unlock
<1>2. PICK x \in vault.slots : loaded' = [loaded EXCEPT ![c] = [vault EXCEPT !.dek = x.dek]]
  BY DEF Unlock
<1>3. loaded'[c].gen = vault.gen
  BY <1>2 DEF IInv, TypeInv, TypeOK, Vault
<1>4. pc'[c] = "open" /\ \A d \in Cmds : d # c => pc'[d] = pc[d]
  BY <1>1, Goes DEF IInv, Steps
<1>5. TurnCmd(c)'
  BY <1>1, <1>3, <1>4 DEF TurnInv, TurnCmd
<1>6. HelloInv'
  BY <1>1 DEF TurnInv, HelloInv, HelloSlots, Alive
<1> QED
  BY <1>1, <1>4, <1>5, <1>6, OthersRest DEF TurnInv, Active

LEMMA TurnOpen ==
  ASSUME IInv, TurnInv, NEW c \in Cmds, Open(c)
  PROVE  TurnInv'
<1>1. /\ pc[c] = "open" /\ loaded' = [loaded EXCEPT ![c] = vault]
      /\ Goto(c, IF loaded[c].dek # vault.dek \/ ~Accepts(c, vault.slots) THEN "done"
                 ELSE IF ToSeal(c, vault.slots) # {} THEN "enroll" ELSE "save")
      /\ UNCHANGED <<task, enrolled, vault, cred, keys, lost>>
  BY DEF Open
<1>2. /\ pc'[c] \in {"done", "enroll", "save"}
      /\ pc'[c] = "save" => ToSeal(c, vault.slots) = {}
      /\ \A d \in Cmds : d # c => pc'[d] = pc[d]
  BY <1>1, Goes DEF IInv, Steps
<1>3. loaded'[c] = vault
  BY <1>1 DEF IInv, TypeInv, TypeOK
<1>4. enrolled[c] = NoKeys /\ \A i \in 1..MaxId : NoKeys[i] = 0
  BY <1>1 DEF TurnInv, TurnCmd, NoKeys
<1>5. ToSeal(c, loaded[c].slots)' = ToSeal(c, vault.slots)
  <2>1. (loaded[c].slots)' = vault.slots /\ task' = task
    BY <1>1, <1>3
  <2>2. KeptSlots(c, loaded[c].slots)' = KeptSlots(c, vault.slots)
    BY <2>1 DEF KeptSlots, Kept
  <2> QED
    BY <2>1, <2>2 DEF ToSeal, FreeId, Ids, HelloSlots
<1>6. TurnCmd(c)'
  BY <1>1, <1>2, <1>3, <1>4, <1>5 DEF TurnCmd
<1>7. HelloInv'
  BY <1>1 DEF TurnInv, HelloInv, HelloSlots, Alive
<1> QED
  BY <1>1, <1>2, <1>6, <1>7, OthersRest DEF TurnInv, Active

LEMMA TurnOpenKey ==
  ASSUME IInv, TurnInv, NEW c \in Cmds, OpenKey(c)
  PROVE  TurnInv'
<1>1. /\ pc[c] = "enroll" /\ Goto(c, "sign") /\ UNCHANGED <<task, loaded, enrolled, vault, lost>>
  BY DEF OpenKey
<1>2. pc'[c] = "sign" /\ \A d \in Cmds : d # c => pc'[d] = pc[d]
  BY <1>1, Goes DEF IInv, Steps
<1>3. \A key, v : Alive(key, v) => Alive(key, v)'
  <2>1. CASE cred[Vid(c)] # 0
    BY <1>1, <2>1 DEF OpenKey, Alive
  <2>2. CASE cred[Vid(c)] = 0
    <3>1. cred' = [cred EXCEPT ![Vid(c)] = keys + 1]
      BY <2>2 DEF OpenKey
    <3> QED
      BY <1>1, <2>2, <3>1 DEF Alive, IInv, TypeInv, TypeOK
  <2> QED
    BY <2>1, <2>2
<1>4. Vid(c)' = Vid(c)
  BY <1>1 DEF Vid
<1>5. TurnCmd(c)'
  BY <1>1, <1>2, <1>3, <1>4 DEF TurnInv, TurnCmd
<1>6. HelloInv'
  BY <1>1, <1>3 DEF TurnInv, HelloInv, HelloSlots
<1> QED
  BY <1>1, <1>2, <1>5, <1>6, OthersRest DEF TurnInv, Active

(* The ids under which a command seals Hello slots. *)
LEMMA ToSealType ==
  ASSUME IInv, NEW c \in Cmds, pc[c] \in {"sign", "save"}
  PROVE  ToSeal(c, loaded[c].slots) \subseteq 1..MaxId
<1>1. loaded[c].slots \in SUBSET Slot /\ CmdInv(c)
  BY DEF IInv, TypeInv, TypeOK, Vault, LoadInv
<1>2. CASE task[c].op \in {"rekey", "init"}
  BY <1>1, <1>2, SlotConstants DEF ToSeal, Ids, HelloSlots, Slot
<1>3. CASE task[c].op \notin {"rekey", "init"} /\ task[c].kind = "hello"
  <2>1. task[c].op \in {"add", "recover"} => FreeIds(KeptSlots(c, loaded[c].slots)) # {}
    BY <1>1, <1>3 DEF CmdInv, Accepts, HasRoom
  <2>2. task[c].op \in {"add", "recover"}
    BY <1>1, <1>3 DEF CmdInv, IInv, TypeInv, Task, Steps
  <2>3. KeptSlots(c, loaded[c].slots) \in SUBSET Slot
    BY <1>1 DEF KeptSlots
  <2> QED
    BY <1>3, <2>1, <2>2, <2>3, FreeIdIsFree DEF ToSeal
<1> QED
  BY <1>2, <1>3 DEF ToSeal

LEMMA TurnSignKey ==
  ASSUME IInv, TurnInv, NEW c \in Cmds, SignKey(c)
  PROVE  TurnInv'
<1> DEFINE open == {i \in ToSeal(c, loaded[c].slots) : enrolled[c][i] = 0}
<1>1. /\ pc[c] = "sign" /\ cred[Vid(c)] # 0
      /\ UNCHANGED <<task, loaded, newsec, vault, cred, keys, lost>>
  BY DEF SignKey
<1>2. PICK i \in open : /\ enrolled' = [enrolled EXCEPT ![c][i] = cred[Vid(c)]]
                        /\ Goto(c, IF open = {i} THEN "save" ELSE "enroll")
  BY DEF SignKey, KeyUsed
<1>3. /\ pc'[c] = (IF open = {i} THEN "save" ELSE "enroll")
      /\ \A d \in Cmds : d # c => pc'[d] = pc[d]
  BY <1>2, Goes DEF IInv, Steps
<1>4. /\ \A d \in Cmds : d # c => enrolled'[d] = enrolled[d]
      /\ \A j \in 1..MaxId : enrolled'[c][j] = IF j = i THEN cred[Vid(c)] ELSE enrolled[c][j]
  BY <1>2 DEF IInv, TypeInv, TypeOK
<1>5. ToSeal(c, loaded[c].slots) \subseteq 1..MaxId
  BY <1>1, ToSealType
<1>6. ToSeal(c, loaded[c].slots)' = ToSeal(c, loaded[c].slots) /\ Vid(c)' = Vid(c)
  BY <1>1 DEF ToSeal, KeptSlots, Kept, Vid
<1>7. \A key, v : Alive(key, v)' = Alive(key, v)
  BY <1>1 DEF Alive
<1>8. Alive(cred[Vid(c)], Vid(c))
  BY <1>1 DEF Alive
<1>9. pc'[c] = "save" => \A j \in ToSeal(c, loaded[c].slots) : enrolled'[c][j] # 0
  BY <1>1, <1>3, <1>4, <1>5
<1>10. TurnCmd(c)'
  BY <1>1, <1>3, <1>4, <1>6, <1>7, <1>8, <1>9 DEF TurnInv, TurnCmd
<1>11. HelloInv'
  BY <1>1 DEF TurnInv, HelloInv, HelloSlots, Alive
<1> QED
  BY <1>1, <1>3, <1>4, <1>10, <1>11, OthersRest DEF TurnInv, Active

(* A step after which command c does nothing more with keys and slots. *)
LEMMA TurnEnds ==
  ASSUME TurnInv, NEW c \in Cmds, Active(c), UNCHANGED <<enrolled, vault, cred, lost>>,
         pc'[c] \in {"show", "done", "crashed"}, \A d \in Cmds : d # c => pc'[d] = pc[d]
  PROVE  TurnInv'
<1>1. TurnCmd(c)'
  BY DEF TurnCmd
<1>2. HelloInv'
  BY DEF TurnInv, HelloInv, HelloSlots, Alive
<1> QED
  BY <1>1, <1>2, OthersRest DEF TurnInv

(* A key that is sealed into a slot of the vault that is saved is alive. *)
LEMMA SavedKeysLive ==
  ASSUME IInv, TurnInv, NEW c \in Cmds, pc[c] = "save", Writable(c),
         NEW x \in HelloSlots(NextSlots(c))
  PROVE  Alive(x.key, Vid(c))
<1> DEFINE S == loaded[c].slots
<1>1. CmdInv(c) /\ TurnCmd(c) /\ loaded[c].gen = vault.gen /\ task[c] \in Task /\ S \in SUBSET Slot
  BY DEF IInv, LoadInv, TurnInv, TurnCmd, TypeInv, TypeOK, Vault
<1>2. ASSUME NEW i \in ToSeal(c, S) PROVE Alive(enrolled[c][i], Vid(c))
  BY <1>1, <1>2, ToSealType DEF TurnCmd
<1>3. ASSUME task[c].op # "init", NEW y \in HelloSlots(S) PROVE Alive(y.key, Vid(c))
  <2>1. loaded[c] = vault
    BY <1>1, <1>3 DEF CmdInv
  <2> QED
    BY <1>3, <2>1 DEF TurnInv, HelloInv, Vid
<1>4. CASE task[c].op = "init"
  <2>1. S = {}
    BY <1>1, <1>4 DEF CmdInv, NoVault
  <2>2. PICK i \in ToSeal(c, S) : x = HelloSlot(c, i, "hello", enrolled[c][i], c)
    BY <1>4, <2>1 DEF NextSlots, InitSlots, HelloSlots, PassSlot
  <2> QED
    BY <1>2, <2>2 DEF HelloSlot
<1>5. CASE task[c].op = "rekey"
  <2>1. PICK y \in S : x = Resealed(c, y)
    BY <1>5 DEF NextSlots, KeptSlots, HelloSlots
  <2>2. y.kind = "hello" /\ x.key = enrolled[c][y.id]
    BY <2>1 DEF Resealed, HelloSlot, PassSlot, HelloSlots
  <2>3. y.id \in ToSeal(c, S)
    BY <1>5, <2>1, <2>2 DEF ToSeal, Ids, HelloSlots
  <2> QED
    BY <1>2, <2>2, <2>3
<1>6. CASE task[c].op \notin {"init", "rekey"}
  <2>1. CASE x \in S
    BY <1>3, <1>6, <2>1 DEF HelloSlots
  <2>2. CASE x \notin S
    <3>1. task[c].op # "rm" /\ x = NewSlot(c, KeptSlots(c, S))
      BY <1>6, <2>2 DEF NextSlots, KeptSlots, HelloSlots
    <3>2. x.key = enrolled[c][FreeId(KeptSlots(c, S))] /\ task[c].kind = "hello"
      BY <3>1 DEF NewSlot, HelloSlot, PassSlot, HelloSlots
    <3>3. FreeId(KeptSlots(c, S)) \in ToSeal(c, S)
      BY <1>6, <3>2 DEF ToSeal
    <3> QED
      BY <1>2, <3>2, <3>3
  <2> QED
    BY <2>1, <2>2
<1> QED
  BY <1>4, <1>5, <1>6

LEMMA TurnSave ==
  ASSUME IInv, TurnInv, NEW c \in Cmds, Save(c)
  PROVE  TurnInv'
<1>1. pc[c] = "save" /\ UNCHANGED <<task, loaded, newsec, enrolled, cred, keys, lost>>
  BY DEF Save
<1>2. CASE Writable(c) /\ vault' = NextVault(c) /\ Goto(c, "saved")
  <2>1. pc'[c] = "saved" /\ \A d \in Cmds : d # c => pc'[d] = pc[d]
    BY <1>2, Goes DEF IInv, Steps
  <2>2. NextVault(c)' = NextVault(c)
    BY <1>1, SameSlots DEF NextVault, Vid
  <2>3. TurnCmd(c)'
    BY <1>2, <2>1, <2>2 DEF TurnCmd
  <2>4. HelloInv'
    BY <1>1, <1>2, SavedKeysLive DEF HelloInv, HelloSlots, Alive, NextVault
  <2> QED
    BY <1>1, <2>1, <2>3, <2>4, OthersRest DEF TurnInv, Active
<1>3. CASE UNCHANGED vault /\ Goto(c, "done")
  <2>1. pc'[c] = "done" /\ \A d \in Cmds : d # c => pc'[d] = pc[d]
    BY <1>3, Goes DEF IInv, Steps
  <2> QED
    BY <1>1, <1>3, <2>1, TurnEnds DEF Active
<1> QED
  BY <1>2, <1>3 DEF Save

LEMMA TurnDestroy ==
  ASSUME IInv, TurnInv, NEW c \in Cmds, Destroy(c)
  PROVE  TurnInv'
<1>1. /\ pc[c] = "saved" /\ UNCHANGED <<enrolled, vault, lost>>
      /\ Goto(c, IF task[c].op \in {"init", "rekey"} THEN "show" ELSE "done")
  BY DEF Destroy
<1>2. pc'[c] \in {"show", "done"} /\ \A d \in Cmds : d # c => pc'[d] = pc[d]
  BY <1>1, Goes DEF IInv, Steps
<1>3. CASE UNCHANGED cred
  BY <1>1, <1>2, <1>3, TurnEnds DEF Active
<1>4. CASE ~CredentialShared(c)
  <2>1. HelloSlots(vault.slots) = {}
    BY <1>1, <1>4 DEF TurnInv, TurnCmd, NextVault, CredentialShared
  <2>2. HelloInv'
    BY <1>1, <2>1 DEF HelloInv, HelloSlots
  <2>3. TurnCmd(c)'
    BY <1>2 DEF TurnCmd
  <2> QED
    BY <1>1, <1>2, <2>2, <2>3, OthersRest DEF TurnInv, Active
<1> QED
  BY <1>3, <1>4 DEF Destroy

LEMMA TurnPinReset ==
  ASSUME IInv, TurnInv, PinReset
  PROVE  TurnInv'
<1>1. /\ UNCHANGED <<pc, task, loaded, newsec, enrolled, vault, keys>>
      /\ lost' = lost \cup ({cred[v] : v \in Cmds} \ {0})
  BY DEF PinReset
<1>2. \A key : \A v \in Cmds : Alive(key, v) => Alive(key, v)'
  BY <1>1 DEF Alive
<1>3. HelloInv'
  <2>1. ASSUME NEW x \in HelloSlots(vault.slots) PROVE Alive(x.key, vault.vid)'
    <3>1. vault.vid \in Cmds
      BY <2>1 DEF IInv, VaultInv, NoVault, Good, HelloSlots
    <3> QED
      BY <1>1, <1>2, <3>1 DEF TurnInv, HelloInv
  <2> QED
    BY <1>1, <2>1 DEF HelloInv, HelloSlots
<1>4. ASSUME NEW c \in Cmds PROVE TurnCmd(c)'
  <2>1. pc[c] \in {"enroll", "sign", "save"} => Vid(c) \in Cmds
    BY DEF IInv, LoadInv, CmdInv, Good, Vid
  <2>2. NextVault(c)' = NextVault(c)
    BY <1>1, SameSlots DEF NextVault, Vid
  <2>3. ToSeal(c, loaded[c].slots)' = ToSeal(c, loaded[c].slots) /\ Vid(c)' = Vid(c)
    BY <1>1 DEF ToSeal, KeptSlots, Kept, Vid
  <2>4. TurnCmd(c)
    BY DEF TurnInv
  <2> QED
    BY <1>1, <1>2, <2>1, <2>2, <2>3, <2>4 DEF TurnCmd
<1> QED
  BY <1>1, <1>3, <1>4 DEF TurnInv, AloneInv, Active

LEMMA TurnStep ==
  ASSUME IsFiniteSet(Cmds), MaxActive = 1, IInv, TurnInv, [Next]_vars
  PROVE  TurnInv'
<1>1. CASE UNCHANGED vars
  <2>1. UNCHANGED <<pc, task, loaded, newsec, enrolled, vault, cred, lost>>
    BY <1>1 DEF vars
  <2>2. ASSUME NEW c \in Cmds PROVE TurnCmd(c)'
    <3>1. NextVault(c)' = NextVault(c)
      BY <2>1, SameSlots DEF NextVault, Vid
    <3>2. ToSeal(c, loaded[c].slots)' = ToSeal(c, loaded[c].slots) /\ Vid(c)' = Vid(c)
      BY <2>1 DEF ToSeal, KeptSlots, Kept, Vid
    <3> QED
      BY <2>1, <3>1, <3>2 DEF TurnInv, TurnCmd, Alive
  <2> QED
    BY <2>1, <2>2 DEF TurnInv, AloneInv, HelloInv, HelloSlots, Alive, Active
<1>2. ASSUME NEW c \in Cmds, GiveUp(c) \/ Show(c) \/ Crash(c) PROVE TurnInv'
  <2>1. Active(c) /\ UNCHANGED <<enrolled, vault, cred, lost>>
    BY <1>2 DEF GiveUp, Show, Crash, Active
  <2>2. pc'[c] \in {"done", "crashed"} /\ \A d \in Cmds : d # c => pc'[d] = pc[d]
    BY <1>2, Goes DEF GiveUp, Show, Crash, IInv, Steps
  <2> QED
    BY <2>1, <2>2, TurnEnds
<1> QED
  BY <1>1, <1>2, TurnStart, TurnUnlock, TurnOpen, TurnOpenKey, TurnSignKey, TurnSave,
     TurnDestroy, TurnPinReset DEF Next, Done

(* While commands run one after the other, wcm never destroys a Hello key   *)
(* that a saved slot needs (HelloKeysOutliveSlots).                         *)
THEOREM HelloKeysStay ==
  ASSUME IsFiniteSet(Cmds), MaxActive = 1
  PROVE  Spec => []HelloKeysOutliveSlots
<1>1. Init => TurnInv
  BY TurnInit
<1>2. IInv /\ TurnInv /\ [Next]_vars => TurnInv'
  BY TurnStep
<1>3. TurnInv => HelloKeysOutliveSlots
  BY DEF TurnInv, HelloInv, Alive, HelloKeysOutliveSlots
<1> QED
  BY <1>1, <1>2, <1>3, Invariant, PTL DEF Spec
=============================================================================
