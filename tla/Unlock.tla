------------------------------- MODULE Unlock -------------------------------
(***************************************************************************)
(* How a command gets at the key of the vault: the secret in WCM_PASSPHRASE *)
(* and `--slot` (wcm-cli context.rs, prompt.rs), the loop over the key     *)
(* slots (wcm-core vault/mod.rs, slot/mod.rs), the passphrase backend and  *)
(* the Windows Hello backend with its status codes, its one retry and its  *)
(* verified signature (wcm-hello backend.rs, kcm.rs).  `recover` and       *)
(* `slot add --hello` go on to enrol a Hello key.                          *)
(*                                                                         *)
(* While a command waits, the user may remove the PIN, other commands may  *)
(* create the Hello key or replace the vault file, and any call into       *)
(* Windows may fail.  KeySlots has what is done with the key afterwards.   *)
(***************************************************************************)
EXTENDS Naturals, Sequences

CONSTANTS
  Cmds,        \* the wcm processes
  Files,       \* the vault files that other commands may leave, with their slots
  Options,     \* the command lines and surroundings of the commands
  Secrets,     \* what a user may type or put into WCM_PASSPHRASE
  Keys,        \* bound on the Hello keys
  MaxChanges,  \* bound on PIN resets and replaced files together
  MaxFailures  \* bound on the failing calls into Windows, per command

(* A Hello slot names the key (its SPKI) that must sign its challenge; both *)
(* kinds wrap the key `dek`.                                                *)
Slot == [label : STRING, kind : {"hello", "passphrase"}, sec : Secrets \cup {"unset"},
         key : 0..Keys, dek : Nat]

(* What a command was given: `--slot`, WCM_PASSPHRASE, `--no-input`, and    *)
(* whether it can show a Hello prompt (Windows, a desktop session) and undo *)
(* the DPAPI envelope (the same Windows profile).                           *)
Option == [slot : STRING, env : Secrets \cup {"unset", "malformed"}, noInput : BOOLEAN,
           hello : BOOLEAN, profile : BOOLEAN, enroll : BOOLEAN, recover : BOOLEAN]

Labels(slots) == {slots[i].label : i \in DOMAIN slots}
IsPassphrase(s) == s.kind = "passphrase"
IsHello(s) == s.kind = "hello"

(* Every vault has a passphrase slot (KeySlots!RecoverySlotRemains), its    *)
(* slots wrap the key of its body (SlotsOpenTheBody) and have different     *)
(* labels (HeadersAreValid).  Another vault file may use a label for a slot *)
(* of the other kind: `slot rm`, then `slot add --label` make such a file.  *)
ASSUME UnlockConstants ==
  /\ \A f \in Files :
       /\ f \in [slots : Seq(Slot), dek : Nat]
       /\ \E i \in DOMAIN f.slots : IsPassphrase(f.slots[i])
       /\ \A i \in DOMAIN f.slots : f.slots[i].dek = f.dek /\ f.slots[i].label # "none"
       /\ \A i, j \in DOMAIN f.slots : f.slots[i].label = f.slots[j].label => i = j
  /\ Options \subseteq Option
  /\ {"unset", "malformed"} \cap Secrets = {}
  /\ Keys \in Nat \ {0} /\ MaxChanges \in Nat /\ MaxFailures \in Nat

VARIABLES
  cmd,      \* cmd[c]: the progress of command c
  file,     \* the vault file: its slots in order and the key of its body
  cred,     \* the Hello key under the credential name of the vault, 0 if none
  keys,     \* the number of Hello keys created so far
  changes   \* PIN resets and replaced files so far

vars == <<cmd, file, cred, keys, changes>>

-----------------------------------------------------------------------------
NoOption == [slot |-> "none", env |-> "unset", noInput |-> TRUE, hello |-> FALSE,
             profile |-> FALSE, enroll |-> FALSE, recover |-> FALSE]

Idle ==
  [pc |-> "new", opt |-> NoOption, header |-> <<>>, at |-> 0, queue |-> <<>>,
   skipped |-> {}, dek |-> 0,
   enrolling |-> FALSE, tries |-> 0, spki |-> 0, signer |-> 0,
   prompts |-> 0, asked |-> 0, failures |-> 0,
   refused |-> FALSE, result |-> "none"]

Init ==
  /\ cmd = [c \in Cmds |-> Idle]
  /\ file \in Files
  /\ keys = 1 /\ cred \in {0, 1}
  /\ changes = 0

Become(c, r) == cmd' = [cmd EXCEPT ![c] = r]
At(c, step) == cmd[c].pc = step

(* Mutant of Ended: the error is swallowed. *)
EndedSilently(r, e) ==
  [r EXCEPT !.pc = "ended", !.header = <<>>, !.at = 0, !.queue = <<>>, !.skipped = {}, !.tries = 0]

Ended(r, e) ==
  [r EXCEPT !.pc = "ended", !.result = e, !.header = <<>>, !.at = 0, !.queue = <<>>,
            !.skipped = {}, !.tries = 0]
Goto(r, step) == [r EXCEPT !.pc = step]

HasEnv(r) == r.opt.env \in Secrets

(* Ctx::unlock tries WCM_PASSPHRASE on each passphrase slot in turn, unless *)
(* `--slot` says which; `recover` does not.                                 *)
EnvLoop(r) == ~r.opt.recover /\ r.opt.slot = "none" /\ HasEnv(r)

(* The loop over the passphrase slots of the header that was read: the      *)
(* place of the one after place i, 0 after the last.                        *)
Ahead(slots, i) == {j \in DOMAIN slots : i < j /\ IsPassphrase(slots[j])}
NextPlace(slots, i) ==
  IF Ahead(slots, i) = {} THEN 0
  ELSE CHOOSE j \in Ahead(slots, i) : \A k \in Ahead(slots, i) : j <= k

(* Another slot of that loop is tried. *)
GoesOn(r, e) ==
  e = "Integrity" /\ ~r.enrolling /\ EnvLoop(r) /\ NextPlace(r.header, r.at) # 0

(* Mutant of Failed: a passphrase that does not fit its slot is final. *)
FailedAtOnce(r, e) == Ended(r, e)

(* Mutant of Failed: the next passphrase slot is never come to. *)
FailedAgain(r, e) == IF GoesOn(r, e) THEN Goto(r, "order") ELSE Ended(r, e)

(* How one call of Vault::unlock (or, later, the enrolment) ends in an      *)
(* error: in the loop over passphrase slots, a wrong passphrase means "not  *)
(* this slot".                                                              *)
Failed(r, e) ==
  IF GoesOn(r, e) THEN [r EXCEPT !.at = NextPlace(r.header, r.at), !.pc = "order"]
  ELSE Ended(r, e)

(* The slot at the head of the queue joins the list of the skipped ones.   *)
Skip(r) ==
  [r EXCEPT !.skipped = @ \cup {Head(r.queue)}, !.queue = Tail(@), !.pc = "try"]

(* Mutant of SlotFailed: a dismissed prompt is "not this slot" as well. *)
SlotFailedAnyWay(r, e) ==
  IF e \in {"AuthUnavailable", "AuthCancelled"} /\ ~r.enrolling
  THEN Skip(r)
  ELSE Failed(r, e)

(* A slot whose backend is unavailable is skipped; any other error ends     *)
(* Vault::unlock.                                                           *)
SlotFailed(r, e) ==
  IF e = "AuthUnavailable" /\ ~r.enrolling
  THEN Skip(r)
  ELSE Failed(r, e)

(* Mutant of MapStatus: choosing a password is taken for a missing key. *)
MapStatusPrefers(st) ==
  IF st = "Success" THEN "ok"
  ELSE IF st \in {"UserCanceled", "ErrorCancelled"} THEN "AuthCancelled"
  ELSE "AuthUnavailable"

(* KcmStatus and HRESULTs as errors (map_status, win_err). *)
MapStatus(st) ==
  IF st = "Success" THEN "ok"
  ELSE IF st \in {"UserCanceled", "UserPrefersPassword", "ErrorCancelled"} THEN "AuthCancelled"
  ELSE "AuthUnavailable"

Refusals == {"UserCanceled", "UserPrefersPassword", "ErrorCancelled"}
Failures == {"SecurityDeviceLocked", "UnknownError", "Transient"}

(* The record of a command whose call into Windows came to status st. *)
Noted(r, st) ==
  [r EXCEPT !.refused  = @ \/ st \in Refusals,
            !.failures = IF st \in Failures THEN @ + 1 ELSE @]

MayFail(r) == r.failures < MaxFailures

-----------------------------------------------------------------------------
(* The order of the slots *)

Begin(c) ==
  /\ At(c, "new")
  /\ \E o \in Options : Become(c, [Idle EXCEPT !.opt = o, !.pc = "read"])
  /\ UNCHANGED <<file, cred, keys, changes>>

(* The label that a call of Vault::unlock is to prefer, `none` if none.     *)
Preferred(r) ==
  IF r.opt.slot # "none" THEN r.opt.slot
  ELSE IF r.opt.recover /\ "recovery" \in Labels(r.header) THEN "recovery"
  ELSE IF r.at # 0 THEN r.header[r.at].label
  ELSE "none"

(* Ctx::unlock and recover::run read the header and the environment; a      *)
(* malformed recovery key in WCM_PASSPHRASE is refused by the former.       *)
ReadHeader(c) ==
  /\ At(c, "read")
  /\ LET r == cmd[c]
     IN  IF r.opt.env = "malformed" /\ ~r.opt.recover
         THEN Become(c, Ended(r, "Invalid"))
         ELSE Become(c, [r EXCEPT !.pc = "order", !.header = file.slots,
                            !.at = IF EnvLoop(r) THEN NextPlace(file.slots, 0) ELSE 0])
  /\ UNCHANGED <<file, cred, keys, changes>>

(* Mutant of Ordered: `--slot` excludes the others. *)
OrderedOnly(slots, i) == <<slots[i]>>

(* The slot at place i comes first, then the others as they are.            *)
Ordered(slots, i) ==
  [j \in DOMAIN slots |-> slots[IF j = 1 THEN i ELSE IF j <= i THEN j - 1 ELSE j]]

Queued(r, slots) == [r EXCEPT !.queue = slots, !.skipped = {}, !.pc = "try"]

(* Vault::unlock reads the header again and puts the preferred slot first. *)
Order(c) ==
  /\ At(c, "order")
  /\ LET r == cmd[c]
         label == Preferred(r)
     IN  \/ /\ label = "none"
            /\ Become(c, Queued(r, file.slots))
         \/ /\ label # "none" /\ label \notin Labels(file.slots)
            /\ Become(c, Failed(r, "Invalid"))
         \/ /\ label # "none"
            /\ \E i \in DOMAIN file.slots :
                 /\ file.slots[i].label = label
                 /\ Become(c, Queued(r, Ordered(file.slots, i)))
  /\ UNCHANGED <<file, cred, keys, changes>>

-----------------------------------------------------------------------------
(* One slot *)

(* The slot at the head of the queue gives its key. *)
Opened(r) == [r EXCEPT !.dek = Head(r.queue).dek, !.pc = "body"]

(* The passphrase backend with a secret: the slot's AEAD tells whether it   *)
(* fits.                                                                    *)
WithSecret(r, secret) ==
  IF secret = Head(r.queue).sec
  THEN Opened(r)
  ELSE Failed(r, "Integrity")

(* Mutant of CanPrompt: `--no-input` is not looked at. *)
CanPromptAlways(r) == r.opt.hello

(* HelloBackend::check_session; UnsupportedBackend off Windows. *)
CanPrompt(r) == r.opt.hello /\ ~r.opt.noInput

Try(c) ==
  /\ At(c, "try")
  /\ LET r == cmd[c]
     IN  Become(c, IF r.queue = <<>> THEN Ended(r, "AuthUnavailable")
                   ELSE IF IsHello(Head(r.queue))
                        THEN IF CanPrompt(r) THEN Goto(r, "openkey")
                             ELSE SlotFailed(r, "AuthUnavailable")
                   ELSE IF HasEnv(r) THEN WithSecret(r, r.opt.env)
                   ELSE IF r.opt.noInput THEN SlotFailed(r, "AuthUnavailable")
                   ELSE Goto(r, "ask"))
  /\ UNCHANGED <<file, cred, keys, changes>>

(* The prompter looks at WCM_PASSPHRASE again, then asks; what looks like a *)
(* recovery key and is none is refused.  Reading the terminal may fail.     *)
Answer(c) ==
  /\ At(c, "ask")
  /\ LET r == [cmd[c] EXCEPT !.asked = @ + 1]
     IN  IF r.opt.env = "malformed"
         THEN Become(c, Failed(cmd[c], "Invalid"))
         ELSE \/ \E typed \in Secrets : Become(c, WithSecret(r, typed))
              \/ \E e \in {"Invalid", "Io"} : Become(c, Failed(r, e))
  /\ UNCHANGED <<file, cred, keys, changes>>

(* KeyCredentialManager.OpenAsync, without a prompt.  An unlock may not     *)
(* create the key, an enrolment goes on to do so.  The availability checks  *)
(* of an enrolment fail in the same way, just before it.                    *)
OpenKey(c) ==
  /\ At(c, "openkey")
  /\ LET r == cmd[c]
     IN  \/ /\ cred # 0
            /\ Become(c, [r EXCEPT !.pc = IF r.enrolling THEN "pubkey" ELSE "sign", !.tries = 0])
         \/ /\ cred = 0
            /\ Become(c, IF r.enrolling THEN [r EXCEPT !.pc = "create", !.tries = 0]
                         ELSE SlotFailed(r, MapStatus("NotFound")))
         \/ /\ MayFail(r)
            /\ \E st \in Failures : Become(c, SlotFailed(Noted(r, st), MapStatus(st)))
  /\ UNCHANGED <<file, cred, keys, changes>>

(* with_retry: a transient HRESULT is tried again, once. *)
Retried(r) == [Noted(r, "Transient") EXCEPT !.tries = 1]

(* RequestCreateAsync with FailIfExists leaves an existing key alone. *)
Created == IF cred = 0 THEN keys + 1 ELSE cred

(* RequestCreateAsync prompts; a key that exists meanwhile is used.  A call *)
(* that fails with a transient error may have created the key all the same. *)
CreateKey(c) ==
  /\ At(c, "create")
  /\ keys < Keys
  /\ LET r == [cmd[c] EXCEPT !.prompts = @ + 1]
     IN  \/ /\ Become(c, Goto(r, "pubkey"))
            /\ cred' = Created
         \/ /\ \E st \in Refusals : Become(c, Failed(Noted(r, st), MapStatus(st)))
            /\ UNCHANGED cred
         \/ /\ MayFail(r)
            /\ \E st \in Failures :
                 Become(c, IF st = "Transient" /\ r.tries = 0 THEN Retried(r)
                           ELSE Failed(Noted(r, st), MapStatus(st)))
            /\ cred' \in {cred, Created}
  /\ keys' = IF cred' > keys THEN cred' ELSE keys
  /\ UNCHANGED <<file, changes>>

(* The public key is read by a call of its own, which is not tried again. *)
PublicKey(c) ==
  /\ At(c, "pubkey")
  /\ LET r == cmd[c]
     IN  \/ cred = 0 /\ Become(c, Failed(r, "AuthUnavailable"))
         \/ cred # 0 /\ Become(c, [r EXCEPT !.spki = cred, !.pc = "sign", !.tries = 0])
         \/ /\ MayFail(r)
            /\ \E st \in Failures : Become(c, Failed(Noted(r, st), MapStatus(st)))
  /\ UNCHANGED <<file, cred, keys, changes>>

(* The key whose signature is expected. *)
Expected(r) == IF r.enrolling THEN r.spki ELSE Head(r.queue).key

(* Mutant of Verified: the signature is not checked against the public key. *)
VerifiedNot(r) == TRUE

(* verify_hello_signature: made by the key of the slot? *)
Verified(r) == cred = Expected(r)

(* RequestSignAsync opens the credential again and prompts. *)
Sign(c) ==
  /\ At(c, "sign")
  /\ LET r == [cmd[c] EXCEPT !.prompts = @ + 1]
     IN  \/ cred = 0 /\ Become(c, SlotFailed(cmd[c], "AuthUnavailable"))
         \/ /\ cred # 0
            /\ Become(c, IF Verified(r)
                         THEN [r EXCEPT !.signer = cred,
                                        !.pc = IF r.enrolling THEN "seal" ELSE "unwrap"]
                         ELSE SlotFailed(r, "Integrity"))
         \/ /\ cred # 0
            /\ \E st \in Refusals : Become(c, SlotFailed(Noted(r, st), MapStatus(st)))
         \/ /\ cred # 0 /\ MayFail(r)
            /\ \E st \in Failures :
                 Become(c, IF st = "Transient" /\ r.tries = 0 THEN Retried(r)
                           ELSE SlotFailed(Noted(r, st), MapStatus(st)))
  /\ UNCHANGED <<file, cred, keys, changes>>

(* The DPAPI envelope of a Hello slot opens in the profile it was made in. *)
Unwrap(c) ==
  /\ At(c, "unwrap")
  /\ LET r == cmd[c]
     IN  Become(c, IF r.opt.profile
                   THEN Opened(r)
                   ELSE SlotFailed(r, "AuthUnavailable"))
  /\ UNCHANGED <<file, cred, keys, changes>>

(* open_with_dek reads the file a third time; then an enrolment begins,     *)
(* which checks the session first.                                          *)
ReadBody(c) ==
  /\ At(c, "body")
  /\ LET r == cmd[c]
         e == [r EXCEPT !.enrolling = TRUE, !.header = <<>>, !.at = 0, !.queue = <<>>,
                        !.skipped = {}]
     IN  Become(c, IF r.dek # file.dek THEN Failed(r, "Integrity")
                   ELSE IF ~r.opt.enroll THEN Ended(r, "ok")
                   ELSE IF CanPrompt(r) THEN Goto(e, "openkey")
                   ELSE Ended(e, "AuthUnavailable"))
  /\ UNCHANGED <<file, cred, keys, changes>>

(* The attestation is optional; then seal_slot wraps the key, for which the *)
(* DPAPI envelope may fail.                                                 *)
Seal(c) ==
  /\ At(c, "seal")
  /\ \/ Become(c, Ended(cmd[c], "ok"))
     \/ Become(c, Failed(cmd[c], "AuthUnavailable"))
  /\ UNCHANGED <<file, cred, keys, changes>>

-----------------------------------------------------------------------------
(* The surroundings *)

(* The PIN is removed, or the credential destroyed by another command. *)
PinReset ==
  /\ changes < MaxChanges
  /\ changes' = changes + 1
  /\ cred' = 0
  /\ UNCHANGED <<cmd, file, keys>>

(* Another command saves the vault. *)
Replace ==
  /\ changes < MaxChanges
  /\ changes' = changes + 1
  /\ file' \in Files
  /\ UNCHANGED <<cmd, cred, keys>>

Prompting == {"ask", "create", "sign"}

(* What a command does without its user. *)
Work(c) ==
  \/ ReadHeader(c) \/ Order(c) \/ Try(c) \/ OpenKey(c) \/ PublicKey(c)
  \/ Unwrap(c) \/ ReadBody(c) \/ Seal(c)

Done == (\A c \in Cmds : cmd[c].pc \in {"new", "ended"} \/ keys = Keys) /\ UNCHANGED vars

Next ==
  \/ \E c \in Cmds : Begin(c) \/ Work(c) \/ Answer(c) \/ CreateKey(c) \/ Sign(c)
  \/ PinReset \/ Replace
  \/ Done

(* A process that does not wait for its user goes on running. *)
Spec == Init /\ [][Next]_vars /\ \A c \in Cmds : WF_vars(Work(c))

-----------------------------------------------------------------------------
(* Properties *)

Results == {"none", "ok", "Invalid", "Io", "Integrity", "AuthCancelled", "AuthUnavailable"}

Command ==
  [pc : {"new", "read", "order", "try", "ask", "openkey", "create", "pubkey", "sign", "unwrap",
         "body", "seal", "ended"},
   opt : Options \cup {NoOption}, header : Seq(Slot), at : Nat, queue : Seq(Slot),
   skipped : SUBSET Slot, dek : Nat, enrolling : BOOLEAN, tries : {0, 1}, spki : 0..Keys, signer : 0..Keys,
   prompts : Nat, asked : Nat, failures : Nat, refused : BOOLEAN, result : Results]

TypeOK ==
  /\ file \in Files
  /\ keys \in 1..Keys /\ cred \in 0..keys /\ changes \in 0..MaxChanges
  /\ cmd \in [Cmds -> Command]
  /\ \A c \in Cmds : (cmd[c].result # "none") = (cmd[c].pc = "ended")

Started(c) == cmd[c].pc # "new"

(* The label of the passphrase slot that an unlock prefers was given to a   *)
(* Hello slot after the header had been read.                               *)
Relabelled(r) ==
  \E s \in r.skipped \cup {r.queue[i] : i \in DOMAIN r.queue} :
    IsHello(s) /\ s.label = Preferred(r)

(* With `--no-input` nothing is ever asked, neither by the prompter nor by  *)
(* Windows Hello, whatever slots are unavailable and whatever changes       *)
(* meanwhile, also in the enrolment after the unlock.  A secret in          *)
(* WCM_PASSPHRASE is never asked for again, and Ctx::unlock, which tries it *)
(* on the passphrase slots, shows a Windows Hello prompt in one case only:  *)
(* another command has given the label of such a slot to a Hello slot.      *)
(* (src/README.md:181 says "used without prompting" of it in any case.)     *)
SilenceIsKept ==
  \A c \in Cmds : LET r == cmd[c] IN Started(c) =>
    /\ r.opt.noInput => r.prompts = 0 /\ r.asked = 0
    /\ HasEnv(r) => r.asked = 0
    /\ EnvLoop(r) /\ ~r.enrolling /\ r.pc \in Prompting => Relabelled(r)

(* WCM_PASSPHRASE may hold the secret of any passphrase slot: as long as    *)
(* the file does not change, it opens the vault if it fits one of them.     *)
EnvPassphraseOpens ==
  \A c \in Cmds :
    /\ cmd[c].pc = "ended" /\ EnvLoop(cmd[c]) /\ ~cmd[c].opt.enroll /\ changes = 0
    /\ \E i \in DOMAIN file.slots :
         IsPassphrase(file.slots[i]) /\ file.slots[i].sec = cmd[c].opt.env
    => cmd[c].result = "ok"

(* An unlock gives up with "no usable key slot" only when prompting is      *)
(* disabled: however Windows Hello fails, the loop comes to a slot that     *)
(* asks for the recovery key or a passphrase.  That is what the code does:  *)
(* docs/EXIT_CODES.md:21, docs/WSL.md:208-211 and the checklist of tests    *)
(* (docs/TESTER_CHECKLIST.md:147) expect this error also of a session that  *)
(* cannot show Windows Hello, and of a Hello key that is gone.              *)
RecoverySlotIsReached ==
  \A c \in Cmds : cmd[c].result = "AuthUnavailable" /\ ~cmd[c].enrolling
                    => cmd[c].opt.noInput

(* A user who dismisses the Windows Hello dialog is not asked again by this *)
(* command, neither for another slot nor for a passphrase.                  *)
RefusalIsFinal ==
  [][\A c \in Cmds : cmd[c].refused => cmd'[c].prompts = cmd[c].prompts
                                         /\ cmd'[c].asked = cmd[c].asked]_vars

(* A command shows one Windows Hello prompt, and two more if it enrols a    *)
(* key: as long as no call fails, also with several Hello slots and with a  *)
(* file or a Hello key that changes meanwhile.  (src/README.md:107 says     *)
(* "exactly one" of any command, and :132 of `slot add --hello`.)  The loop *)
(* over the slots for WCM_PASSPHRASE is left out: it may prompt once for    *)
(* every label that has been given to a Hello slot.                         *)
OneHelloPrompt ==
  \A c \in Cmds : Started(c) /\ cmd[c].failures = 0 /\ cmd[c].opt.profile /\ ~EnvLoop(cmd[c])
                    => cmd[c].prompts <= 1 + (IF cmd[c].enrolling THEN 2 ELSE 0)

(* A sealed Hello slot names the key that signed its challenge: the public  *)
(* key is read by one call and the signature made by another, and the key   *)
(* may have been replaced in between.                                       *)
SealedSlotsOpen ==
  \A c \in Cmds : cmd[c].result = "ok" /\ cmd[c].opt.enroll => cmd[c].signer = cmd[c].spki

(* A command comes to an end or to a prompt: it does not go round in its    *)
(* slots, retries and repeated unlocks.                                     *)
UnlockProgress ==
  \A c \in Cmds : cmd[c].pc = "read" ~> cmd[c].pc \in Prompting \cup {"ended"}
=============================================================================
