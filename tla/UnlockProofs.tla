---------------------------- MODULE UnlockProofs -----------------------------
(***************************************************************************)
(* Proofs about Unlock, for any number of commands, any vaults, options    *)
(* and secrets, and any number of changes and failures.                    *)
(***************************************************************************)
EXTENDS Unlock, TLAPS, WellFoundedInduction

-----------------------------------------------------------------------------
(* Records *)

Fields == {"pc", "opt", "header", "at", "queue", "skipped", "dek", "enrolling", "tries", "spki",
           "signer", "prompts", "asked", "failures", "refused", "result"}

(* q is p but for the fields in S.                                          *)
Same(p, q, S) == \A x \in Fields \ S : q[x] = p[x]

LEMMA IsRecord ==
  ASSUME NEW p \in Command
  PROVE  p = [x \in Fields |-> p[x]]
BY DEF Command, Fields

(* A record with the fields of a command is a command if they have their    *)
(* types.                                                                   *)
LEMMA IsCommand ==
  ASSUME NEW q, q = [x \in Fields |-> q[x]],
         q.pc \in {"new", "read", "order", "try", "ask", "openkey", "create", "pubkey", "sign",
                   "unwrap", "body", "seal", "ended"},
         q.opt \in Options \cup {NoOption}, q.header \in Seq(Slot), q.at \in Nat,
         q.queue \in Seq(Slot), q.skipped \in SUBSET Slot, q.dek \in Nat, q.enrolling \in BOOLEAN, q.tries \in {0, 1},
         q.spki \in 0..Keys, q.signer \in 0..Keys, q.prompts \in Nat, q.asked \in Nat,
         q.failures \in Nat, q.refused \in BOOLEAN, q.result \in Results
  PROVE  q \in Command
BY DEF Fields, Command

LEMMA FieldTypes ==
  ASSUME NEW p \in Command
  PROVE  /\ p.pc \in {"new", "read", "order", "try", "ask", "openkey", "create", "pubkey", "sign",
                      "unwrap", "body", "seal", "ended"}
         /\ p.opt \in Options \cup {NoOption} /\ p.header \in Seq(Slot) /\ p.at \in Nat
         /\ p.queue \in Seq(Slot) /\ p.skipped \in SUBSET Slot /\ p.dek \in Nat /\ p.enrolling \in BOOLEAN /\ p.tries \in {0, 1}
         /\ p.spki \in 0..Keys /\ p.signer \in 0..Keys /\ p.prompts \in Nat /\ p.asked \in Nat
         /\ p.failures \in Nat /\ p.refused \in BOOLEAN /\ p.result \in Results
BY DEF Command

Errors == {"Invalid", "Io", "Integrity", "AuthCancelled", "AuthUnavailable"}

LEMMA EndedFields ==
  ASSUME NEW p \in Command, NEW e \in Errors \cup {"ok"}, NEW q, q = Ended(p, e)
  PROVE  /\ q \in Command /\ q.pc = "ended" /\ q.result = e
         /\ Same(p, q, {"pc", "result", "header", "at", "queue", "skipped", "tries"})
<1>1. q = [x \in Fields |-> q[x]]
  BY IsRecord DEF Ended, Fields
<1>2. /\ q.pc = "ended" /\ q.result = e /\ q.tries = 0
      /\ q.header = <<>> /\ q.at = 0 /\ q.queue = <<>> /\ q.skipped = {}
  BY IsRecord DEF Ended, Fields
<1>3. Same(p, q, {"pc", "result", "header", "at", "queue", "skipped", "tries"})
  BY IsRecord DEF Ended, Same, Fields
<1>4. /\ q.opt = p.opt /\ q.dek = p.dek /\ q.enrolling = p.enrolling /\ q.spki = p.spki
      /\ q.signer = p.signer /\ q.prompts = p.prompts /\ q.asked = p.asked
      /\ q.failures = p.failures /\ q.refused = p.refused
  BY <1>3 DEF Same, Fields
<1>5. <<>> \in Seq(Slot) /\ e \in Results
  BY DEF Results, Errors
<1>6. q \in Command
  <2>1. /\ q.opt \in Options \cup {NoOption} /\ q.dek \in Nat /\ q.enrolling \in BOOLEAN
        /\ q.spki \in 0..Keys /\ q.signer \in 0..Keys /\ q.prompts \in Nat /\ q.asked \in Nat
        /\ q.failures \in Nat /\ q.refused \in BOOLEAN
    BY <1>4, FieldTypes
  <2>2. /\ q.header \in Seq(Slot) /\ q.queue \in Seq(Slot) /\ q.at \in Nat /\ q.tries \in {0, 1}
        /\ q.result \in Results /\ q.skipped \in SUBSET Slot
    BY <1>2, <1>5
  <2> QED
    BY <1>1, <1>2, <2>1, <2>2, IsCommand
<1> QED
  BY <1>2, <1>3, <1>6

Advanced(r, i) == [r EXCEPT !.at = i, !.pc = "order"]

LEMMA AdvancedFields ==
  ASSUME NEW p \in Command, NEW i \in Nat, NEW q, q = Advanced(p, i)
  PROVE  q \in Command /\ q.pc = "order" /\ q.at = i /\ Same(p, q, {"pc", "at"})
<1>1. q = [x \in Fields |-> q[x]] /\ q.pc = "order" /\ q.at = i /\ Same(p, q, {"pc", "at"})
  BY IsRecord DEF Advanced, Same, Fields
<1> QED
  BY <1>1, FieldTypes, IsCommand DEF Same, Fields

LEMMA SkipFields ==
  ASSUME NEW p \in Command, p.queue # <<>>, NEW q, q = Skip(p)
  PROVE  /\ q \in Command /\ q.pc = "try" /\ q.queue = Tail(p.queue)
         /\ q.skipped = p.skipped \cup {Head(p.queue)}
         /\ Same(p, q, {"pc", "queue", "skipped"})
<1>1. q = [x \in Fields |-> q[x]]
  BY IsRecord DEF Skip, Fields
<1>2. q.pc = "try" /\ q.queue = Tail(p.queue) /\ q.skipped = p.skipped \cup {Head(p.queue)}
  BY IsRecord DEF Skip, Fields
<1>3. Same(p, q, {"pc", "queue", "skipped"})
  BY IsRecord DEF Skip, Same, Fields
<1>4. Tail(p.queue) \in Seq(Slot) /\ p.skipped \cup {Head(p.queue)} \in SUBSET Slot
  BY FieldTypes
<1>5. /\ q.opt = p.opt /\ q.header = p.header /\ q.at = p.at /\ q.dek = p.dek
      /\ q.enrolling = p.enrolling /\ q.tries = p.tries /\ q.spki = p.spki
      /\ q.signer = p.signer /\ q.prompts = p.prompts /\ q.asked = p.asked
      /\ q.failures = p.failures /\ q.refused = p.refused /\ q.result = p.result
  BY <1>3 DEF Same, Fields
<1>6. q.queue \in Seq(Slot) /\ q.skipped \in SUBSET Slot
  BY <1>2, <1>4
<1>7. q \in Command
  BY <1>1, <1>2, <1>5, <1>6, FieldTypes, IsCommand
<1> QED
  BY <1>2, <1>3, <1>7

LEMMA OpenedFields ==
  ASSUME NEW p \in Command, p.queue # <<>>, NEW q, q = Opened(p)
  PROVE  /\ q \in Command /\ q.pc = "body" /\ q.dek = Head(p.queue).dek
         /\ Same(p, q, {"pc", "dek"})
<1>1. PICK k \in Nat : k = Head(p.queue).dek
  <2>1. Head(p.queue) \in Slot
    BY FieldTypes
  <2> QED
    BY <2>1 DEF Slot
<1>2. q = [p EXCEPT !.dek = k, !.pc = "body"]
  BY <1>1, Zenon DEF Opened
<1>3. /\ q = [x \in Fields |-> q[x]] /\ q.pc = "body" /\ q.dek = k
      /\ Same(p, q, {"pc", "dek"})
  <2> HIDE <1>1
  <2> QED
    BY <1>2, IsRecord DEF Same, Fields
<1>4. q \in Command
  BY <1>3, FieldTypes, IsCommand DEF Same, Fields
<1> QED
  BY <1>1, <1>3, <1>4

Places == {"new", "read", "order", "try", "ask", "openkey", "create", "pubkey", "sign",
           "unwrap", "body", "seal", "ended"}

LEMMA GotoFields ==
  ASSUME NEW p \in Command, NEW step \in Places, NEW q, q = Goto(p, step)
  PROVE  q \in Command /\ q.pc = step /\ Same(p, q, {"pc"})
<1>1. q = [x \in Fields |-> q[x]] /\ q.pc = step /\ Same(p, q, {"pc"})
  BY IsRecord DEF Same, Fields, Goto
<1> QED
  BY <1>1, FieldTypes, IsCommand DEF Same, Fields, Places

LEMMA NotedFields ==
  ASSUME NEW p \in Command, NEW st, NEW q, q = Noted(p, st)
  PROVE  /\ q \in Command /\ Same(p, q, {"refused", "failures"})
         /\ st \notin Refusals => q.refused = p.refused
         /\ q.failures = IF st \in Failures THEN p.failures + 1 ELSE p.failures
<1>1. q = [x \in Fields |-> q[x]] /\ Same(p, q, {"refused", "failures"})
  BY IsRecord DEF Same, Fields, Noted
<1>2. q.refused = (p.refused \/ st \in Refusals)
  BY IsRecord DEF Fields, Noted
<1>3. q.failures = IF st \in Failures THEN p.failures + 1 ELSE p.failures
  BY IsRecord DEF Fields, Noted
<1>4. q.refused \in BOOLEAN /\ (st \notin Refusals => q.refused = p.refused)
  BY <1>2, FieldTypes
<1>5. q.failures \in Nat
  BY <1>3, FieldTypes
<1>6. q \in Command
  BY <1>1, <1>4, <1>5, FieldTypes, IsCommand DEF Same, Fields
<1> QED
  BY <1>1, <1>3, <1>4, <1>6

(* The updates of the actions, by name. *)
Begun(o) == [Idle EXCEPT !.opt = o, !.pc = "read"]
Headed(r, s, i) == [r EXCEPT !.pc = "order", !.header = s, !.at = i]
Asked(r) == [r EXCEPT !.asked = @ + 1]
Prompted(r) == [r EXCEPT !.prompts = @ + 1]
Tried(r, step) == [r EXCEPT !.pc = step, !.tries = 0]
Keyed(r, k) == [r EXCEPT !.spki = k, !.pc = "sign", !.tries = 0]
Signed(r, k, step) == [r EXCEPT !.signer = k, !.pc = step]
Enrolls(r) ==
  [r EXCEPT !.enrolling = TRUE, !.header = <<>>, !.at = 0, !.queue = <<>>, !.skipped = {}]

LEMMA BegunFields ==
  ASSUME NEW o \in Options, NEW q, q = Begun(o)
  PROVE  /\ q \in Command /\ q.pc = "read" /\ q.opt = o /\ q.enrolling = FALSE
         /\ q.prompts = 0 /\ q.asked = 0 /\ q.failures = 0 /\ q.refused = FALSE
         /\ q.result = "none"
<1>0. q.header = <<>> /\ q.queue = <<>> /\ q.skipped = {}
  BY DEF Begun, Idle
<1>5. q = [x \in Fields |-> q[x]]
  BY DEF Begun, Idle, Fields
<1>1. /\ q.opt = o /\ q.pc = "read" /\ q.at = 0
      /\ q.dek = 0 /\ q.enrolling = FALSE /\ q.tries = 0 /\ q.spki = 0
      /\ q.signer = 0 /\ q.prompts = 0 /\ q.asked = 0 /\ q.failures = 0 /\ q.refused = FALSE
      /\ q.result = "none"
  BY DEF Begun, Idle, Fields
<1>2. /\ q.header \in Seq(Slot) /\ q.queue \in Seq(Slot) /\ q.skipped \in SUBSET Slot
      /\ q.spki \in 0..Keys /\ q.signer \in 0..Keys /\ q.result \in Results
  <2>1. <<>> \in Seq(Slot) /\ 0 \in 0..Keys /\ "none" \in Results
    BY UnlockConstants DEF Results
  <2> QED
    BY <1>0, <1>1, <2>1
<1>3. q \in Command
  <2>1. q.opt \in Options \cup {NoOption}
    BY <1>1
  <2>2. /\ q.pc = "read" /\ q.at \in Nat /\ q.dek \in Nat /\ q.tries \in {0, 1}
        /\ q.prompts \in Nat /\ q.asked \in Nat /\ q.failures \in Nat
    BY <1>1
  <2>3. q.enrolling \in BOOLEAN /\ q.refused \in BOOLEAN
    BY <1>1, Zenon
  <2> QED
    BY <1>2, <1>5, <2>1, <2>2, <2>3, IsCommand
<1> QED
  BY <1>1, <1>3

LEMMA HeadedFields ==
  ASSUME NEW p \in Command, NEW s \in Seq(Slot), NEW i \in Nat, NEW q, q = Headed(p, s, i)
  PROVE  /\ q \in Command /\ q.pc = "order" /\ q.header = s /\ q.at = i
         /\ Same(p, q, {"pc", "header", "at"})
<1>1. /\ q = [x \in Fields |-> q[x]] /\ q.pc = "order" /\ q.header = s /\ q.at = i
      /\ Same(p, q, {"pc", "header", "at"})
  BY IsRecord DEF Headed, Same, Fields
<1> QED
  BY <1>1, FieldTypes, IsCommand DEF Same, Fields

LEMMA QueuedFields ==
  ASSUME NEW p \in Command, NEW s \in Seq(Slot), NEW q, q = Queued(p, s)
  PROVE  /\ q \in Command /\ q.pc = "try" /\ q.queue = s
         /\ Same(p, q, {"pc", "queue", "skipped"})
<1>1. q = [x \in Fields |-> q[x]] /\ q.pc = "try" /\ q.queue = s
  BY IsRecord DEF Queued, Fields
<1>2. q.skipped = {}
  BY IsRecord DEF Queued, Fields
<1>3. Same(p, q, {"pc", "queue", "skipped"})
  BY IsRecord DEF Queued, Same, Fields
<1>4. /\ q.opt = p.opt /\ q.header = p.header /\ q.at = p.at /\ q.dek = p.dek
      /\ q.enrolling = p.enrolling /\ q.tries = p.tries /\ q.spki = p.spki
      /\ q.signer = p.signer /\ q.prompts = p.prompts /\ q.asked = p.asked
      /\ q.failures = p.failures /\ q.refused = p.refused /\ q.result = p.result
  BY <1>3 DEF Same, Fields
<1>5. q.skipped \in SUBSET Slot
  BY <1>2
<1>6. q \in Command
  BY <1>1, <1>4, <1>5, FieldTypes, IsCommand
<1> QED
  BY <1>1, <1>3, <1>6

LEMMA AskedFields ==
  ASSUME NEW p \in Command, NEW q, q = Asked(p)
  PROVE  q \in Command /\ Same(p, q, {"asked"})
<1>1. q = [x \in Fields |-> q[x]] /\ q.asked = p.asked + 1 /\ Same(p, q, {"asked"})
  BY IsRecord DEF Asked, Same, Fields
<1>2. q.asked \in Nat
  BY <1>1, FieldTypes
<1> QED
  BY <1>1, <1>2, FieldTypes, IsCommand DEF Same, Fields

LEMMA PromptedFields ==
  ASSUME NEW p \in Command, NEW q, q = Prompted(p)
  PROVE  q \in Command /\ q.prompts = p.prompts + 1 /\ Same(p, q, {"prompts"})
<1>1. q = [x \in Fields |-> q[x]] /\ q.prompts = p.prompts + 1 /\ Same(p, q, {"prompts"})
  BY IsRecord DEF Prompted, Same, Fields
<1>2. q.prompts \in Nat
  BY <1>1, FieldTypes
<1> QED
  BY <1>1, <1>2, FieldTypes, IsCommand DEF Same, Fields

LEMMA TriedFields ==
  ASSUME NEW p \in Command, NEW step \in Places, NEW q, q = Tried(p, step)
  PROVE  q \in Command /\ q.pc = step /\ Same(p, q, {"pc", "tries"})
<1>1. /\ q = [x \in Fields |-> q[x]] /\ q.pc = step /\ q.tries = 0
      /\ Same(p, q, {"pc", "tries"})
  BY IsRecord DEF Tried, Same, Fields
<1> QED
  BY <1>1, FieldTypes, IsCommand DEF Same, Fields, Places

LEMMA RetriedFields ==
  ASSUME NEW p \in Command, NEW q, q = Retried(p)
  PROVE  q \in Command /\ q.failures = p.failures + 1 /\ Same(p, q, {"failures", "tries"})
<1>1. /\ q = [x \in Fields |-> q[x]] /\ q.tries = 1 /\ q.failures = p.failures + 1
      /\ q.refused = p.refused /\ Same(p, q, {"failures", "tries", "refused"})
  BY IsRecord, FieldTypes DEF Retried, Noted, Refusals, Failures, Same, Fields
<1>2. q.failures \in Nat
  BY <1>1, FieldTypes
<1>3. q \in Command
  BY <1>1, <1>2, FieldTypes, IsCommand DEF Same, Fields
<1>4. Same(p, q, {"failures", "tries"})
  BY <1>1 DEF Same, Fields
<1> QED
  BY <1>1, <1>3, <1>4

LEMMA KeyedFields ==
  ASSUME NEW p \in Command, NEW k \in 0..Keys, NEW q, q = Keyed(p, k)
  PROVE  q \in Command /\ q.pc = "sign" /\ Same(p, q, {"pc", "spki", "tries"})
<1>1. /\ q = [x \in Fields |-> q[x]] /\ q.pc = "sign" /\ q.tries = 0 /\ q.spki = k
      /\ Same(p, q, {"pc", "spki", "tries"})
  BY IsRecord DEF Keyed, Same, Fields
<1> QED
  BY <1>1, FieldTypes, IsCommand DEF Same, Fields

LEMMA SignedFields ==
  ASSUME NEW p \in Command, NEW k \in 0..Keys, NEW step \in Places, NEW q, q = Signed(p, k, step)
  PROVE  q \in Command /\ q.pc = step /\ q.signer = k /\ Same(p, q, {"pc", "signer"})
<1>1. /\ q = [x \in Fields |-> q[x]] /\ q.pc = step /\ q.signer = k
      /\ Same(p, q, {"pc", "signer"})
  BY IsRecord DEF Signed, Same, Fields
<1> QED
  BY <1>1, FieldTypes, IsCommand DEF Same, Fields, Places

LEMMA EnrollsFields ==
  ASSUME NEW p \in Command, NEW q, q = Enrolls(p)
  PROVE  /\ q \in Command /\ q.enrolling = TRUE
         /\ Same(p, q, {"enrolling", "header", "at", "queue", "skipped"})
<1>0. q.header = <<>> /\ q.queue = <<>> /\ q.skipped = {}
  BY IsRecord DEF Enrolls, Fields
<1>1. /\ q.enrolling = TRUE /\ q.at = 0
      /\ Same(p, q, {"enrolling", "header", "at", "queue", "skipped"})
  BY IsRecord DEF Enrolls, Same, Fields
<1>5. q = [x \in Fields |-> q[x]]
  BY IsRecord DEF Enrolls, Fields
<1>2. q.header \in Seq(Slot) /\ q.queue \in Seq(Slot) /\ q.skipped \in SUBSET Slot
  <2>1. <<>> \in Seq(Slot)
    OBVIOUS
  <2> QED
    BY <1>0, <2>1
<1>3. q \in Command
  <2>1. /\ q.pc = p.pc /\ q.opt = p.opt /\ q.dek = p.dek /\ q.tries = p.tries /\ q.spki = p.spki
        /\ q.signer = p.signer /\ q.prompts = p.prompts /\ q.asked = p.asked
        /\ q.failures = p.failures /\ q.refused = p.refused /\ q.result = p.result
    BY <1>1 DEF Same, Fields
  <2>2. q.enrolling \in BOOLEAN
    BY <1>1, Zenon
  <2>3. q.at \in Nat
    BY <1>1
  <2> QED
    BY <1>2, <1>5, <2>1, <2>2, <2>3, FieldTypes, IsCommand
<1> QED
  BY <1>1, <1>3

-----------------------------------------------------------------------------
(* The inductive invariant, for the record of one command                  *)

(* A dismissed dialog ends the command.                                     *)
Dismissed(r) == r.refused => r.pc = "ended"

(* The key that signed is the one that was read.                            *)
SignedBy(r) ==
  r.pc = "seal" \/ (r.result = "ok" /\ r.opt.enroll) => r.signer = r.spki

(* Where the unlock is, and where the enrolment.                            *)
Phases(r) ==
  /\ r.pc \in {"create", "pubkey", "seal"} => r.enrolling
  /\ r.pc \in {"new", "read", "order", "try", "ask", "unwrap", "body"} => ~r.enrolling
  /\ (r.result # "none") = (r.pc = "ended")

(* With `--no-input` a command never comes to a prompt.                     *)
Loud == {"ask", "openkey", "create", "pubkey", "sign", "unwrap", "seal"}
Quiet(r) == r.opt.noInput => r.prompts = 0 /\ r.asked = 0 /\ r.pc \notin Loud

(* With a secret in WCM_PASSPHRASE the prompter is never called.            *)
Answered(r) == HasEnv(r) => r.asked = 0 /\ r.pc # "ask"

(* A passphrase slot is still to come, unless nothing may be asked.         *)
HasPassphrase(s) == \E j \in DOMAIN s : IsPassphrase(s[j])
Recovers(r) ==
  ~r.enrolling =>
    /\ r.pc \in {"try", "ask", "openkey", "sign", "unwrap"} /\ ~r.opt.noInput
         => HasPassphrase(r.queue)
    /\ r.pc \in {"openkey", "sign", "unwrap"} => IsHello(r.queue[1])
    /\ r.result = "AuthUnavailable" => r.opt.noInput

(* The loop over the passphrase slots of the header.                        *)
Headers == {f.slots : f \in Files}
HasPlace(r) ==
  r.header \in Headers /\ r.at \in DOMAIN r.header /\ IsPassphrase(r.header[r.at])
Loop(r) ==
  EnvLoop(r) /\ ~r.enrolling =>
    /\ r.pc \in {"order", "try", "openkey", "sign", "unwrap", "body"} => HasPlace(r)
    /\ r.pc = "try" => (r.queue # <<>> /\ IsPassphrase(r.queue[1])) \/ Relabelled(r)
    /\ r.pc \in {"openkey", "sign", "unwrap"} => Relabelled(r)

(* The prompts so far, while no call fails, outside that loop.              *)
Bound(r) ==
  IF r.enrolling
  THEN IF r.pc \in {"openkey", "create"} THEN 1 ELSE IF r.pc \in {"pubkey", "sign"} THEN 2 ELSE 3
  ELSE IF r.pc \in {"unwrap", "body", "ended"} THEN 1 ELSE 0
FewPrompts(r) ==
  r.failures = 0 /\ r.opt.profile /\ ~EnvLoop(r) => r.prompts <= Bound(r)

Sound(r) ==
  /\ Dismissed(r) /\ SignedBy(r) /\ Phases(r) /\ Quiet(r) /\ Answered(r)
  /\ Recovers(r) /\ Loop(r) /\ FewPrompts(r)

-----------------------------------------------------------------------------
(* How a call ends                                                         *)

(* A nonempty set of numbers has a least one. *)
LEMMA LeastNumber ==
  ASSUME NEW T \in SUBSET Nat, T # {}
  PROVE  \E n \in T : \A m \in T : n <= m
<1>1. PICK n \in T : \A m \in T : <<m, n>> \notin OpToRel(<, Nat)
  BY WFMin, NatLessThanWellFounded, Zenon
<1>2. \A m \in T : ~(m < n)
  BY <1>1 DEF OpToRel
<1> QED
  BY <1>2

LEMMA NextPlaceIsAhead ==
  ASSUME NEW s \in Seq(Slot), NEW i \in Nat
  PROVE  /\ NextPlace(s, i) \in Nat
         /\ NextPlace(s, i) # 0 => /\ NextPlace(s, i) \in Ahead(s, i)
                                  /\ \A k \in Ahead(s, i) : NextPlace(s, i) <= k
         /\ NextPlace(s, i) = 0 => Ahead(s, i) = {}
<1> DEFINE T == Ahead(s, i)
<1>1. T \in SUBSET Nat /\ \A j \in T : j # 0
  BY DEF Ahead
<1>2. CASE T = {}
  BY <1>2 DEF NextPlace
<1>3. CASE T # {}
  <2>1. NextPlace(s, i) = CHOOSE j \in T : \A k \in T : j <= k
    BY <1>3 DEF NextPlace
  <2> HIDE DEF T
  <2>2. \E n \in T : \A m \in T : n <= m
    BY <1>1, <1>3, LeastNumber
  <2>3. NextPlace(s, i) \in T /\ \A k \in T : NextPlace(s, i) <= k
    BY <2>1, <2>2
  <2> QED
    BY <1>1, <1>3, <2>3 DEF T
<1> QED
  BY <1>2, <1>3

(* Skipping the head of the queue, or changing another field, does not undo *)
(* what another command did to the label.                                   *)
LEMMA StaysRelabelled ==
  ASSUME NEW p \in Command, NEW q, Relabelled(p),
         q.opt = p.opt, q.header = p.header, q.at = p.at,
         \/ q.queue = p.queue /\ q.skipped = p.skipped
         \/ /\ p.queue # <<>> /\ q.queue = Tail(p.queue)
            /\ q.skipped = p.skipped \cup {Head(p.queue)}
  PROVE  Relabelled(q)
<1>1. Preferred(q) = Preferred(p)
  BY DEF Preferred
<1>2. PICK s \in p.skipped \cup {p.queue[i] : i \in DOMAIN p.queue} :
        IsHello(s) /\ s.label = Preferred(p)
  BY DEF Relabelled
<1>3. s \in q.skipped \cup {q.queue[i] : i \in DOMAIN q.queue}
  <2>1. CASE q.queue = p.queue /\ q.skipped = p.skipped
    BY <1>2, <2>1
  <2>2. CASE /\ p.queue # <<>> /\ q.queue = Tail(p.queue)
             /\ q.skipped = p.skipped \cup {Head(p.queue)}
    <3>1. CASE s \in p.skipped
      BY <2>2, <3>1
    <3>2. ASSUME NEW i \in DOMAIN p.queue, s = p.queue[i]
          PROVE  s \in q.skipped \cup {q.queue[j] : j \in DOMAIN q.queue}
      <4>1. p.queue \in Seq(Slot)
        BY FieldTypes
      <4>2. CASE i = 1
        BY <2>2, <3>2, <4>1, <4>2
      <4>3. CASE i # 1
        <5>1. i - 1 \in DOMAIN q.queue /\ q.queue[i - 1] = s
          BY <2>2, <3>2, <4>1, <4>3
        <5> QED
          BY <5>1
      <4> QED
        BY <4>2, <4>3
    <3> QED
      BY <1>2, <3>1, <3>2
  <2> QED
    BY <2>1, <2>2
<1> QED
  BY <1>1, <1>2, <1>3 DEF Relabelled

(* What is needed of a record whose call of Vault::unlock, or whose         *)
(* enrolment, ends in error e.                                              *)
Fails(p, e) ==
  /\ p.refused => e # "Integrity"
  /\ p.opt.noInput => p.prompts = 0 /\ p.asked = 0
  /\ HasEnv(p) => p.asked = 0
  /\ e = "Integrity" /\ EnvLoop(p) /\ ~p.enrolling => p.header \in Headers
  /\ p.failures = 0 /\ p.opt.profile /\ ~EnvLoop(p)
       => p.prompts <= IF p.enrolling THEN 3 ELSE 1
  /\ p.result = "none"

LEMMA EndedSound ==
  ASSUME NEW p \in Command, NEW e \in Errors \cup {"ok"}, NEW q, q = Ended(p, e), Fails(p, e),
         e = "AuthUnavailable" => p.enrolling \/ p.opt.noInput,
         e = "ok" /\ p.opt.enroll => p.signer = p.spki
  PROVE  q \in Command /\ Sound(q) /\ q.opt = p.opt
<1>1. /\ q \in Command /\ q.pc = "ended" /\ q.result = e
      /\ Same(p, q, {"pc", "result", "header", "at", "queue", "skipped", "tries"})
  BY EndedFields
<1>2. /\ q.opt = p.opt /\ q.enrolling = p.enrolling /\ q.spki = p.spki /\ q.signer = p.signer
      /\ q.prompts = p.prompts /\ q.asked = p.asked /\ q.failures = p.failures
      /\ q.refused = p.refused
  BY <1>1 DEF Same, Fields
<1>3. Dismissed(q) /\ SignedBy(q) /\ Phases(q) /\ Recovers(q) /\ Loop(q)
  BY <1>1, <1>2 DEF Dismissed, SignedBy, Phases, Recovers, Loop, Errors
<1>4. Quiet(q) /\ Answered(q) /\ FewPrompts(q)
  BY <1>1, <1>2 DEF Fails, Quiet, Answered, EnvLoop, HasEnv, Loud, FewPrompts, Bound
<1> QED
  BY <1>1, <1>2, <1>3, <1>4 DEF Sound

LEMMA FailedSound ==
  ASSUME NEW p \in Command, NEW e \in Errors, NEW q, q = Failed(p, e), Fails(p, e),
         e = "AuthUnavailable" => p.enrolling \/ p.opt.noInput
  PROVE  q \in Command /\ Sound(q) /\ q.opt = p.opt
<1>1. CASE ~GoesOn(p, e)
  BY <1>1, EndedSound DEF Failed, Errors
<1>2. CASE GoesOn(p, e)
  <2> DEFINE i == NextPlace(p.header, p.at)
  <2>1. p.header \in Seq(Slot) /\ p.at \in Nat
    BY FieldTypes
  <2>2. i \in Nat /\ i \in Ahead(p.header, p.at)
    BY <1>2, <2>1, NextPlaceIsAhead DEF GoesOn
  <2> HIDE DEF i
  <2>3. q = Advanced(p, i)
    BY <1>2, Zenon DEF Failed, Advanced, i
  <2>4. q \in Command /\ q.pc = "order" /\ q.at = i /\ Same(p, q, {"pc", "at"})
    BY <2>2, <2>3, AdvancedFields
  <2>5. /\ q.opt = p.opt /\ q.enrolling = p.enrolling /\ q.header = p.header
        /\ q.prompts = p.prompts /\ q.asked = p.asked /\ q.failures = p.failures
        /\ q.refused = p.refused /\ q.result = p.result
    BY <2>4 DEF Same, Fields
  <2>6. e = "Integrity" /\ ~p.enrolling /\ EnvLoop(p)
    BY <1>2 DEF GoesOn
  <2>7. Dismissed(q) /\ SignedBy(q) /\ Phases(q) /\ Recovers(q)
    BY <2>4, <2>5, <2>6 DEF Fails, Dismissed, SignedBy, Phases, Recovers
  <2>9. Quiet(q) /\ Answered(q) /\ FewPrompts(q)
    BY <2>4, <2>5, <2>6 DEF Fails, Quiet, Answered, Loud, FewPrompts, EnvLoop, HasEnv
  <2>10. Loop(q)
    BY <2>2, <2>4, <2>5, <2>6 DEF Fails, Loop, HasPlace, Ahead
  <2> QED
    BY <2>4, <2>5, <2>7, <2>9, <2>10 DEF Sound
<1> QED
  BY <1>1, <1>2

LEMMA SlotFailedSound ==
  ASSUME NEW p \in Command, NEW e \in Errors, NEW q, q = SlotFailed(p, e), Fails(p, e),
         e = "AuthUnavailable" /\ ~p.enrolling =>
           /\ ~p.refused /\ p.queue # <<>>
           /\ EnvLoop(p) => HasPlace(p) /\ Relabelled(p)
           /\ ~p.opt.noInput => HasPassphrase(p.queue) /\ IsHello(p.queue[1])
           /\ p.failures = 0 /\ p.opt.profile /\ ~EnvLoop(p) => p.prompts = 0
  PROVE  q \in Command /\ Sound(q) /\ q.opt = p.opt
<1>1. CASE ~(e = "AuthUnavailable" /\ ~p.enrolling)
  BY <1>1, FailedSound DEF SlotFailed
<1>2. CASE e = "AuthUnavailable" /\ ~p.enrolling
  <2> DEFINE s == Tail(p.queue)
  <2>1. p.queue \in Seq(Slot) /\ p.queue # <<>>
    BY <1>2, FieldTypes
  <2>2. s \in Seq(Slot) /\ Len(s) = Len(p.queue) - 1 /\ \A j \in 1..Len(s) : s[j] = p.queue[j + 1]
    BY <2>1
  <2>3. ~p.opt.noInput => HasPassphrase(s)
    <3>1. ASSUME ~p.opt.noInput PROVE HasPassphrase(s)
      <4>1. PICK j \in DOMAIN p.queue : IsPassphrase(p.queue[j])
        BY <1>2, <3>1 DEF HasPassphrase
      <4>2. j # 1
        BY <1>2, <3>1, <4>1 DEF IsHello, IsPassphrase
      <4>3. j - 1 \in DOMAIN s /\ s[j - 1] = p.queue[j]
        BY <2>1, <2>2, <4>1, <4>2
      <4> QED
        BY <4>1, <4>3 DEF HasPassphrase
    <3> QED
      BY <3>1
  <2> HIDE DEF s
  <2>4. q = Skip(p)
    BY <1>2 DEF SlotFailed
  <2>5. /\ q \in Command /\ q.pc = "try" /\ q.queue = s
        /\ q.skipped = p.skipped \cup {Head(p.queue)}
        /\ Same(p, q, {"pc", "queue", "skipped"})
    BY <2>1, <2>4, SkipFields DEF s
  <2>6. /\ q.opt = p.opt /\ q.enrolling = p.enrolling /\ q.header = p.header /\ q.at = p.at
        /\ q.prompts = p.prompts /\ q.asked = p.asked /\ q.failures = p.failures
        /\ q.refused = p.refused /\ q.result = p.result
    BY <2>5 DEF Same, Fields
  <2>7. Dismissed(q) /\ SignedBy(q) /\ Phases(q)
    BY <1>2, <2>5, <2>6 DEF Fails, Dismissed, SignedBy, Phases
  <2>8. Recovers(q)
    BY <1>2, <2>3, <2>5, <2>6 DEF Fails, Recovers
  <2>9. Quiet(q) /\ Answered(q)
    BY <2>5, <2>6 DEF Fails, Quiet, Answered, Loud, HasEnv
  <2>10. FewPrompts(q)
    BY <1>2, <2>5, <2>6 DEF FewPrompts, Bound, EnvLoop, HasEnv
  <2>11. Loop(q)
    <3>1. ASSUME EnvLoop(q) PROVE HasPlace(q) /\ Relabelled(q)
      <4>1. HasPlace(p) /\ Relabelled(p)
        BY <1>2, <2>6, <3>1 DEF EnvLoop, HasEnv
      <4>2. Relabelled(q)
        BY <2>1, <2>5, <2>6, <4>1, StaysRelabelled DEF s
      <4> QED
        BY <2>6, <4>1, <4>2 DEF HasPlace
    <3> QED
      BY <2>5, <3>1 DEF Loop
  <2> QED
    BY <2>5, <2>6, <2>7, <2>8, <2>9, <2>10, <2>11 DEF Sound
<1> QED
  BY <1>1, <1>2

(* The slot at the head of the queue has been opened. *)
LEMMA OpenedSound ==
  ASSUME NEW p \in Command, p.queue # <<>>, ~p.refused, ~p.enrolling, Fails(p, "Integrity"),
         EnvLoop(p) => p.at \in DOMAIN p.header /\ IsPassphrase(p.header[p.at]),
         NEW q, q = Opened(p)
  PROVE  q \in Command /\ Sound(q) /\ q.opt = p.opt
<1>2. q \in Command /\ q.pc = "body" /\ Same(p, q, {"pc", "dek"})
  BY OpenedFields
<1>3. /\ q.opt = p.opt /\ q.enrolling = p.enrolling /\ q.header = p.header /\ q.at = p.at
      /\ q.prompts = p.prompts /\ q.asked = p.asked /\ q.failures = p.failures
      /\ q.refused = p.refused /\ q.result = p.result
  BY <1>2 DEF Same, Fields
<1>4. Dismissed(q) /\ SignedBy(q) /\ Phases(q) /\ Recovers(q)
  BY <1>2, <1>3 DEF Fails, Dismissed, SignedBy, Phases, Recovers
<1>5. Loop(q) /\ Quiet(q) /\ Answered(q)
  BY <1>2, <1>3 DEF Fails, Loop, HasPlace, Quiet, Answered, Loud, EnvLoop, HasEnv
<1>6. FewPrompts(q)
  BY <1>2, <1>3 DEF Fails, FewPrompts, Bound, EnvLoop, HasEnv
<1> QED
  BY <1>2, <1>3, <1>4, <1>5, <1>6 DEF Sound

LEMMA WithSecretSound ==
  ASSUME NEW p \in Command, p.queue # <<>>, ~p.refused, ~p.enrolling, Fails(p, "Integrity"),
         EnvLoop(p) => p.at \in DOMAIN p.header /\ IsPassphrase(p.header[p.at]),
         NEW secret, NEW q, q = WithSecret(p, secret)
  PROVE  q \in Command /\ Sound(q) /\ q.opt = p.opt
<1>1. CASE secret = Head(p.queue).sec
  BY <1>1, OpenedSound DEF WithSecret
<1>2. CASE secret # Head(p.queue).sec
  BY <1>2, FailedSound DEF WithSecret, Errors
<1> QED
  BY <1>1, <1>2

-----------------------------------------------------------------------------
(* The steps                                                               *)

(* A step that goes on from p, in the unlock or in the enrolment. *)
LEMMA MovedSound ==
  ASSUME NEW p \in Command, NEW q \in Command, Sound(p), q.pc \in Loud,
         Same(p, q, {"pc", "tries", "spki", "signer", "prompts", "failures"}),
         ~p.refused, p.result = "none", ~p.opt.noInput,
         q.pc \in {"create", "pubkey", "seal"} => p.enrolling,
         q.pc \in {"ask", "unwrap"} => ~p.enrolling,
         q.pc = "ask" => ~HasEnv(p),
         ~p.enrolling => /\ HasPassphrase(p.queue)
                         /\ q.pc # "ask" => IsHello(p.queue[1])
                         /\ EnvLoop(p) => HasPlace(p) /\ Relabelled(p),
         q.pc = "seal" => q.signer = q.spki,
         q.failures = 0 /\ p.opt.profile /\ ~EnvLoop(p) => q.prompts <= Bound(q)
  PROVE  Sound(q) /\ q.opt = p.opt
<1>1. /\ q.opt = p.opt /\ q.enrolling = p.enrolling /\ q.queue = p.queue
      /\ q.asked = p.asked /\ q.refused = p.refused /\ q.result = p.result
      /\ q.header = p.header /\ q.at = p.at /\ q.skipped = p.skipped
  BY DEF Same, Fields
<1>2. Dismissed(q) /\ SignedBy(q)
  BY <1>1 DEF Dismissed, SignedBy
<1>3. Phases(q)
  BY <1>1 DEF Phases, Loud
<1>4. Quiet(q) /\ Answered(q)
  BY <1>1 DEF Sound, Quiet, Answered, HasEnv
<1>5. Loop(q)
  <2>1. ASSUME EnvLoop(q), ~q.enrolling PROVE HasPlace(q) /\ Relabelled(q)
    <3>1. HasPlace(p) /\ Relabelled(p)
      BY <1>1, <2>1 DEF EnvLoop, HasEnv
    <3>2. Relabelled(q)
      BY <1>1, <3>1, StaysRelabelled
    <3> QED
      BY <1>1, <3>1, <3>2 DEF HasPlace
  <2> QED
    BY <2>1 DEF Loop
<1>6. Recovers(q)
  BY <1>1 DEF Recovers
<1>7. FewPrompts(q)
  BY <1>1 DEF FewPrompts, EnvLoop, HasEnv
<1> QED
  BY <1>1, <1>2, <1>3, <1>4, <1>5, <1>6, <1>7 DEF Sound

(* What a step may rely on in case it ends in an error. *)
LEMMA SoundFails ==
  ASSUME NEW p \in Command, Sound(p), NEW e \in Errors \cup {"ok"}, p.pc # "ended",
         p.pc \in {"new", "read"} => e = "Invalid"
  PROVE  Fails(p, e) /\ ~p.refused
<1>1. ~p.refused /\ p.result = "none"
  BY DEF Sound, Dismissed, Phases
<1>2. /\ p.opt.noInput => p.prompts = 0 /\ p.asked = 0
      /\ HasEnv(p) => p.asked = 0
  BY DEF Sound, Quiet, Answered
<1>3. p.failures = 0 /\ p.opt.profile /\ ~EnvLoop(p) => p.prompts <= IF p.enrolling THEN 3 ELSE 1
  BY FieldTypes DEF Sound, FewPrompts, Bound
<1>4. ASSUME e = "Integrity", EnvLoop(p), ~p.enrolling
      PROVE  p.header \in Headers
  <2>1. p.pc \notin {"ask", "create", "pubkey", "seal"}
    BY <1>4 DEF Sound, Answered, Phases, EnvLoop
  <2>2. p.pc \in {"order", "try", "openkey", "sign", "unwrap", "body"}
    BY <1>4, <2>1, FieldTypes
  <2> QED
    BY <1>4, <2>2 DEF Sound, Loop, HasPlace
<1> QED
  BY <1>1, <1>2, <1>3, <1>4 DEF Fails

(* The same after the user has been asked, or a call into Windows made. *)
LEMMA LaterFails ==
  ASSUME NEW p \in Command, NEW q \in Command, Sound(p), NEW e \in Errors, p.pc \in Loud,
         Same(p, q, {"asked", "prompts", "failures", "refused"}),
         q.refused => e # "Integrity", HasEnv(p) => q.asked = 0,
         q.failures = 0 /\ p.opt.profile /\ ~EnvLoop(p)
           => q.prompts <= IF p.enrolling THEN 3 ELSE 1
  PROVE  Fails(q, e)
<1>1. /\ q.opt = p.opt /\ q.enrolling = p.enrolling /\ q.result = p.result /\ q.pc = p.pc
      /\ q.header = p.header
  BY DEF Same, Fields
<1>2. ~p.opt.noInput /\ p.result = "none"
  BY DEF Sound, Quiet, Phases, Loud
<1>3. EnvLoop(p) /\ ~p.enrolling => p.header \in Headers
  <2>1. EnvLoop(p) /\ ~p.enrolling => p.pc \in {"openkey", "sign", "unwrap"}
    BY DEF Sound, Answered, Phases, EnvLoop, Loud
  <2> QED
    BY <2>1 DEF Sound, Loop, HasPlace
<1> QED
  BY <1>1, <1>2, <1>3 DEF Fails, EnvLoop, HasEnv

-----------------------------------------------------------------------------
(* The actions                                                             *)

(* Command c goes on from p in a sound way. *)
Goes(c, p) == \E q \in Command : Sound(q) /\ q.opt = p.opt /\ Become(c, q)

LEMMA BeginSound ==
  ASSUME NEW c \in Cmds, Begin(c)
  PROVE  \E r : Goes(c, r)
<1>1. PICK o \in Options : Become(c, Begun(o))
  BY Zenon DEF Begin, Begun
<1>2. PICK q : q = Begun(o)
  OBVIOUS
<1>3. /\ q \in Command /\ q.pc = "read" /\ q.enrolling = FALSE /\ q.prompts = 0 /\ q.asked = 0
      /\ q.refused = FALSE /\ q.result = "none"
  BY <1>2, BegunFields
<1>4. Sound(q)
  BY <1>3
  DEF Sound, Dismissed, SignedBy, Phases, Quiet, Answered, Loud, Recovers, Loop, FewPrompts, Bound
<1> QED
  BY <1>1, <1>2, <1>3, <1>4 DEF Goes

(* The slots of a vault. *)
LEMMA FileSlots ==
  ASSUME NEW f \in Files
  PROVE  f.slots \in Seq(Slot) /\ f.slots \in Headers /\ HasPassphrase(f.slots)
BY UnlockConstants DEF Headers, HasPassphrase

LEMMA ReadHeaderSound ==
  ASSUME TypeOK, NEW c \in Cmds, Sound(cmd[c]), ReadHeader(c)
  PROVE  Goes(c, cmd[c])
<1> DEFINE p == cmd[c]
           s == file.slots
           i == IF EnvLoop(p) THEN NextPlace(s, 0) ELSE 0
<1> SUFFICES Goes(c, p)
  OBVIOUS
<1>1. p \in Command /\ Sound(p) /\ p.pc = "read"
  BY DEF TypeOK, ReadHeader, At
<1>2. s \in Seq(Slot) /\ s \in Headers /\ HasPassphrase(s)
  BY FileSlots DEF TypeOK
<1>3. i \in Nat /\ (EnvLoop(p) => i \in DOMAIN s /\ IsPassphrase(s[i]))
  <2>1. /\ NextPlace(s, 0) \in Nat /\ (NextPlace(s, 0) # 0 => NextPlace(s, 0) \in Ahead(s, 0))
        /\ (NextPlace(s, 0) = 0 => Ahead(s, 0) = {})
    BY <1>2, NextPlaceIsAhead
  <2>2. Ahead(s, 0) # {}
    BY <1>2 DEF Ahead, HasPassphrase
  <2> QED
    BY <2>1, <2>2 DEF Ahead
<1>4. \/ Become(c, Ended(p, "Invalid"))
      \/ Become(c, Headed(p, s, i))
  BY Zenon DEF ReadHeader, Headed
<1> HIDE DEF p, s, i
<1>5. CASE Become(c, Ended(p, "Invalid"))
  <2>1. Fails(p, "Invalid")
    BY <1>1, SoundFails DEF Errors
  <2> QED
    BY <1>1, <1>5, <2>1, EndedSound DEF Errors, Goes
<1>6. CASE Become(c, Headed(p, s, i))
  <2>1. PICK q : q = Headed(p, s, i)
    OBVIOUS
  <2>2. /\ q \in Command /\ q.pc = "order" /\ q.header = s /\ q.at = i
        /\ Same(p, q, {"pc", "header", "at"})
    BY <1>1, <1>2, <1>3, <2>1, HeadedFields
  <2>3. /\ q.opt = p.opt /\ q.enrolling = p.enrolling /\ q.prompts = p.prompts
        /\ q.asked = p.asked /\ q.failures = p.failures /\ q.refused = p.refused
        /\ q.result = p.result
    BY <2>2 DEF Same, Fields
  <2>4. Sound(q)
    BY <1>1, <1>2, <1>3, <2>2, <2>3
    DEF Sound, Dismissed, SignedBy, Phases, Quiet, Answered, Loud, Recovers, Loop, HasPlace,
        EnvLoop, HasEnv, FewPrompts, Bound
  <2> QED
    BY <1>6, <2>1, <2>2, <2>3, <2>4 DEF Goes
<1> QED
  BY <1>4, <1>5, <1>6

(* The preferred slot comes first, and no slot is lost. *)
LEMMA OrderedSlots ==
  ASSUME NEW s \in Seq(Slot), NEW i \in DOMAIN s
  PROVE  /\ Ordered(s, i) \in Seq(Slot) /\ Ordered(s, i) # <<>>
         /\ Ordered(s, i)[1] = s[i]
         /\ HasPassphrase(s) => HasPassphrase(Ordered(s, i))
<1> DEFINE t == Ordered(s, i)
<1>1. s \in [1..Len(s) -> Slot] /\ Len(s) \in Nat /\ i \in 1..Len(s)
  OBVIOUS
<1>2. t = [j \in 1..Len(s) |-> s[IF j = 1 THEN i ELSE IF j <= i THEN j - 1 ELSE j]]
  BY DEF Ordered
<1>3. t \in [1..Len(s) -> Slot]
  <2>1. \A j \in 1..Len(s) : (IF j = 1 THEN i ELSE IF j <= i THEN j - 1 ELSE j) \in 1..Len(s)
    BY <1>1
  <2>2. \A j \in 1..Len(s) : s[IF j = 1 THEN i ELSE IF j <= i THEN j - 1 ELSE j] \in Slot
    BY <1>1, <2>1
  <2> QED
    BY <1>2, <2>2
<1>4. t[1] = s[i]
  BY <1>1, <1>2
<1>5. t \in Seq(Slot) /\ DOMAIN t = 1..Len(s)
  BY <1>1, <1>3
<1>6. t # <<>>
  BY <1>1, <1>5
<1>7. ASSUME HasPassphrase(s) PROVE HasPassphrase(t)
  <2>1. PICK j \in 1..Len(s) : IsPassphrase(s[j])
    BY <1>1, <1>7 DEF HasPassphrase
  <2> DEFINE k == IF j = i THEN 1 ELSE IF j < i THEN j + 1 ELSE j
  <2>2. k \in 1..Len(s) /\ (IF k = 1 THEN i ELSE IF k <= i THEN k - 1 ELSE k) = j
    BY <1>1
  <2> HIDE DEF k
  <2>3. t[k] = s[j]
    BY <1>2, <2>2
  <2> QED
    BY <1>5, <2>1, <2>2, <2>3 DEF HasPassphrase
<1> QED
  BY <1>4, <1>5, <1>6, <1>7

LEMMA QueuedSound ==
  ASSUME NEW p \in Command, Sound(p), p.pc = "order", NEW s \in Seq(Slot), HasPassphrase(s),
         EnvLoop(p) => s # <<>> /\ s[1].label = Preferred(p), NEW q, q = Queued(p, s)
  PROVE  q \in Command /\ Sound(q) /\ q.opt = p.opt
<1>1. /\ q \in Command /\ q.pc = "try" /\ q.queue = s
      /\ Same(p, q, {"pc", "queue", "skipped"})
  BY QueuedFields
<1>2. /\ q.opt = p.opt /\ q.enrolling = p.enrolling /\ q.header = p.header /\ q.at = p.at
      /\ q.prompts = p.prompts /\ q.asked = p.asked /\ q.failures = p.failures
      /\ q.refused = p.refused /\ q.result = p.result
  BY <1>1 DEF Same, Fields
<1>3. Dismissed(q) /\ SignedBy(q) /\ Phases(q) /\ Recovers(q)
  BY <1>1, <1>2 DEF Sound, Dismissed, SignedBy, Phases, Recovers
<1>4. Quiet(q) /\ Answered(q)
  BY <1>1, <1>2 DEF Sound, Quiet, Answered, Loud, HasEnv
<1>5. FewPrompts(q)
  BY <1>1, <1>2 DEF Sound, FewPrompts, Bound, Phases, EnvLoop, HasEnv
<1>6. Loop(q)
  <2>1. ASSUME EnvLoop(q), ~q.enrolling
        PROVE  HasPlace(q) /\ (IsPassphrase(s[1]) \/ Relabelled(q))
    <3>1. HasPlace(p) /\ s # <<>> /\ s[1].label = Preferred(p)
      BY <1>2, <2>1 DEF Sound, Loop, EnvLoop, HasEnv
    <3>2. 1 \in DOMAIN s /\ s[1] \in Slot
      BY <3>1
    <3>3. IsPassphrase(s[1]) \/ IsHello(s[1])
      BY <3>2 DEF Slot, IsPassphrase, IsHello
    <3>4. s[1].label = Preferred(q)
      BY <1>2, <3>1 DEF Preferred
    <3>5. s[1] \in q.skipped \cup {q.queue[i] : i \in DOMAIN q.queue}
      BY <1>1, <3>2
    <3>6. IsHello(s[1]) => Relabelled(q)
      BY <3>4, <3>5 DEF Relabelled
    <3> QED
      BY <1>2, <3>1, <3>3, <3>6 DEF HasPlace
  <2>2. EnvLoop(q) => s # <<>>
    BY <1>2 DEF EnvLoop, HasEnv
  <2> QED
    BY <1>1, <2>1, <2>2 DEF Loop
<1> QED
  BY <1>1, <1>2, <1>3, <1>4, <1>5, <1>6 DEF Sound

(* In the loop over the passphrase slots a label is preferred.              *)
LEMMA LoopPrefers ==
  ASSUME NEW p \in Command, Sound(p), p.pc = "order", EnvLoop(p)
  PROVE  Preferred(p) # "none"
<1>1. p.at \in DOMAIN p.header /\ p.header \in Headers
  BY DEF Sound, Loop, HasPlace, Phases
<1>2. PICK g \in Files : p.header = g.slots
  BY <1>1 DEF Headers
<1>3. p.at \in DOMAIN g.slots /\ g.slots \in Seq(Slot)
  BY <1>1, <1>2, FileSlots
<1>4. p.at # 0
  BY <1>3
<1>5. Preferred(p) = g.slots[p.at].label
  BY <1>2, <1>4 DEF Preferred, EnvLoop
<1>6. g.slots[p.at].label # "none"
  BY <1>3, UnlockConstants
<1> QED
  BY <1>5, <1>6

LEMMA OrderSound ==
  ASSUME TypeOK, NEW c \in Cmds, Sound(cmd[c]), Order(c)
  PROVE  Goes(c, cmd[c])
<1> DEFINE p == cmd[c]
           s == file.slots
<1> SUFFICES Goes(c, p)
  OBVIOUS
<1>1. p \in Command /\ Sound(p) /\ p.pc = "order" /\ file \in Files
  BY DEF TypeOK, Order, At
<1>2. s \in Seq(Slot) /\ HasPassphrase(s)
  BY <1>1, FileSlots
<1>3. \/ Preferred(p) = "none" /\ Become(c, Queued(p, s))
      \/ Become(c, Failed(p, "Invalid"))
      \/ /\ Preferred(p) # "none"
         /\ \E i \in DOMAIN s : s[i].label = Preferred(p) /\ Become(c, Queued(p, Ordered(s, i)))
  BY Zenon DEF Order, Queued
<1>4. EnvLoop(p) => Preferred(p) # "none"
  BY <1>1, LoopPrefers
<1> HIDE DEF p, s
<1>5. CASE Preferred(p) = "none" /\ Become(c, Queued(p, s))
  BY <1>1, <1>2, <1>4, <1>5, QueuedSound DEF Goes
<1>6. CASE Become(c, Failed(p, "Invalid"))
  <2>1. Fails(p, "Invalid")
    BY <1>1, SoundFails DEF Errors
  <2> QED
    BY <1>1, <1>6, <2>1, FailedSound DEF Goes, Errors
<1>7. ASSUME NEW i \in DOMAIN s, s[i].label = Preferred(p), Become(c, Queued(p, Ordered(s, i)))
      PROVE  Goes(c, p)
  <2>1. PICK t : t = Ordered(s, i)
    OBVIOUS
  <2>2. t \in Seq(Slot) /\ t # <<>> /\ t[1] = s[i] /\ HasPassphrase(t)
    BY <1>2, <2>1, OrderedSlots
  <2>3. t[1].label = Preferred(p)
    BY <1>7, <2>2
  <2> QED
    BY <1>1, <1>7, <2>1, <2>2, <2>3, QueuedSound DEF Goes
<1> QED
  BY <1>3, <1>5, <1>6, <1>7

LEMMA TrySound ==
  ASSUME TypeOK, NEW c \in Cmds, Sound(cmd[c]), Try(c)
  PROVE  Goes(c, cmd[c])
<1> DEFINE p == cmd[c]
<1> SUFFICES Goes(c, p)
  OBVIOUS
<1>1. p \in Command /\ Sound(p) /\ p.pc = "try"
  BY DEF TypeOK, Try, At
<1>2. \/ p.queue = <<>> /\ Become(c, Ended(p, "AuthUnavailable"))
      \/ /\ p.queue # <<>> /\ IsHello(Head(p.queue)) /\ CanPrompt(p)
         /\ Become(c, Goto(p, "openkey"))
      \/ /\ p.queue # <<>> /\ IsHello(Head(p.queue)) /\ ~CanPrompt(p)
         /\ Become(c, SlotFailed(p, "AuthUnavailable"))
      \/ /\ p.queue # <<>> /\ ~IsHello(Head(p.queue)) /\ HasEnv(p)
         /\ Become(c, WithSecret(p, p.opt.env))
      \/ /\ p.queue # <<>> /\ ~IsHello(Head(p.queue)) /\ ~HasEnv(p) /\ p.opt.noInput
         /\ Become(c, SlotFailed(p, "AuthUnavailable"))
      \/ /\ p.queue # <<>> /\ ~IsHello(Head(p.queue)) /\ ~HasEnv(p) /\ ~p.opt.noInput
         /\ Become(c, Goto(p, "ask"))
  BY Zenon DEF Try
<1> HIDE DEF p
<1>3. ~p.enrolling /\ ~p.refused /\ p.result = "none"
  BY <1>1 DEF Sound, Phases, Dismissed
<1>4. \A e \in Errors \cup {"ok"} : Fails(p, e)
  BY <1>1, SoundFails
<1>5. p.failures = 0 /\ p.opt.profile /\ ~EnvLoop(p) => p.prompts = 0
  BY <1>1, <1>3, FieldTypes DEF Sound, FewPrompts, Bound
<1>6. p.queue \in Seq(Slot)
  BY <1>1, FieldTypes
<1>7. ~p.opt.noInput => HasPassphrase(p.queue)
  BY <1>1, <1>3 DEF Sound, Recovers
<1>8. EnvLoop(p) => /\ HasPlace(p)
                    /\ (p.queue # <<>> /\ IsPassphrase(p.queue[1])) \/ Relabelled(p)
  BY <1>1, <1>3 DEF Sound, Loop
<1>9. p.queue # <<>> => Head(p.queue) = p.queue[1]
  BY <1>6
<1>10. CASE p.queue = <<>> /\ Become(c, Ended(p, "AuthUnavailable"))
  <2>1. p.opt.noInput
    BY <1>7, <1>10 DEF HasPassphrase
  <2> QED
    BY <1>1, <1>4, <1>10, <2>1, EndedSound DEF Goes, Errors
<1>11. CASE /\ p.queue # <<>> /\ IsHello(Head(p.queue)) /\ CanPrompt(p)
            /\ Become(c, Goto(p, "openkey"))
  <2>1. PICK q : q = Goto(p, "openkey")
    OBVIOUS
  <2>2. q \in Command /\ q.pc = "openkey" /\ Same(p, q, {"pc"})
    BY <1>1, <2>1, GotoFields DEF Places
  <2>3. ~p.opt.noInput /\ (EnvLoop(p) => HasPlace(p) /\ Relabelled(p))
    BY <1>8, <1>9, <1>11 DEF CanPrompt, IsHello, IsPassphrase
  <2>4. q.failures = p.failures /\ q.prompts = p.prompts /\ q.enrolling = p.enrolling
    BY <2>2 DEF Same, Fields
  <2>5. Same(p, q, {"pc", "tries", "spki", "signer", "prompts", "failures"})
    BY <2>2 DEF Same
  <2>6. q.failures = 0 /\ p.opt.profile /\ ~EnvLoop(p) => q.prompts <= Bound(q)
    BY <1>3, <1>5, <2>2, <2>4 DEF Bound
  <2>7. HasPassphrase(p.queue) /\ IsHello(p.queue[1])
    BY <1>7, <1>9, <1>11 DEF CanPrompt
  <2>8. Sound(q) /\ q.opt = p.opt
    BY <1>1, <1>3, <2>2, <2>3, <2>5, <2>6, <2>7, MovedSound DEF Loud
  <2> QED
    BY <1>11, <2>1, <2>2, <2>8 DEF Goes
<1>12. CASE /\ p.queue # <<>> /\ IsHello(Head(p.queue)) /\ ~CanPrompt(p)
            /\ Become(c, SlotFailed(p, "AuthUnavailable"))
  <2>1. IsHello(p.queue[1]) /\ (EnvLoop(p) => HasPlace(p) /\ Relabelled(p))
    BY <1>8, <1>9, <1>12 DEF IsHello, IsPassphrase
  <2> QED
    BY <1>1, <1>3, <1>4, <1>5, <1>7, <1>12, <2>1, SlotFailedSound DEF Goes, Errors
<1>13. CASE p.queue # <<>> /\ Become(c, WithSecret(p, p.opt.env))
  <2>1. Fails(p, "Integrity")
    BY <1>4 DEF Errors
  <2>2. EnvLoop(p) => p.at \in DOMAIN p.header /\ IsPassphrase(p.header[p.at])
    BY <1>8 DEF HasPlace
  <2> QED
    BY <1>1, <1>3, <1>13, <2>1, <2>2, WithSecretSound DEF Goes
<1>14. CASE p.queue # <<>> /\ ~HasEnv(p) /\ p.opt.noInput /\ Become(c, SlotFailed(p, "AuthUnavailable"))
  <2>1. ~EnvLoop(p)
    BY <1>14 DEF EnvLoop
  <2> QED
    BY <1>1, <1>3, <1>4, <1>5, <1>7, <1>14, <2>1, SlotFailedSound DEF Goes, Errors
<1>15. CASE p.queue # <<>> /\ ~HasEnv(p) /\ ~p.opt.noInput /\ Become(c, Goto(p, "ask"))
  <2>1. PICK q : q = Goto(p, "ask")
    OBVIOUS
  <2>2. q \in Command /\ q.pc = "ask" /\ Same(p, q, {"pc"})
    BY <1>1, <2>1, GotoFields DEF Places
  <2>3. ~p.opt.noInput /\ ~HasEnv(p) /\ ~EnvLoop(p)
    BY <1>15 DEF EnvLoop
  <2>4. q.failures = p.failures /\ q.prompts = p.prompts /\ q.enrolling = p.enrolling
    BY <2>2 DEF Same, Fields
  <2>5. Same(p, q, {"pc", "tries", "spki", "signer", "prompts", "failures"})
    BY <2>2 DEF Same
  <2>6. q.failures = 0 /\ p.opt.profile /\ ~EnvLoop(p) => q.prompts <= Bound(q)
    BY <1>3, <1>5, <2>2, <2>4 DEF Bound
  <2>7. Sound(q) /\ q.opt = p.opt
    BY <1>1, <1>3, <1>7, <1>15, <2>2, <2>3, <2>5, <2>6, MovedSound DEF Loud
  <2> QED
    BY <1>15, <2>1, <2>2, <2>7 DEF Goes
<1> QED
  BY <1>2, <1>10, <1>11, <1>12, <1>13, <1>14, <1>15

LEMMA AnswerSound ==
  ASSUME TypeOK, NEW c \in Cmds, Sound(cmd[c]), Answer(c)
  PROVE  Goes(c, cmd[c])
<1> DEFINE p == cmd[c]
<1> SUFFICES Goes(c, p)
  OBVIOUS
<1>1. p \in Command /\ Sound(p) /\ p.pc = "ask"
  BY DEF TypeOK, Answer, At
<1>2. \/ Become(c, Failed(p, "Invalid"))
      \/ \E typed \in Secrets : Become(c, WithSecret(Asked(p), typed))
      \/ \E e \in {"Invalid", "Io"} : Become(c, Failed(Asked(p), e))
  BY Zenon DEF Answer, Asked
<1> HIDE DEF p
<1>3. PICK r : r = Asked(p)
  OBVIOUS
<1>4. r \in Command /\ Same(p, r, {"asked"})
  BY <1>1, <1>3, AskedFields
<1>5. /\ r.opt = p.opt /\ r.enrolling = p.enrolling /\ r.queue = p.queue /\ r.pc = p.pc
      /\ r.prompts = p.prompts /\ r.failures = p.failures /\ r.refused = p.refused
  BY <1>4 DEF Same, Fields
<1>6. ~p.enrolling /\ ~p.refused /\ ~p.opt.noInput /\ ~HasEnv(p) /\ ~EnvLoop(p)
  BY <1>1 DEF Sound, Phases, Dismissed, Quiet, Answered, Loud, EnvLoop
<1>7. p.failures = 0 /\ p.opt.profile /\ ~EnvLoop(p) => p.prompts <= 1
  BY <1>1, <1>6, FieldTypes DEF Sound, FewPrompts, Bound
<1>8. \A e \in Errors : Fails(p, e) /\ Fails(r, e)
  <2>1. Same(p, r, {"asked", "prompts", "failures", "refused"})
    BY <1>4 DEF Same
  <2>2. \A e \in Errors : Fails(p, e)
    BY <1>1, SoundFails
  <2>3. \A e \in Errors : Fails(r, e)
    BY <1>1, <1>4, <1>5, <1>6, <1>7, <2>1, LaterFails DEF Loud
  <2> QED
    BY <2>2, <2>3
<1>9. CASE Become(c, Failed(p, "Invalid"))
  BY <1>1, <1>8, <1>9, FailedSound DEF Goes, Errors
<1>10. ASSUME NEW typed \in Secrets, Become(c, WithSecret(r, typed))
       PROVE  Goes(c, p)
  <2>1. r.queue # <<>>
    BY <1>1, <1>5, <1>6 DEF Sound, Recovers, HasPassphrase
  <2>2. ~EnvLoop(r)
    BY <1>5, <1>6 DEF EnvLoop, HasEnv
  <2>3. Fails(r, "Integrity")
    BY <1>8 DEF Errors
  <2> QED
    BY <1>4, <1>5, <1>6, <1>10, <2>1, <2>2, <2>3, WithSecretSound DEF Goes
<1>11. ASSUME NEW e \in {"Invalid", "Io"}, Become(c, Failed(r, e))
       PROVE  Goes(c, p)
  BY <1>4, <1>5, <1>8, <1>11, FailedSound DEF Goes, Errors
<1> QED
  BY <1>2, <1>3, <1>9, <1>10, <1>11

(* The errors of the calls into Windows. *)
LEMMA StatusIsError ==
  ASSUME NEW st \in Refusals \cup Failures \cup {"NotFound"}
  PROVE  /\ MapStatus(st) \in Errors \ {"Integrity"}
         /\ st \in Refusals => MapStatus(st) = "AuthCancelled" /\ st \notin Failures
         /\ st \notin Refusals => MapStatus(st) = "AuthUnavailable"
BY DEF MapStatus, Refusals, Failures, Errors

(* A call into Windows fails, or the user dismisses its dialog. *)
LEMMA CallFails ==
  ASSUME NEW p \in Command, Sound(p), p.pc \in {"openkey", "create", "pubkey", "sign"},
         NEW r \in Command, Same(p, r, {"prompts"}),
         NEW st \in Refusals \cup Failures,
         st \in Refusals /\ p.failures = 0 /\ p.opt.profile /\ ~EnvLoop(p)
           => r.prompts <= IF p.enrolling THEN 3 ELSE 1,
         NEW q, q = SlotFailed(Noted(r, st), MapStatus(st))
  PROVE  q \in Command /\ Sound(q) /\ q.opt = p.opt
<1>1. PICK n : n = Noted(r, st)
  OBVIOUS
<1>2. /\ n \in Command /\ Same(r, n, {"refused", "failures"})
      /\ st \notin Refusals => n.refused = r.refused
      /\ n.failures = IF st \in Failures THEN r.failures + 1 ELSE r.failures
  BY <1>1, NotedFields
<1>3. /\ r.failures = p.failures /\ r.refused = p.refused /\ n.prompts = r.prompts
      /\ n.opt = p.opt /\ n.enrolling = p.enrolling /\ n.queue = p.queue
  BY <1>2 DEF Same, Fields
<1>4. Same(p, n, {"asked", "prompts", "failures", "refused"})
  BY <1>2 DEF Same, Fields
<1>6. ~p.refused
  BY DEF Sound, Dismissed
<1>7. st \in Failures => n.failures # 0
  BY <1>2, FieldTypes
<1>8. /\ MapStatus(st) \in Errors \ {"Integrity"}
      /\ st \in Refusals => MapStatus(st) = "AuthCancelled" /\ st \notin Failures
      /\ st \notin Refusals => MapStatus(st) = "AuthUnavailable"
  BY StatusIsError
<1>9. Fails(n, MapStatus(st))
  <2>1. n.failures = 0 /\ p.opt.profile /\ ~EnvLoop(p)
          => n.prompts <= IF p.enrolling THEN 3 ELSE 1
    BY <1>2, <1>3, <1>7
  <2>2. n.asked = p.asked
    BY <1>2 DEF Same, Fields
  <2>3. HasEnv(p) => n.asked = 0
    BY <2>2 DEF Sound, Answered
  <2> QED
    BY <1>2, <1>4, <1>8, <2>1, <2>3, LaterFails DEF Loud
<1>10. ASSUME MapStatus(st) = "AuthUnavailable", ~n.enrolling
       PROVE  /\ ~n.refused /\ n.queue # <<>>
              /\ EnvLoop(n) => HasPlace(n) /\ Relabelled(n)
              /\ ~n.opt.noInput => HasPassphrase(n.queue) /\ IsHello(n.queue[1])
              /\ n.failures = 0 /\ n.opt.profile /\ ~EnvLoop(n) => n.prompts = 0
  <2>1. st \in Failures
    BY <1>8, <1>10
  <2>2. ~n.refused
    BY <1>2, <1>3, <1>6, <1>8, <1>10
  <2>3. ~p.opt.noInput /\ p.pc \in {"openkey", "sign"}
    BY <1>3, <1>10 DEF Sound, Quiet, Phases, Loud
  <2>4. HasPassphrase(p.queue) /\ IsHello(p.queue[1])
    BY <1>3, <1>10, <2>3 DEF Sound, Recovers, Phases
  <2>5. ASSUME EnvLoop(n) PROVE HasPlace(n) /\ Relabelled(n)
    <3>1. HasPlace(p) /\ Relabelled(p)
      BY <1>3, <1>10, <2>3, <2>5 DEF Sound, Loop, EnvLoop, HasEnv
    <3>2. n.header = p.header /\ n.at = p.at /\ n.skipped = p.skipped
      BY <1>2 DEF Same, Fields
    <3>3. Relabelled(n)
      BY <1>3, <3>1, <3>2, StaysRelabelled
    <3> QED
      BY <3>1, <3>2, <3>3 DEF HasPlace
  <2> QED
    BY <1>3, <1>7, <2>1, <2>2, <2>4, <2>5 DEF HasPassphrase
<1> QED
  BY <1>1, <1>2, <1>3, <1>8, <1>9, <1>10, SlotFailedSound

LEMMA OpenKeySound ==
  ASSUME TypeOK, NEW c \in Cmds, Sound(cmd[c]), OpenKey(c)
  PROVE  Goes(c, cmd[c])
<1> DEFINE p == cmd[c]
<1> SUFFICES Goes(c, p)
  OBVIOUS
<1>1. p \in Command /\ Sound(p) /\ p.pc = "openkey"
  BY DEF TypeOK, OpenKey, At
<1>2. \/ p.enrolling /\ Become(c, Tried(p, "pubkey"))
      \/ ~p.enrolling /\ Become(c, Tried(p, "sign"))
      \/ p.enrolling /\ Become(c, Tried(p, "create"))
      \/ ~p.enrolling /\ Become(c, SlotFailed(p, MapStatus("NotFound")))
      \/ \E st \in Failures : Become(c, SlotFailed(Noted(p, st), MapStatus(st)))
  <2>1. CASE p.enrolling
    BY <2>1, Zenon DEF OpenKey, Tried
  <2>2. CASE ~p.enrolling
    BY <2>2, Zenon DEF OpenKey, Tried
  <2> QED
    BY <2>1, <2>2
<1> HIDE DEF p
<1>3. ~p.refused /\ p.result = "none" /\ ~p.opt.noInput
  BY <1>1 DEF Sound, Phases, Dismissed, Quiet, Loud
<1>4. ~p.enrolling => /\ HasPassphrase(p.queue) /\ IsHello(p.queue[1])
                      /\ EnvLoop(p) => HasPlace(p) /\ Relabelled(p)
  BY <1>1, <1>3 DEF Sound, Recovers, Loop
<1>5. p.failures = 0 /\ p.opt.profile /\ ~EnvLoop(p)
        => p.prompts <= IF p.enrolling THEN 1 ELSE 0
  BY <1>1 DEF Sound, FewPrompts, Bound
<1>6. ASSUME NEW step \in {"pubkey", "sign", "create"}, Become(c, Tried(p, step)),
             step = "sign" \/ p.enrolling
      PROVE  Goes(c, p)
  <2>1. PICK q : q = Tried(p, step)
    OBVIOUS
  <2>2. q \in Command /\ q.pc = step /\ Same(p, q, {"pc", "tries"})
    BY <1>1, <2>1, TriedFields DEF Places
  <2>3. q.failures = p.failures /\ q.prompts = p.prompts /\ q.enrolling = p.enrolling
    BY <2>2 DEF Same, Fields
  <2>4. Same(p, q, {"pc", "tries", "spki", "signer", "prompts", "failures"})
    BY <2>2 DEF Same
  <2>5. q.failures = 0 /\ p.opt.profile /\ ~EnvLoop(p) => q.prompts <= Bound(q)
    BY <1>1, <1>5, <1>6, <2>2, <2>3, FieldTypes DEF Bound
  <2>6. Sound(q) /\ q.opt = p.opt
    BY <1>1, <1>3, <1>4, <1>6, <2>2, <2>4, <2>5, MovedSound DEF Loud
  <2> QED
    BY <1>6, <2>1, <2>2, <2>6 DEF Goes
<1>7. CASE ~p.enrolling /\ Become(c, SlotFailed(p, MapStatus("NotFound")))
  <2>1. Fails(p, "AuthUnavailable")
    BY <1>1, SoundFails DEF Errors
  <2>2. p.queue # <<>> /\ MapStatus("NotFound") = "AuthUnavailable"
    BY <1>4, <1>7 DEF HasPassphrase, MapStatus
  <2>3. p.failures = 0 /\ p.opt.profile /\ ~EnvLoop(p) => p.prompts = 0
    BY <1>1, <1>5, <1>7, FieldTypes
  <2> QED
    BY <1>1, <1>3, <1>4, <1>7, <2>1, <2>2, <2>3, SlotFailedSound DEF Goes, Errors
<1>8. ASSUME NEW st \in Failures, Become(c, SlotFailed(Noted(p, st), MapStatus(st)))
      PROVE  Goes(c, p)
  <2>1. Same(p, p, {"prompts"}) /\ st \notin Refusals
    BY DEF Same, Failures, Refusals
  <2> QED
    BY <1>1, <1>8, <2>1, CallFails DEF Goes
<1> QED
  BY <1>2, <1>6, <1>7, <1>8

(* A transient error is tried again: the command stays where it is. *)
LEMMA RetriedSound ==
  ASSUME NEW p \in Command, Sound(p), p.pc \in {"create", "sign"},
         NEW r \in Command, Same(p, r, {"prompts"}), NEW q, q = Retried(r)
  PROVE  q \in Command /\ Sound(q) /\ q.opt = p.opt
<1>1. q \in Command /\ q.failures = r.failures + 1 /\ Same(r, q, {"failures", "tries"})
  BY RetriedFields
<1>2. q.failures # 0
  BY <1>1, FieldTypes
<1>3. Same(p, q, {"pc", "tries", "spki", "signer", "prompts", "failures"}) /\ q.pc = p.pc
  BY <1>1 DEF Same, Fields
<1>4. ~p.refused /\ p.result = "none" /\ ~p.opt.noInput
  BY DEF Sound, Phases, Dismissed, Quiet, Loud
<1>5. /\ p.pc = "create" => p.enrolling
      /\ ~p.enrolling => /\ HasPassphrase(p.queue) /\ IsHello(p.queue[1])
                         /\ EnvLoop(p) => HasPlace(p) /\ Relabelled(p)
  BY <1>4 DEF Sound, Phases, Recovers, Loop
<1> QED
  BY <1>1, <1>2, <1>3, <1>4, <1>5, MovedSound DEF Loud

LEMMA CreateKeySound ==
  ASSUME TypeOK, NEW c \in Cmds, Sound(cmd[c]), CreateKey(c)
  PROVE  Goes(c, cmd[c])
<1> DEFINE p == cmd[c]
<1> SUFFICES Goes(c, p)
  OBVIOUS
<1>1. p \in Command /\ Sound(p) /\ p.pc = "create"
  BY DEF TypeOK, CreateKey, At
<1>2. \/ Become(c, Goto(Prompted(p), "pubkey"))
      \/ \E st \in Refusals \cup Failures :
           Become(c, Failed(Noted(Prompted(p), st), MapStatus(st)))
      \/ Become(c, Retried(Prompted(p)))
  <2> DEFINE r == [p EXCEPT !.prompts = @ + 1]
  <2>1. \/ Become(c, Goto(r, "pubkey"))
        \/ \E st \in Refusals : Become(c, Failed(Noted(r, st), MapStatus(st)))
        \/ \E st \in Failures :
             Become(c, IF st = "Transient" /\ r.tries = 0 THEN Retried(r)
                       ELSE Failed(Noted(r, st), MapStatus(st)))
    BY Zenon DEF CreateKey
  <2>2. r = Prompted(p)
    BY DEF Prompted
  <2> HIDE DEF r, p
  <2> QED
    BY <2>1, <2>2, Zenon
<1> HIDE DEF p
<1>3. PICK r : r = Prompted(p)
  OBVIOUS
<1>4. r \in Command /\ r.prompts = p.prompts + 1 /\ Same(p, r, {"prompts"})
  BY <1>1, <1>3, PromptedFields
<1>5. r.enrolling = p.enrolling /\ r.failures = p.failures
  BY <1>4 DEF Same, Fields
<1>6. p.enrolling /\ ~p.refused /\ p.result = "none" /\ ~p.opt.noInput
  BY <1>1 DEF Sound, Phases, Dismissed, Quiet, Loud
<1>7. p.failures = 0 /\ p.opt.profile /\ ~EnvLoop(p) => p.prompts <= 1
  BY <1>1, <1>6 DEF Sound, FewPrompts, Bound
<1>8. CASE Become(c, Goto(r, "pubkey"))
  <2>1. PICK q : q = Goto(r, "pubkey")
    OBVIOUS
  <2>2. q \in Command /\ q.pc = "pubkey" /\ Same(r, q, {"pc"})
    BY <1>4, <2>1, GotoFields DEF Places
  <2>3. q.failures = p.failures /\ q.prompts = p.prompts + 1 /\ q.enrolling = p.enrolling
    BY <1>4, <2>2 DEF Same, Fields
  <2>4. Same(p, q, {"pc", "tries", "spki", "signer", "prompts", "failures"})
    BY <1>4, <2>2 DEF Same
  <2>5. q.failures = 0 /\ p.opt.profile /\ ~EnvLoop(p) => q.prompts <= Bound(q)
    BY <1>1, <1>6, <1>7, <2>2, <2>3, FieldTypes DEF Bound
  <2>6. Sound(q) /\ q.opt = p.opt
    BY <1>1, <1>6, <2>2, <2>4, <2>5, MovedSound DEF Loud
  <2> QED
    BY <1>8, <2>1, <2>2, <2>6 DEF Goes
<1>9. ASSUME NEW st \in Refusals \cup Failures, Become(c, Failed(Noted(r, st), MapStatus(st)))
      PROVE  Goes(c, p)
  <2>1. Noted(r, st).enrolling
    BY <1>4, <1>5, <1>6, NotedFields DEF Same, Fields
  <2>2. Failed(Noted(r, st), MapStatus(st)) = SlotFailed(Noted(r, st), MapStatus(st))
    BY <2>1 DEF SlotFailed
  <2>3. p.failures = 0 /\ p.opt.profile /\ ~EnvLoop(p) => r.prompts <= 3
    BY <1>1, <1>4, <1>7, FieldTypes
  <2> QED
    BY <1>1, <1>4, <1>6, <1>9, <2>2, <2>3, CallFails DEF Goes
<1>10. CASE Become(c, Retried(r))
  BY <1>1, <1>4, <1>10, RetriedSound DEF Goes
<1> QED
  BY <1>2, <1>3, <1>8, <1>9, <1>10

LEMMA PublicKeySound ==
  ASSUME TypeOK, NEW c \in Cmds, Sound(cmd[c]), PublicKey(c)
  PROVE  Goes(c, cmd[c])
<1> DEFINE p == cmd[c]
<1> SUFFICES Goes(c, p)
  OBVIOUS
<1>1. p \in Command /\ Sound(p) /\ p.pc = "pubkey" /\ cred \in 0..Keys
  BY UnlockConstants DEF TypeOK, PublicKey, At
<1>2. \/ Become(c, Failed(p, "AuthUnavailable")) \/ Become(c, Keyed(p, cred))
      \/ \E st \in Failures : Become(c, Failed(Noted(p, st), MapStatus(st)))
  BY Zenon DEF PublicKey, Keyed
<1> HIDE DEF p
<1>3. p.enrolling /\ ~p.refused /\ p.result = "none" /\ ~p.opt.noInput
  BY <1>1 DEF Sound, Phases, Dismissed, Quiet, Loud
<1>4. CASE Become(c, Failed(p, "AuthUnavailable"))
  <2>1. Fails(p, "AuthUnavailable")
    BY <1>1, SoundFails DEF Errors
  <2> QED
    BY <1>1, <1>3, <1>4, <2>1, FailedSound DEF Goes, Errors
<1>5. CASE Become(c, Keyed(p, cred))
  <2>1. PICK q : q = Keyed(p, cred)
    OBVIOUS
  <2>2. q \in Command /\ q.pc = "sign" /\ Same(p, q, {"pc", "spki", "tries"})
    BY <1>1, <2>1, KeyedFields
  <2>3. q.failures = p.failures /\ q.prompts = p.prompts /\ q.enrolling = p.enrolling
    BY <2>2 DEF Same, Fields
  <2>4. Same(p, q, {"pc", "tries", "spki", "signer", "prompts", "failures"})
    BY <2>2 DEF Same
  <2>5. q.failures = 0 /\ p.opt.profile /\ ~EnvLoop(p) => q.prompts <= Bound(q)
    BY <1>1, <1>3, <2>2, <2>3 DEF Sound, FewPrompts, Bound
  <2>6. Sound(q) /\ q.opt = p.opt
    BY <1>1, <1>3, <2>2, <2>4, <2>5, MovedSound DEF Loud
  <2> QED
    BY <1>5, <2>1, <2>2, <2>6 DEF Goes
<1>6. ASSUME NEW st \in Failures, Become(c, Failed(Noted(p, st), MapStatus(st)))
      PROVE  Goes(c, p)
  <2>1. Noted(p, st).enrolling
    BY <1>1, <1>3, NotedFields DEF Same, Fields
  <2>2. Failed(Noted(p, st), MapStatus(st)) = SlotFailed(Noted(p, st), MapStatus(st))
    BY <2>1 DEF SlotFailed
  <2>3. Same(p, p, {"prompts"}) /\ st \notin Refusals
    BY DEF Same, Failures, Refusals
  <2> QED
    BY <1>1, <1>6, <2>2, <2>3, CallFails DEF Goes
<1> QED
  BY <1>2, <1>4, <1>5, <1>6

LEMMA SignSound ==
  ASSUME TypeOK, NEW c \in Cmds, Sound(cmd[c]), Sign(c)
  PROVE  Goes(c, cmd[c])
<1> DEFINE p == cmd[c]
<1> SUFFICES Goes(c, p)
  OBVIOUS
<1>1. p \in Command /\ Sound(p) /\ p.pc = "sign" /\ cred \in 0..Keys
  BY UnlockConstants DEF TypeOK, Sign, At
<1>2. \/ Become(c, SlotFailed(p, "AuthUnavailable"))
      \/ p.enrolling /\ Verified(Prompted(p)) /\ Become(c, Signed(Prompted(p), cred, "seal"))
      \/ ~p.enrolling /\ Become(c, Signed(Prompted(p), cred, "unwrap"))
      \/ Become(c, SlotFailed(Prompted(p), "Integrity"))
      \/ \E st \in Refusals \cup Failures :
           Become(c, SlotFailed(Noted(Prompted(p), st), MapStatus(st)))
      \/ Become(c, Retried(Prompted(p)))
  <2> DEFINE r == [p EXCEPT !.prompts = @ + 1]
  <2>1. \/ Become(c, SlotFailed(p, "AuthUnavailable"))
        \/ Become(c, IF Verified(r)
                     THEN [r EXCEPT !.signer = cred,
                                    !.pc = IF r.enrolling THEN "seal" ELSE "unwrap"]
                     ELSE SlotFailed(r, "Integrity"))
        \/ \E st \in Refusals : Become(c, SlotFailed(Noted(r, st), MapStatus(st)))
        \/ \E st \in Failures :
             Become(c, IF st = "Transient" /\ r.tries = 0 THEN Retried(r)
                       ELSE SlotFailed(Noted(r, st), MapStatus(st)))
    BY Zenon DEF Sign
  <2>2. r = Prompted(p)
    BY DEF Prompted
  <2>3. r.enrolling = p.enrolling
    BY <1>1, <2>2, PromptedFields DEF Same, Fields
  <2>4. [r EXCEPT !.signer = cred, !.pc = IF r.enrolling THEN "seal" ELSE "unwrap"]
          = Signed(r, cred, IF r.enrolling THEN "seal" ELSE "unwrap")
    BY Zenon DEF Signed
  <2> HIDE DEF r, p
  <2> QED
    BY <2>1, <2>2, <2>3, <2>4, Zenon
<1> HIDE DEF p
<1>3. PICK r : r = Prompted(p)
  OBVIOUS
<1>4. r \in Command /\ r.prompts = p.prompts + 1 /\ Same(p, r, {"prompts"})
  BY <1>1, <1>3, PromptedFields
<1>5. /\ r.enrolling = p.enrolling /\ r.failures = p.failures /\ r.refused = p.refused
      /\ r.spki = p.spki /\ r.queue = p.queue /\ r.opt = p.opt
  BY <1>4 DEF Same, Fields
<1>6. ~p.refused /\ p.result = "none" /\ ~p.opt.noInput
  BY <1>1 DEF Sound, Phases, Dismissed, Quiet, Loud
<1>7. ~p.enrolling => /\ HasPassphrase(p.queue) /\ IsHello(p.queue[1])
                      /\ EnvLoop(p) => HasPlace(p) /\ Relabelled(p)
  BY <1>1, <1>6 DEF Sound, Recovers, Loop
<1>8. p.failures = 0 /\ p.opt.profile /\ ~EnvLoop(p) =>
        /\ p.prompts <= IF p.enrolling THEN 2 ELSE 0
        /\ r.prompts <= IF p.enrolling THEN 3 ELSE 1
  <2>1. p.failures = 0 /\ p.opt.profile /\ ~EnvLoop(p)
          => p.prompts <= IF p.enrolling THEN 2 ELSE 0
    BY <1>1 DEF Sound, FewPrompts, Bound
  <2> QED
    BY <1>1, <1>4, <2>1, FieldTypes
<1>9. CASE Become(c, SlotFailed(p, "AuthUnavailable"))
  <2>1. Fails(p, "AuthUnavailable")
    BY <1>1, SoundFails DEF Errors
  <2>2. ~p.enrolling => /\ p.queue # <<>>
                        /\ p.failures = 0 /\ p.opt.profile /\ ~EnvLoop(p) => p.prompts = 0
    BY <1>1, <1>7, <1>8, FieldTypes DEF HasPassphrase
  <2> QED
    BY <1>1, <1>6, <1>7, <1>9, <2>1, <2>2, SlotFailedSound DEF Goes, Errors
<1>10. ASSUME NEW step \in {"seal", "unwrap"}, Become(c, Signed(r, cred, step)),
              IF step = "seal" THEN p.enrolling /\ Verified(r) ELSE ~p.enrolling
       PROVE  Goes(c, p)
  <2>1. PICK q : q = Signed(r, cred, step)
    OBVIOUS
  <2>2. q \in Command /\ q.pc = step /\ q.signer = cred /\ Same(r, q, {"pc", "signer"})
    <3>1. step \in Places
      BY <1>10 DEF Places
    <3> QED
      BY <1>1, <1>4, <2>1, <3>1, SignedFields
  <2>3. /\ q.failures = p.failures /\ q.prompts = r.prompts /\ q.enrolling = p.enrolling
        /\ q.spki = p.spki
    BY <1>5, <2>2 DEF Same, Fields
  <2>4. Same(p, q, {"pc", "tries", "spki", "signer", "prompts", "failures"})
    BY <1>4, <2>2 DEF Same
  <2>5. q.failures = 0 /\ p.opt.profile /\ ~EnvLoop(p) => q.prompts <= Bound(q)
    BY <1>8, <1>10, <2>2, <2>3 DEF Bound
  <2>6. q.pc = "seal" => q.signer = q.spki
    BY <1>5, <1>10, <2>2, <2>3 DEF Verified, Expected
  <2>7. Sound(q) /\ q.opt = p.opt
    BY <1>1, <1>6, <1>7, <1>10, <2>2, <2>4, <2>5, <2>6, MovedSound DEF Loud
  <2> QED
    BY <1>10, <2>1, <2>2, <2>7 DEF Goes
<1>11. CASE Become(c, SlotFailed(r, "Integrity"))
  <2>1. Same(p, r, {"asked", "prompts", "failures", "refused"})
    BY <1>4 DEF Same
  <2>2. r.asked = p.asked
    BY <1>4 DEF Same, Fields
  <2>3. HasEnv(p) => r.asked = 0
    BY <1>1, <2>2 DEF Sound, Answered
  <2>4. Fails(r, "Integrity")
    BY <1>1, <1>4, <1>5, <1>6, <1>8, <2>1, <2>3, LaterFails DEF Loud, Errors
  <2> QED
    BY <1>4, <1>5, <1>11, <2>4, SlotFailedSound DEF Goes, Errors
<1>12. ASSUME NEW st \in Refusals \cup Failures, Become(c, SlotFailed(Noted(r, st), MapStatus(st)))
       PROVE  Goes(c, p)
  BY <1>1, <1>4, <1>8, <1>12, CallFails DEF Goes
<1>13. CASE Become(c, Retried(r))
  BY <1>1, <1>4, <1>13, RetriedSound DEF Goes
<1> QED
  BY <1>2, <1>3, <1>9, <1>10, <1>11, <1>12, <1>13

LEMMA UnwrapSound ==
  ASSUME TypeOK, NEW c \in Cmds, Sound(cmd[c]), Unwrap(c)
  PROVE  Goes(c, cmd[c])
<1> DEFINE p == cmd[c]
<1> SUFFICES Goes(c, p)
  OBVIOUS
<1>1. p \in Command /\ Sound(p) /\ p.pc = "unwrap"
  BY DEF TypeOK, Unwrap, At
<1>2. \/ p.opt.profile /\ Become(c, Opened(p))
      \/ ~p.opt.profile /\ Become(c, SlotFailed(p, "AuthUnavailable"))
  BY Zenon DEF Unwrap
<1> HIDE DEF p
<1>3. ~p.refused /\ ~p.opt.noInput /\ ~p.enrolling
  BY <1>1 DEF Sound, Phases, Dismissed, Quiet, Loud
<1>4. /\ HasPassphrase(p.queue) /\ IsHello(p.queue[1]) /\ p.queue # <<>>
      /\ EnvLoop(p) => HasPlace(p) /\ Relabelled(p)
  BY <1>1, <1>3 DEF Sound, Recovers, Loop, HasPassphrase
<1>5. Fails(p, "AuthUnavailable") /\ Fails(p, "Integrity")
  BY <1>1, SoundFails DEF Errors
<1>6. CASE Become(c, Opened(p))
  <2>1. EnvLoop(p) => p.at \in DOMAIN p.header /\ IsPassphrase(p.header[p.at])
    BY <1>4 DEF HasPlace
  <2> QED
    BY <1>1, <1>3, <1>4, <1>5, <1>6, <2>1, OpenedSound DEF Goes
<1>7. CASE ~p.opt.profile /\ Become(c, SlotFailed(p, "AuthUnavailable"))
  BY <1>1, <1>3, <1>4, <1>5, <1>7, SlotFailedSound DEF Goes, Errors
<1> QED
  BY <1>2, <1>6, <1>7

LEMMA ReadBodySound ==
  ASSUME TypeOK, NEW c \in Cmds, Sound(cmd[c]), ReadBody(c)
  PROVE  Goes(c, cmd[c])
<1> DEFINE p == cmd[c]
<1> SUFFICES Goes(c, p)
  OBVIOUS
<1>1. p \in Command /\ Sound(p) /\ p.pc = "body"
  BY DEF TypeOK, ReadBody, At
<1>2. \/ Become(c, Failed(p, "Integrity"))
      \/ ~p.opt.enroll /\ Become(c, Ended(p, "ok"))
      \/ CanPrompt(p) /\ Become(c, Goto(Enrolls(p), "openkey"))
      \/ Become(c, Ended(Enrolls(p), "AuthUnavailable"))
  BY Zenon DEF ReadBody, Enrolls
<1> HIDE DEF p
<1>3. PICK r : r = Enrolls(p)
  OBVIOUS
<1>4. r \in Command /\ r.enrolling /\ Same(p, r, {"enrolling", "header", "at", "queue", "skipped"})
  BY <1>1, <1>3, EnrollsFields
<1>5. /\ r.opt = p.opt /\ r.prompts = p.prompts /\ r.asked = p.asked /\ r.failures = p.failures
      /\ r.refused = p.refused /\ r.result = p.result
  BY <1>4 DEF Same, Fields
<1>6. ~p.refused /\ p.result = "none" /\ ~p.enrolling
  BY <1>1 DEF Sound, Phases, Dismissed
<1>7. p.failures = 0 /\ p.opt.profile /\ ~EnvLoop(p) => p.prompts <= 1
  BY <1>1, <1>6 DEF Sound, FewPrompts, Bound
<1>8. \A e \in Errors \cup {"ok"} : Fails(p, e)
  BY <1>1, SoundFails
<1>9. CASE Become(c, Failed(p, "Integrity"))
  BY <1>1, <1>8, <1>9, FailedSound DEF Goes, Errors
<1>10. CASE ~p.opt.enroll /\ Become(c, Ended(p, "ok"))
  BY <1>1, <1>8, <1>10, EndedSound DEF Goes, Errors
<1>11. CASE CanPrompt(p) /\ Become(c, Goto(r, "openkey"))
  <2>1. PICK q : q = Goto(r, "openkey")
    OBVIOUS
  <2>2. q \in Command /\ q.pc = "openkey" /\ Same(r, q, {"pc"})
    BY <1>4, <2>1, GotoFields DEF Places
  <2>3. /\ q.opt = p.opt /\ q.enrolling /\ q.prompts = p.prompts /\ q.asked = p.asked
        /\ q.failures = p.failures /\ q.refused = p.refused /\ q.result = p.result
    BY <1>4, <1>5, <2>2 DEF Same, Fields
  <2>4. ~q.opt.noInput /\ (HasEnv(q) => q.asked = 0)
    BY <1>1, <1>11, <2>3 DEF CanPrompt, Sound, Answered, HasEnv
  <2>5. /\ Dismissed(q) /\ SignedBy(q) /\ Phases(q) /\ Quiet(q) /\ Answered(q) /\ Recovers(q)
        /\ Loop(q)
    BY <1>6, <2>2, <2>3, <2>4 DEF Dismissed, SignedBy, Phases, Quiet, Answered, Recovers, Loop
  <2>6. FewPrompts(q)
    BY <1>7, <2>2, <2>3 DEF FewPrompts, Bound, EnvLoop, HasEnv
  <2>7. Sound(q)
    BY <2>5, <2>6 DEF Sound
  <2> QED
    BY <1>11, <2>1, <2>2, <2>3, <2>7 DEF Goes
<1>12. CASE Become(c, Ended(r, "AuthUnavailable"))
  <2>1. /\ p.opt.noInput => p.prompts = 0 /\ p.asked = 0
        /\ HasEnv(p) => p.asked = 0
    BY <1>1 DEF Sound, Quiet, Answered
  <2>2. p.failures = 0 /\ p.opt.profile /\ ~EnvLoop(p) => p.prompts <= 3
    BY <1>1, <1>7, FieldTypes
  <2>3. Fails(r, "AuthUnavailable")
    BY <1>4, <1>5, <1>6, <2>1, <2>2 DEF Fails, EnvLoop, HasEnv
  <2> QED
    BY <1>4, <1>5, <1>12, <2>3, EndedSound DEF Goes, Errors
<1> QED
  BY <1>2, <1>3, <1>9, <1>10, <1>11, <1>12

LEMMA SealSound ==
  ASSUME TypeOK, NEW c \in Cmds, Sound(cmd[c]), Seal(c)
  PROVE  Goes(c, cmd[c])
<1> DEFINE p == cmd[c]
<1> SUFFICES Goes(c, p)
  OBVIOUS
<1>1. p \in Command /\ Sound(p) /\ p.pc = "seal"
  BY DEF TypeOK, Seal, At
<1>2. Become(c, Ended(p, "ok")) \/ Become(c, Failed(p, "AuthUnavailable"))
  BY DEF Seal
<1> HIDE DEF p
<1>3. p.signer = p.spki /\ p.enrolling
  BY <1>1 DEF Sound, SignedBy, Phases
<1>4. Fails(p, "ok") /\ Fails(p, "AuthUnavailable")
  BY <1>1, SoundFails DEF Errors
<1>5. CASE Become(c, Ended(p, "ok"))
  BY <1>1, <1>3, <1>4, <1>5, EndedSound DEF Goes
<1>6. CASE Become(c, Failed(p, "AuthUnavailable"))
  BY <1>1, <1>3, <1>4, <1>6, FailedSound DEF Goes, Errors
<1> QED
  BY <1>2, <1>5, <1>6

-----------------------------------------------------------------------------
(* The invariant *)

IInv == TypeOK /\ \A c \in Cmds : Sound(cmd[c])

(* A step of a command is sound, and it is not made by one that has ended.  *)
LEMMA StepGoes ==
  ASSUME IInv, NEW c \in Cmds, Begin(c) \/ Work(c) \/ Answer(c) \/ CreateKey(c) \/ Sign(c)
  PROVE  /\ cmd[c].pc # "ended" /\ \E r : Goes(c, r)
         /\ Begin(c) \/ Goes(c, cmd[c])
<1>1. TypeOK /\ Sound(cmd[c])
  BY DEF IInv
<1>2. CASE Begin(c)
  BY <1>2, BeginSound DEF Begin, At
<1>3. CASE ReadHeader(c)
  BY <1>1, <1>3, ReadHeaderSound DEF ReadHeader, At
<1>4. CASE Order(c)
  BY <1>1, <1>4, OrderSound DEF Order, At
<1>5. CASE Try(c)
  BY <1>1, <1>5, TrySound DEF Try, At
<1>6. CASE OpenKey(c)
  BY <1>1, <1>6, OpenKeySound DEF OpenKey, At
<1>7. CASE PublicKey(c)
  BY <1>1, <1>7, PublicKeySound DEF PublicKey, At
<1>8. CASE Unwrap(c)
  BY <1>1, <1>8, UnwrapSound DEF Unwrap, At
<1>9. CASE ReadBody(c)
  BY <1>1, <1>9, ReadBodySound DEF ReadBody, At
<1>10. CASE Seal(c)
  BY <1>1, <1>10, SealSound DEF Seal, At
<1>11. CASE Answer(c)
  BY <1>1, <1>11, AnswerSound DEF Answer, At
<1>12. CASE CreateKey(c)
  BY <1>1, <1>12, CreateKeySound DEF CreateKey, At
<1>13. CASE Sign(c)
  BY <1>1, <1>13, SignSound DEF Sign, At
<1> QED
  BY <1>2, <1>3, <1>4, <1>5, <1>6, <1>7, <1>8, <1>9, <1>10, <1>11, <1>12, <1>13 DEF Work

(* The other commands stay as they are. *)
LEMMA GoesAlone ==
  ASSUME IInv, NEW c \in Cmds, NEW r, Goes(c, r)
  PROVE  /\ cmd' \in [Cmds -> Command] /\ \A d \in Cmds : Sound(cmd'[d])
         /\ \A d \in Cmds \ {c} : cmd'[d] = cmd[d]
<1>1. PICK q \in Command : Sound(q) /\ cmd' = [cmd EXCEPT ![c] = q]
  BY DEF Goes, Become
<1>2. cmd \in [Cmds -> Command] /\ \A d \in Cmds : Sound(cmd[d])
  BY DEF IInv, TypeOK
<1>3. cmd'[c] = q /\ \A d \in Cmds \ {c} : cmd'[d] = cmd[d]
  BY <1>1, <1>2
<1>4. cmd' \in [Cmds -> Command]
  BY <1>1, <1>2
<1>5. \A d \in Cmds : Sound(cmd'[d])
  BY <1>1, <1>2, <1>3
<1> QED
  BY <1>3, <1>4, <1>5

(* What a step of a command does to the file and to the Hello keys. *)
LEMMA StepKeys ==
  ASSUME TypeOK, NEW c \in Cmds, Begin(c) \/ Work(c) \/ Answer(c) \/ CreateKey(c) \/ Sign(c)
  PROVE  /\ file' = file /\ changes' = changes
         /\ keys' \in 1..Keys /\ cred' \in 0..keys'
<1>1. keys \in 1..Keys /\ cred \in 0..keys /\ Keys \in Nat
  BY UnlockConstants DEF TypeOK
<1>2. CASE CreateKey(c)
  <2>1. /\ cred' \in {cred, Created} /\ keys < Keys /\ file' = file /\ changes' = changes
        /\ keys' = IF cred' > keys THEN cred' ELSE keys
    BY <1>2 DEF CreateKey
  <2>2. Created \in 1..(keys + 1)
    BY <1>1 DEF Created
  <2> QED
    BY <1>1, <2>1, <2>2
<1>3. CASE Begin(c) \/ Work(c) \/ Answer(c) \/ Sign(c)
  <2>1. UNCHANGED <<file, cred, keys, changes>>
    BY <1>3
    DEF Begin, Work, Answer, Sign, ReadHeader, Order, Try, OpenKey, PublicKey, Unwrap, ReadBody, Seal
  <2> QED
    BY <1>1, <2>1
<1> QED
  BY <1>2, <1>3

LEMMA InitInvariant == Init => IInv
<1> SUFFICES ASSUME Init PROVE IInv
  OBVIOUS
<1>1. /\ Idle.pc = "new" /\ Idle.result = "none" /\ ~Idle.enrolling /\ ~Idle.refused
      /\ Idle.prompts = 0 /\ Idle.asked = 0
  BY DEF Idle
<1>2. Idle \in Command
  <2>1. <<>> \in Seq(Slot) /\ 0 \in 0..Keys
    BY UnlockConstants
  <2> QED
    BY <2>1 DEF Idle, Command, Results
<1>3. Sound(Idle)
  BY <1>1
  DEF Sound, Dismissed, SignedBy, Phases, Quiet, Answered, Loud, Recovers, Loop, FewPrompts, Bound
<1>4. cmd = [c \in Cmds |-> Idle] /\ \A c \in Cmds : cmd[c] = Idle
  BY DEF Init
<1>5. cmd \in [Cmds -> Command] /\ \A c \in Cmds : (cmd[c].result # "none") = (cmd[c].pc = "ended")
  BY <1>1, <1>2, <1>4
<1>6. file \in Files /\ keys \in 1..Keys /\ cred \in 0..keys /\ changes \in 0..MaxChanges
  BY UnlockConstants DEF Init
<1> QED
  BY <1>3, <1>4, <1>5, <1>6 DEF IInv, TypeOK

LEMMA NextInvariant == IInv /\ [Next]_vars => IInv'
<1> SUFFICES ASSUME IInv, [Next]_vars PROVE IInv'
  OBVIOUS
<1>1. TypeOK
  BY DEF IInv
<1>2. ASSUME NEW c \in Cmds, Begin(c) \/ Work(c) \/ Answer(c) \/ CreateKey(c) \/ Sign(c)
      PROVE  IInv'
  <2>1. cmd' \in [Cmds -> Command] /\ \A d \in Cmds : Sound(cmd'[d])
    BY <1>2, StepGoes, GoesAlone
  <2>2. \A d \in Cmds : (cmd'[d].result # "none") = (cmd'[d].pc = "ended")
    BY <2>1 DEF Sound, Phases
  <2>3. file' = file /\ changes' = changes /\ keys' \in 1..Keys /\ cred' \in 0..keys'
    BY <1>1, <1>2, StepKeys
  <2> QED
    BY <1>1, <2>1, <2>2, <2>3 DEF IInv, TypeOK
<1>3. CASE PinReset
  BY <1>3, UnlockConstants DEF PinReset, IInv, TypeOK
<1>4. CASE Replace
  BY <1>4, UnlockConstants DEF Replace, IInv, TypeOK
<1>5. CASE UNCHANGED vars
  BY <1>5 DEF vars, IInv, TypeOK
<1> QED
  BY <1>2, <1>3, <1>4, <1>5 DEF Next, Done

(* In every reachable state each command is where a sound unlock may be:    *)
(* what it may still ask, which slots are left, whose signature it holds.   *)
THEOREM Invariant == Spec => []IInv
BY InitInvariant, NextInvariant, PTL DEF Spec

-----------------------------------------------------------------------------
(* The loop over the passphrase slots *)

(* No passphrase slot before place i takes the secret of WCM_PASSPHRASE.    *)
NoneFits(r, i) ==
  \A j \in DOMAIN file.slots :
    IsPassphrase(file.slots[j]) /\ j < i => file.slots[j].sec # r.opt.env

(* An unlock with WCM_PASSPHRASE, while the file does not change, is at the *)
(* first of the passphrase slots that it has not found wrong.               *)
Finds(r) ==
  EnvLoop(r) /\ ~r.opt.enroll =>
    /\ ~r.enrolling /\ r.pc \notin Loud
    /\ r.pc \in {"order", "try", "body"} => r.header = file.slots /\ NoneFits(r, r.at)
    /\ r.pc = "try" => r.queue # <<>> /\ r.queue[1] = file.slots[r.at]
    /\ r.pc = "body" => r.dek = file.dek
    /\ r.pc = "ended" => r.result = "ok" \/ \A j \in DOMAIN file.slots :
                           IsPassphrase(file.slots[j]) => file.slots[j].sec # r.opt.env

EInv == changes = 0 => \A c \in Cmds : Finds(cmd[c])

LEMMA ReadHeaderFinds ==
  ASSUME IInv, NEW c \in Cmds, ReadHeader(c), NEW q, Become(c, q),
         EnvLoop(cmd[c]), ~cmd[c].enrolling, file' = file
  PROVE  Finds(q)'
<1> DEFINE p == cmd[c]
           i == NextPlace(file.slots, 0)
<1>1. p \in Command /\ cmd \in [Cmds -> Command] /\ file \in Files
  BY DEF IInv, TypeOK
<1>2. p.opt.env # "malformed"
  BY UnlockConstants DEF EnvLoop, HasEnv
<1>3. Become(c, Headed(p, file.slots, i))
  BY <1>2, Zenon DEF ReadHeader, Headed
<1>4. q = Headed(p, file.slots, i)
  BY <1>1, <1>3 DEF Become
<1>5. file.slots \in Seq(Slot) /\ i \in Nat /\ \A k \in Ahead(file.slots, 0) : i # 0 => i <= k
  BY <1>1, FileSlots, NextPlaceIsAhead
<1> HIDE DEF p, i
<1>6. /\ q.pc = "order" /\ q.header = file.slots /\ q.at = i
      /\ Same(p, q, {"pc", "header", "at"})
  BY <1>1, <1>4, <1>5, HeadedFields
<1>7. q.enrolling = p.enrolling /\ q.opt = p.opt
  BY <1>6 DEF Same, Fields
<1>8. NoneFits(q, i)
  BY <1>5 DEF NoneFits, Ahead
<1> QED
  BY <1>6, <1>7, <1>8 DEF Finds, NoneFits, EnvLoop, HasEnv, Loud, p

LEMMA OrderFinds ==
  ASSUME IInv, NEW c \in Cmds, Order(c), NEW q, Become(c, q),
         EnvLoop(cmd[c]), ~cmd[c].opt.enroll, Finds(cmd[c]), file' = file
  PROVE  Finds(q)'
<1> DEFINE p == cmd[c]
           s == file.slots
<1>1. /\ p \in Command /\ cmd \in [Cmds -> Command] /\ file \in Files /\ Sound(p) /\ p.pc = "order"
      /\ EnvLoop(p)
  BY DEF IInv, TypeOK, Order, At
<1>2. s \in Seq(Slot)
  BY <1>1, FileSlots
<1>3. p.header = s /\ p.at \in DOMAIN s /\ NoneFits(p, p.at) /\ ~p.enrolling
  BY <1>1 DEF Finds, Sound, Loop, HasPlace
<1>4. Preferred(p) # "none"
  BY <1>1, LoopPrefers
<1>5. Preferred(p) = s[p.at].label
  <2>1. p.at # 0
    BY <1>2, <1>3
  <2> QED
    BY <1>3, <2>1 DEF Preferred, EnvLoop
<1>6. Preferred(p) \in Labels(s)
  BY <1>3, <1>5 DEF Labels
<1>7. PICK i \in DOMAIN s : s[i].label = Preferred(p) /\ Become(c, Queued(p, Ordered(s, i)))
  BY <1>4, <1>6, Zenon DEF Order, Queued
<1>8. i = p.at
  BY <1>1, <1>3, <1>5, <1>7, UnlockConstants
<1>9. q = Queued(p, Ordered(s, p.at))
  BY <1>1, <1>7, <1>8 DEF Become
<1> HIDE DEF p
<1>10. PICK t : t = Ordered(s, p.at)
  OBVIOUS
<1>11. t \in Seq(Slot) /\ t # <<>> /\ t[1] = s[p.at]
  BY <1>2, <1>3, <1>10, OrderedSlots
<1>12. q.pc = "try" /\ q.queue = t /\ Same(p, q, {"pc", "queue", "skipped"})
  BY <1>1, <1>9, <1>10, <1>11, QueuedFields
<1>13. q.enrolling = p.enrolling /\ q.opt = p.opt /\ q.header = p.header /\ q.at = p.at
  BY <1>12 DEF Same, Fields
<1> QED
  BY <1>3, <1>11, <1>12, <1>13 DEF Finds, NoneFits, Loud

LEMMA TryFinds ==
  ASSUME IInv, NEW c \in Cmds, Try(c), NEW q, Become(c, q),
         EnvLoop(cmd[c]), ~cmd[c].opt.enroll, Finds(cmd[c]), file' = file
  PROVE  Finds(q)'
<1> DEFINE p == cmd[c]
           s == file.slots
<1>1. /\ p \in Command /\ cmd \in [Cmds -> Command] /\ file \in Files /\ Sound(p) /\ p.pc = "try"
      /\ EnvLoop(p) /\ HasEnv(p)
  BY DEF IInv, TypeOK, Try, At, EnvLoop
<1>2. s \in Seq(Slot) /\ p.queue \in Seq(Slot)
  BY <1>1, FileSlots, FieldTypes
<1>3. /\ p.header = s /\ p.at \in DOMAIN s /\ NoneFits(p, p.at) /\ ~p.enrolling
      /\ p.queue # <<>> /\ p.queue[1] = s[p.at] /\ IsPassphrase(p.queue[1])
  BY <1>1 DEF Finds, Sound, Loop, HasPlace
<1>4. Head(p.queue) = s[p.at]
  BY <1>2, <1>3
<1>5. ~IsHello(Head(p.queue))
  BY <1>3, <1>4 DEF IsHello, IsPassphrase
<1>6. Become(c, WithSecret(p, p.opt.env))
  BY <1>1, <1>3, <1>5, Zenon DEF Try
<1>7. q = WithSecret(p, p.opt.env)
  BY <1>1, <1>6 DEF Become
<1> HIDE DEF p
<1>8. CASE p.opt.env = s[p.at].sec
  <2>1. q = Opened(p)
    BY <1>4, <1>7, <1>8 DEF WithSecret
  <2>2. q.pc = "body" /\ q.dek = Head(p.queue).dek /\ Same(p, q, {"pc", "dek"})
    BY <1>1, <1>3, <2>1, OpenedFields
  <2>3. q.dek = file.dek
    BY <1>1, <1>3, <1>4, <2>2, UnlockConstants
  <2>4. q.enrolling = p.enrolling /\ q.opt = p.opt /\ q.header = p.header /\ q.at = p.at
    BY <2>2 DEF Same, Fields
  <2> QED
    BY <1>3, <2>2, <2>3, <2>4 DEF Finds, NoneFits, Loud
<1>9. CASE p.opt.env # s[p.at].sec
  <2>1. q = Failed(p, "Integrity")
    BY <1>4, <1>7, <1>9 DEF WithSecret
  <2> DEFINE n == NextPlace(s, p.at)
  <2>2. /\ n \in Nat /\ (n = 0 => Ahead(s, p.at) = {})
        /\ n # 0 => \A k \in Ahead(s, p.at) : n <= k
    BY <1>1, <1>2, FieldTypes, NextPlaceIsAhead
  <2>3. p.at \in Nat /\ DOMAIN s \subseteq Nat
    BY <1>1, <1>2, FieldTypes
  <2>4. \A j \in DOMAIN s : IsPassphrase(s[j]) /\ s[j].sec = p.opt.env => j \in Ahead(s, p.at)
    BY <1>3, <1>9, <2>3 DEF NoneFits, Ahead
  <2>5. GoesOn(p, "Integrity") = (n # 0)
    BY <1>1, <1>3 DEF GoesOn
  <2>6. CASE n # 0
    <3>1. q = Advanced(p, n)
      BY <1>3, <2>1, <2>5, <2>6, Zenon DEF Failed, Advanced
    <3> HIDE DEF n
    <3>2. q.pc = "order" /\ q.at = n /\ Same(p, q, {"pc", "at"})
      BY <1>1, <2>2, <3>1, AdvancedFields
    <3>3. q.enrolling = p.enrolling /\ q.opt = p.opt /\ q.header = p.header
      BY <3>2 DEF Same, Fields
    <3>4. NoneFits(q, n)
      BY <2>2, <2>3, <2>4, <2>6, <3>3 DEF NoneFits
    <3> QED
      BY <1>3, <3>2, <3>3, <3>4 DEF Finds, NoneFits, Loud
  <2>7. CASE n = 0
    <3>1. q = Ended(p, "Integrity")
      BY <2>1, <2>5, <2>7 DEF Failed
    <3>2. q.pc = "ended" /\ Same(p, q, {"pc", "result", "header", "at", "queue", "skipped", "tries"})
      BY <1>1, <3>1, EndedFields DEF Errors
    <3>3. q.enrolling = p.enrolling /\ q.opt = p.opt
      BY <3>2 DEF Same, Fields
    <3>4. \A j \in DOMAIN s : IsPassphrase(s[j]) => s[j].sec # p.opt.env
      BY <2>2, <2>4, <2>7
    <3> QED
      BY <1>3, <3>2, <3>3, <3>4 DEF Finds, Loud
  <2> QED
    BY <2>6, <2>7
<1> QED
  BY <1>8, <1>9

LEMMA ReadBodyFinds ==
  ASSUME IInv, NEW c \in Cmds, ReadBody(c), NEW q, Become(c, q),
         EnvLoop(cmd[c]), ~cmd[c].opt.enroll, Finds(cmd[c])
  PROVE  Finds(q)'
<1> DEFINE p == cmd[c]
<1>1. p \in Command /\ cmd \in [Cmds -> Command] /\ p.pc = "body"
  BY DEF IInv, TypeOK, ReadBody, At
<1>2. p.dek = file.dek /\ ~p.enrolling
  BY <1>1 DEF Finds
<1>3. Become(c, Ended(p, "ok"))
  BY <1>2, Zenon DEF ReadBody
<1>4. q = Ended(p, "ok")
  BY <1>1, <1>3 DEF Become
<1> HIDE DEF p
<1>5. /\ q.pc = "ended" /\ q.result = "ok"
      /\ Same(p, q, {"pc", "result", "header", "at", "queue", "skipped", "tries"})
  BY <1>1, <1>4, EndedFields
<1>6. q.enrolling = p.enrolling
  BY <1>5 DEF Same, Fields
<1> QED
  BY <1>2, <1>5, <1>6 DEF Finds, Loud

(* A step of a command leaves it where it should be. *)
LEMMA StepFinds ==
  ASSUME IInv, NEW c \in Cmds, Finds(cmd[c]), file' = file,
         Begin(c) \/ Work(c) \/ Answer(c) \/ CreateKey(c) \/ Sign(c)
  PROVE  Finds(cmd[c])'
<1>1. cmd[c] \in Command /\ cmd \in [Cmds -> Command] /\ Sound(cmd[c])
  BY DEF IInv, TypeOK
<1>2. CASE Begin(c)
  <2>1. PICK o \in Options : Become(c, Begun(o))
    BY <1>2, Zenon DEF Begin, Begun
  <2>2. cmd'[c] = Begun(o)
    BY <1>1, <2>1 DEF Become
  <2>3. cmd'[c].pc = "read" /\ cmd'[c].enrolling = FALSE
    BY <2>2, BegunFields
  <2> QED
    BY <2>3 DEF Finds, Loud
<1>3. CASE ~Begin(c)
  <2>1. PICK q : Sound(q) /\ q.opt = cmd[c].opt /\ Become(c, q)
    BY <1>3, StepGoes DEF Goes
  <2>2. cmd'[c] = q
    BY <1>1, <2>1 DEF Become
  <2>3. CASE ~EnvLoop(cmd[c]) \/ cmd[c].opt.enroll
    BY <2>1, <2>2, <2>3 DEF Finds, EnvLoop, HasEnv
  <2>4. CASE EnvLoop(cmd[c]) /\ ~cmd[c].opt.enroll
    <3>1. ~cmd[c].enrolling /\ cmd[c].pc \notin Loud
      BY <2>4 DEF Finds
    <3>2. ReadHeader(c) \/ Order(c) \/ Try(c) \/ ReadBody(c)
      BY <1>3, <3>1 DEF Work, Answer, CreateKey, Sign, OpenKey, PublicKey, Unwrap, Seal, At, Loud
    <3>3. Finds(q)'
      BY <2>1, <2>4, <3>1, <3>2, ReadHeaderFinds, OrderFinds, TryFinds, ReadBodyFinds
    <3> QED
      BY <2>2, <3>3 DEF Finds, NoneFits
  <2> QED
    BY <2>3, <2>4
<1> QED
  BY <1>2, <1>3

LEMMA InitFinds == Init => EInv
<1>1. Idle.pc = "new" /\ ~Idle.enrolling
  BY DEF Idle
<1>2. Init => \A c \in Cmds : cmd[c] = Idle
  BY DEF Init
<1> QED
  BY <1>1, <1>2 DEF EInv, Finds, Loud

LEMMA NextFinds == IInv /\ EInv /\ [Next]_vars => EInv'
<1> SUFFICES ASSUME IInv, EInv, [Next]_vars, changes' = 0, NEW d \in Cmds
             PROVE  Finds(cmd[d])'
  BY DEF EInv
<1>1. TypeOK /\ changes \in Nat
  BY UnlockConstants DEF IInv, TypeOK
<1>2. ASSUME NEW c \in Cmds, Begin(c) \/ Work(c) \/ Answer(c) \/ CreateKey(c) \/ Sign(c)
      PROVE  Finds(cmd[d])'
  <2>1. file' = file /\ changes = 0
    BY <1>1, <1>2, StepKeys
  <2>2. Finds(cmd[c]) /\ Finds(cmd[d])
    BY <2>1 DEF EInv
  <2>3. CASE d = c
    BY <1>2, <2>1, <2>2, <2>3, StepFinds
  <2>4. CASE d # c
    <3>1. cmd'[d] = cmd[d]
      BY <1>2, <2>4, StepGoes, GoesAlone
    <3> QED
      BY <2>1, <2>2, <3>1 DEF Finds, NoneFits
  <2> QED
    BY <2>3, <2>4
<1>3. CASE PinReset \/ Replace
  BY <1>1, <1>3 DEF PinReset, Replace
<1>4. CASE UNCHANGED vars
  BY <1>4 DEF vars, EInv, Finds, NoneFits
<1> QED
  BY <1>2, <1>3, <1>4 DEF Next, Done

LEMMA FindsInvariant == Spec => []EInv
BY InitFinds, NextFinds, Invariant, PTL DEF Spec

-----------------------------------------------------------------------------
(* The theorems *)

(* The progress of each command, the vault file and the Hello keys have     *)
(* their types in every state.                                              *)
THEOREM TypeCorrect == Spec => []TypeOK
<1>1. IInv => TypeOK
  BY DEF IInv
<1> QED
  BY <1>1, Invariant, PTL

(* With `--no-input` a command never asks anything: the session check       *)
(* (HelloBackend::check_session) keeps it from every prompt.  With a secret *)
(* in WCM_PASSPHRASE its user is never asked for one, and the loop over the *)
(* passphrase slots shows a Hello prompt only for a label that another      *)
(* command has given to a Hello slot since the header was read.             *)
THEOREM SilenceHolds == Spec => []SilenceIsKept
<1>1. IInv => SilenceIsKept
  <2> SUFFICES ASSUME IInv, NEW c \in Cmds PROVE
                 /\ cmd[c].opt.noInput => cmd[c].prompts = 0 /\ cmd[c].asked = 0
                 /\ HasEnv(cmd[c]) => cmd[c].asked = 0
                 /\ EnvLoop(cmd[c]) /\ ~cmd[c].enrolling /\ cmd[c].pc \in Prompting
                      => Relabelled(cmd[c])
    BY DEF SilenceIsKept
  <2>1. Sound(cmd[c])
    BY DEF IInv
  <2>2. /\ cmd[c].opt.noInput => cmd[c].prompts = 0 /\ cmd[c].asked = 0
        /\ HasEnv(cmd[c]) => cmd[c].asked = 0
    BY <2>1 DEF Sound, Quiet, Answered
  <2>3. EnvLoop(cmd[c]) /\ ~cmd[c].enrolling /\ cmd[c].pc \in Prompting => cmd[c].pc = "sign"
    BY <2>1 DEF Sound, Answered, Phases, EnvLoop, Prompting
  <2>4. EnvLoop(cmd[c]) /\ ~cmd[c].enrolling /\ cmd[c].pc = "sign" => Relabelled(cmd[c])
    BY <2>1 DEF Sound, Loop
  <2> QED
    BY <2>2, <2>3, <2>4
<1> QED
  BY <1>1, Invariant, PTL

(* An unlock comes to a slot that asks its user, unless it may not ask: the *)
(* slots left to try always have a passphrase slot among them.              *)
THEOREM RecoveryHolds == Spec => []RecoverySlotIsReached
<1>1. IInv => RecoverySlotIsReached
  BY DEF IInv, RecoverySlotIsReached, Sound, Recovers
<1> QED
  BY <1>1, Invariant, PTL

(* While no call into Windows fails, a command shows one Hello prompt, and  *)
(* two more for an enrolment: all but the loop over the slots for           *)
(* WCM_PASSPHRASE, where every label may have been given to a Hello slot.   *)
THEOREM OnePromptHolds == Spec => []OneHelloPrompt
<1>1. IInv => OneHelloPrompt
  <2> SUFFICES ASSUME IInv, NEW c \in Cmds, cmd[c].failures = 0, cmd[c].opt.profile,
                      ~EnvLoop(cmd[c])
               PROVE  cmd[c].prompts <= 1 + (IF cmd[c].enrolling THEN 2 ELSE 0)
    BY DEF OneHelloPrompt
  <2>1. cmd[c].prompts <= Bound(cmd[c]) /\ cmd[c].prompts \in Nat
    BY FieldTypes DEF IInv, TypeOK, Sound, FewPrompts
  <2> QED
    BY <2>1 DEF Bound
<1> QED
  BY <1>1, Invariant, PTL

(* The key named by a slot that an enrolment has sealed made the signature  *)
(* from which its wrapping key comes.                                       *)
THEOREM SealedSlotsHold == Spec => []SealedSlotsOpen
<1>1. IInv => SealedSlotsOpen
  BY DEF IInv, SealedSlotsOpen, Sound, SignedBy
<1> QED
  BY <1>1, Invariant, PTL

(* A dismissed dialog ends the command: no later step of any process shows  *)
(* its user another prompt.                                                 *)
THEOREM RefusalHolds == Spec => RefusalIsFinal
<1>1. IInv /\ [Next]_vars =>
        [\A c \in Cmds : cmd[c].refused => cmd'[c].prompts = cmd[c].prompts
                                             /\ cmd'[c].asked = cmd[c].asked]_vars
  <2> SUFFICES ASSUME IInv, [Next]_vars, NEW c \in Cmds, cmd[c].refused
               PROVE  cmd'[c] = cmd[c]
    BY DEF vars
  <2>1. cmd[c].pc = "ended"
    BY DEF IInv, Sound, Dismissed
  <2>2. ASSUME NEW d \in Cmds, Begin(d) \/ Work(d) \/ Answer(d) \/ CreateKey(d) \/ Sign(d)
        PROVE  cmd'[c] = cmd[c]
    <3>1. d # c /\ \E r : Goes(d, r)
      BY <2>1, <2>2, StepGoes
    <3> QED
      BY <3>1, GoesAlone
  <2>3. CASE PinReset \/ Replace \/ UNCHANGED vars
    BY <2>3 DEF PinReset, Replace, vars
  <2> QED
    BY <2>2, <2>3 DEF Next, Done
<1> QED
  BY <1>1, Invariant, PTL DEF Spec, RefusalIsFinal

(* WCM_PASSPHRASE may hold the secret of any passphrase slot: Ctx::unlock   *)
(* goes on past the slots it does not fit and ends at one that it does.     *)
THEOREM EnvPassphraseHolds == Spec => []EnvPassphraseOpens
<1>1. EInv => EnvPassphraseOpens
  BY DEF EInv, Finds, EnvPassphraseOpens
<1> QED
  BY <1>1, FindsInvariant, PTL
=============================================================================
