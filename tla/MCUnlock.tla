------------------------------ MODULE MCUnlock ------------------------------
(***************************************************************************)
(* Definitions for the configurations that model-check Unlock.             *)
(***************************************************************************)
EXTENDS Unlock

Hello(label, key, dek) ==
  [label |-> label, kind |-> "hello", sec |-> "unset", key |-> key, dek |-> dek]
Pass(label, sec, dek) ==
  [label |-> label, kind |-> "passphrase", sec |-> sec, key |-> 0, dek |-> dek]

(* A vault as `init` makes it with two more slots; and after a rekey that   *)
(* changed the recovery key, and after the passphrase slot was removed and  *)
(* its label given to a Hello slot.                                         *)
McFiles ==
  {[dek |-> 1, slots |-> <<Hello("hello", 1, 1), Pass("recovery", "rk", 1),
                           Hello("desk", 1, 1), Pass("passphrase", "pw", 1)>>],
   [dek |-> 2, slots |-> <<Hello("hello", 1, 2), Pass("recovery", "new", 2),
                           Hello("passphrase", 1, 2)>>]}

McSecrets == {"rk", "pw", "new"}

Opt(slot, env, noInput, hello, profile, enroll, recover) ==
  [slot |-> slot, env |-> env, noInput |-> noInput, hello |-> hello,
   profile |-> profile, enroll |-> enroll, recover |-> recover]

McOptions ==
  {Opt("none", "unset", FALSE, TRUE, TRUE, FALSE, FALSE),
   Opt("none", "unset", TRUE, TRUE, TRUE, FALSE, FALSE),
   Opt("none", "pw", FALSE, TRUE, TRUE, FALSE, FALSE),
   Opt("none", "malformed", FALSE, TRUE, TRUE, FALSE, FALSE),
   Opt("desk", "pw", FALSE, TRUE, FALSE, FALSE, FALSE),
   Opt("desk", "pw", FALSE, TRUE, TRUE, FALSE, FALSE),
   Opt("none", "pw", FALSE, TRUE, TRUE, TRUE, FALSE),
   Opt("none", "rk", TRUE, TRUE, TRUE, TRUE, FALSE),
   Opt("none", "unset", FALSE, FALSE, TRUE, TRUE, TRUE),
   Opt("none", "rk", FALSE, TRUE, TRUE, TRUE, TRUE),
   Opt("none", "malformed", FALSE, FALSE, TRUE, TRUE, TRUE)}
=============================================================================
