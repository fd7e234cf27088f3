----------------------------- MODULE MCKeySlots -----------------------------
(***************************************************************************)
(* Instances of KeySlots for TLC.  The commands are interchangeable, and   *)
(* no label but the ones `init` and `recover` use means anything to wcm.   *)
(***************************************************************************)
EXTENDS KeySlots, TLC

Symmetry == Permutations(Cmds)

AllOps   == {"init", "add", "rm", "recover", "rekey"}
HelloOps == {"init", "add", "rm"}

(* One label besides the default one, so that two commands may collide. *)
OtherLabel   == {"other"}
(* A passphrase slot may be given the label that `recover` uses for Hello. *)
HelloLabel   == {"hello"}
(* Two Hello slots of one vault share its credential. *)
HelloAndOther == {"hello", "other"}
NoLabels     == {}
=============================================================================
