------------------------------ MODULE Scanning ------------------------------
(***************************************************************************)
(* A loop over a sequence: it begins with Initial and takes one Step for     *)
(* every element.                                                          *)
(***************************************************************************)
EXTENDS Naturals, Sequences

CONSTANTS Step(_, _), Initial

(* The inner set lets TLC evaluate what has been read once, not at each     *)
(* use.                                                                     *)
Result(seq) ==
  LET after[i \in 0..Len(seq)] ==
        IF i = 0 THEN Initial ELSE CHOOSE s \in {Step(r, seq[i]) : r \in {after[i - 1]}} : TRUE
  IN  after[Len(seq)]
=============================================================================
