---------------------------- MODULE AtomicVault -----------------------------
(***************************************************************************)
(* What the vault file promises to the commands that save it: a register   *)
(* with an atomic compare-and-set.  Each command's change is applied to    *)
(* the current contents in one step or refused, the answer a command gives *)
(* is true, and an outage may only take back changes nobody was told of.   *)
(* VaultStore implements this with a lock file, a generation counter, a    *)
(* temporary file and a rename.                                            *)
(***************************************************************************)
EXTENDS Naturals

CONSTANTS Cmds, NoCmd

VARIABLES
  vault,    \* the current contents
  outcome   \* outcome[c]: what command c has reported

Answers == {"none", "confirmed", "refused"}

Contents == [state : {"absent", "whole"}, gen : Nat,
             key : Cmds \cup {NoCmd}, edits : SUBSET Cmds]

TypeOK ==
  /\ vault \in Contents
  /\ outcome \in [Cmds -> Answers]

Init ==
  /\ vault = [state |-> "absent", gen |-> 0, key |-> NoCmd, edits |-> {}]
  /\ outcome = [c \in Cmds |-> "none"]

(* The first generation; whoever creates it draws the key. *)
CommitFirst(c) ==
  /\ outcome[c] = "none" /\ vault.state = "absent"
  /\ vault' = [state |-> "whole", gen |-> 1, key |-> c, edits |-> {c}]
  /\ UNCHANGED outcome

(* The next generation keeps every change of the current one and adds one;  *)
(* the key stays or is a fresh one.                                         *)
CommitNext(c) ==
  /\ outcome[c] = "none" /\ vault.state = "whole"
  /\ c \notin vault.edits
  /\ \E k \in {vault.key, c} :
       vault' = [state |-> "whole", gen |-> vault.gen + 1, key |-> k,
                edits |-> vault.edits \cup {c}]
  /\ UNCHANGED outcome

Confirm(c) ==
  /\ outcome[c] = "none" /\ c \in vault.edits
  /\ outcome' = [outcome EXCEPT ![c] = "confirmed"]
  /\ UNCHANGED vault

Refuse(c) ==
  /\ outcome[c] = "none" /\ c \notin vault.edits
  /\ outcome' = [outcome EXCEPT ![c] = "refused"]
  /\ UNCHANGED vault

(* Back to an earlier generation that has every confirmed change. *)
RollBack ==
  /\ vault' \in Contents
  /\ vault'.gen < vault.gen /\ vault'.edits \subseteq vault.edits
  /\ \A c \in Cmds : outcome[c] = "confirmed" => c \in vault'.edits
  /\ UNCHANGED outcome

Next ==
  \/ \E c \in Cmds : CommitFirst(c) \/ CommitNext(c) \/ Confirm(c) \/ Refuse(c)
  \/ RollBack

Spec == Init /\ [][Next]_<<vault, outcome>>
=============================================================================
