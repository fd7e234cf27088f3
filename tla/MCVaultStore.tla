---------------------------- MODULE MCVaultStore ----------------------------
(***************************************************************************)
(* Instances of VaultStore for TLC.  The commands are interchangeable.     *)
(***************************************************************************)
EXTENDS VaultStore, TLC

Symmetry == Permutations(Cmds)

(* wcm on the user's vault: no export is written to that path. *)
VaultKinds == {"init", "read", "edit", "rekey"}

WriterKinds == {"init", "edit", "rekey"}

(* An export is written to the path, and its file used as a vault. *)
ExportKinds == {"export", "edit"}

(* Any command on the exporting user's own file. *)
AllKinds == {"init", "read", "edit", "rekey", "export"}
=============================================================================
