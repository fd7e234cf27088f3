---------------------------- MODULE MCClipboard -----------------------------
(***************************************************************************)
(* Constants for the configuration that model-checks Clipboard.            *)
(***************************************************************************)
EXTENDS Clipboard

(* `--clip-timeout 1`; a default that is longer.                            *)
McTimes == {1}
McDefault == 2
=============================================================================
