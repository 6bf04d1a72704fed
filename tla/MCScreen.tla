------------------------------- MODULE MCScreen -------------------------------
(* One interface whose row comes, changes, goes, is held and comes back;   *)
(* three contents, of which two have one fingerprint.                      *)
EXTENDS Screen
CONSTANTS a, b, c
MCFingerprint == [v \in Contents |-> IF v = c THEN c ELSE a]
=============================================================================
