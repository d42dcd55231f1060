---------------------------- MODULE MCVaultApply ----------------------------
(***************************************************************************)
(* Two devices that share one file.  Edits of a note that lie apart meet   *)
(* deletes, edits that lie near each other meet stops and lost answers,    *)
(* edits of the same lines meet both.                                      *)
(***************************************************************************)
EXTENDS VaultApply

CONSTANTS d1, d2

\* The author is chosen at the start only: no step tells the devices apart.
Symmetry == Permutations(Devices)

Told ==
    /\ clash = "apart" => faults' = 0
    /\ clash = "near" => choices' = 0
MCSpec == Init /\ [][Next /\ Told]_vars
=============================================================================
