------------------------ MODULE MCRefreshRotation ------------------------
(***************************************************************************)
(* One device with a handful of rotations; the configurations choose which *)
(* disturbances it meets.                                                  *)
(***************************************************************************)
EXTENDS RefreshRotation
=============================================================================
