------------------------------ MODULE MCBackup ------------------------------
(***************************************************************************)
(* Three revisions over two blobs, the first and the last sharing one; the *)
(* last is left to the device, which has the most to tell logs apart by.   *)
(* Retention keeps one artifact, so each new one lets an older be removed. *)
(* The cast of a behaviour: two processes that take backups while pushes   *)
(* commit; the two on a failing disk; the scheduler and restores on one;   *)
(* or a device that reads the log across a restore.                        *)
(***************************************************************************)
EXTENDS LogReader

CONSTANTS b1, b2

MCBlobs == {b1, b2}
MCBlobOf == <<b1, b2, b1>>
MCCasts == {{"push", "cli"}, {"cli", "disk", "operator"},
            {"push", "clock", "disk", "operator"}, {"push", "device", "operator"}}
Told == "device" \notin cast => minted' < MaxRevs

MCDeviceOnly == {{"push", "device", "operator"}}
=============================================================================
