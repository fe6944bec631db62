----------------------------- MODULE MCDevices -----------------------------
(***************************************************************************)
(* A publisher with two devices and a member with one.                     *)
(***************************************************************************)
EXTENDS Devices, TLC

CONSTANTS p, m, c920, facecam, builtin

MCOwn == p :> {c920, facecam} @@ m :> {builtin}

=============================================================================
