------------------------------- MODULE Fetch -------------------------------
(***************************************************************************)
(* What a download promises to Receive: the local file is left as it is or *)
(* becomes a complete file of the hosting in one step, and the caller is   *)
(* told that it succeeded in that case only.                               *)
(***************************************************************************)
CONSTANTS Bodies, Absent

VARIABLES dest, result

Init    == dest = Absent /\ result = "none"
Success == \E b \in Bodies : dest' = b /\ result' = "ok"
Failure == result' \in {"notfound", "error", "limited"} /\ UNCHANGED dest
Again   == result' = "none" /\ UNCHANGED dest

Next == Success \/ Failure \/ Again
Spec == Init /\ [][Next]_<<dest, result>>

=============================================================================
