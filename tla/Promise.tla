------------------------------ MODULE Promise ------------------------------
(***************************************************************************)
(* What the tool promises the team, without files, requests or agents: one *)
(* list of numbered versions that only grows, and on every machine a       *)
(* record of the version whose scenes it holds, which never goes back.     *)
(***************************************************************************)
EXTENDS Naturals, Sequences

CONSTANTS
  Machines,
  Scenes,
  Variants,    \* Variants[s]: what s may become when a machine applies it
  Nothing      \* the record of a machine that holds no version

VARIABLES
  log,         \* the scenes of version 1, 2, ...
  applied      \* applied[m]: the version recorded by m and what it holds

Init ==
  /\ log = <<>>
  /\ applied = [m \in Machines |-> [version |-> 0, hash |-> Nothing]]

\* A version is added after the last one.
Publish == \E s \in Scenes : log' = Append(log, s) /\ UNCHANGED applied

\* A machine records a version that is not older than the one it recorded.
Adopt(m) ==
  \E v \in DOMAIN log :
    /\ v >= applied[m].version
    /\ \E l \in Variants[log[v]] :
         applied' = [applied EXCEPT ![m] = [version |-> v, hash |-> l]]
    /\ UNCHANGED log

Next == Publish \/ \E m \in Machines : Adopt(m)
Spec == Init /\ [][Next]_<<log, applied>>

=============================================================================
