------------------------------ MODULE MCRegie ------------------------------
(***************************************************************************)
(* Small instances of Regie: a publisher, a member and, in some runs, a    *)
(* second publisher.                                                       *)
(***************************************************************************)
EXTENDS Regie, TLC

CONSTANTS
  plain,   \* scenes without an asset
  logo,    \* scenes that show every asset
  banner,  \* other scenes that show every asset
  webcam   \* what the scenes become on a machine that redirects a device

MCRefs     == [s \in Scenes |-> IF s = plain THEN {} ELSE Assets]
MCVariants == [s \in Scenes |-> IF s = logo THEN {logo, webcam} \cap Scenes
                                            ELSE {s}]

\* Two publishers are alike; only for a run where every machine is one.
MCSymmetry == Permutations(Machines)

=============================================================================
