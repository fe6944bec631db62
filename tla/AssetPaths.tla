----------------------------- MODULE AssetPaths -----------------------------
(***************************************************************************)
(* The paths of a collection (internal/obs/assets.go): the assets folder   *)
(* of a machine is replaced by a token in what is published, and the token *)
(* by the folder of the machine that receives.  A text is a sequence of    *)
(* pieces; the separators and what may follow a folder's name are pieces   *)
(* of their own.                                                           *)
(***************************************************************************)
EXTENDS Naturals, Sequences, SequencesExt

CONSTANTS
  AssetsToken,
  Lower,       \* Lower[x]: strings.ToLower of a piece
  Drives,      \* the pieces that are a drive letter and a colon
  Dotted       \* the pieces with a dot in them

Slash  == "/"
Scheme == "://"

\* normalizePath: one kind of separator, none at the end.
Normal(s) ==
  LET t == [i \in DOMAIN s |-> IF s[i] = "\\" THEN Slash ELSE s[i]]
  IN IF t # <<>> /\ Last(t) = Slash THEN Front(t) ELSE t

\* Mistake: capitals matter.
SameCase(s) == s

\* strings.ToLower, for texts whose capitals are as long as their small letters.
Folded(s) == [i \in DOMAIN s |-> Lower[s[i]]]

HasFolder(s, dir) == IsPrefix(Folded(Normal(dir)), Folded(Normal(s)))

Tokenize(s, dir) ==
  LET cand == Normal(s)
  IN IF dir # <<>> /\ HasFolder(s, dir)
     THEN <<AssetsToken>> \o SubSeq(cand, Len(Normal(dir)) + 1, Len(cand))
     ELSE s

Expand(s, dir) ==
  FlattenSeq([i \in DOMAIN s |-> IF s[i] = AssetsToken THEN Normal(dir)
                                                        ELSE <<s[i]>>])

\* ressembleAUnChemin: a local absolute path, of Windows or of Unix.
LooksLikePath(s) ==
  LET path == Normal(s)
  IN /\ s # <<>> /\ ~Contains(s, AssetsToken) /\ ~Contains(s, Scheme)
     /\ \/ Len(path) >= 2 /\ path[1] \in Drives /\ path[2] = Slash
        \/ path # <<>> /\ path[1] = Slash /\ \E i \in DOMAIN path : path[i] \in Dotted

\* ForeignPaths: after Tokenize, what no other machine will find.
Foreign(s, dir) ==
  LooksLikePath(s) /\ ~(Normal(dir) # <<>> /\ HasFolder(s, dir))

-----------------------------------------------------------------------------
(* What a path means to the machine that has it *)

\* File systems that do not tell capitals apart are the rule.
Inside(s, dir) ==
  LET folder == Append(Normal(dir), Slash)
      path   == Normal(s)
  IN /\ dir # <<>> /\ Len(path) >= Len(folder)
     /\ \A i \in DOMAIN folder : Lower[path[i]] = Lower[folder[i]]

Rest(s, dir) == SubSeq(Normal(s), Len(Normal(dir)) + 2, Len(Normal(s)))

Absolute(s) == s # <<>> /\ (s[1] \in Drives \/ s[1] \in {Slash, "\\"})

\* A folder beside the assets folder whose name begins like its name.
Sibling(s, dir) == dir # <<>> /\ HasFolder(s, dir) /\ ~Inside(s, dir)

=============================================================================
