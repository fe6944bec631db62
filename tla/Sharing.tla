------------------------------ MODULE Sharing ------------------------------
(***************************************************************************)
(* What travels between the machines of a team besides their devices: the  *)
(* files the scenes show (AssetPaths) and the canvas of the profile        *)
(* (BasicIni).  A publication leaves, and a reception adds, what is a      *)
(* machine's own.  Both are single steps here, in any order: Regie is      *)
(* about the steps, Devices about the devices.                             *)
(***************************************************************************)
EXTENDS AssetPaths, BasicIni

CONSTANTS
  Machines,
  Dir,          \* Dir[m]: the assets folder of m, as its user typed it
  Typed,        \* Typed[m]: what the user of m may show in a scene
  Profiles,     \* Profiles[m]: the profiles m may start with
  NoProfile,    \* none is configured, or OBS has none of that name
  VideoPages,   \* what the video page of OBS may be set to
  MaxVersion    \* bound: versions published

ASSUME SharingAssumption ==
  /\ MaxVersion \in Nat
  /\ \A m \in Machines : AssetsToken \notin Range(Dir[m])

VARIABLES
  online,       \* the manifest: version, canvas, and the overlay of the scenes
  shown,        \* shown[m]: the overlay of the scenes on m
  profile,      \* profile[m]: the lines of its basic.ini
  applied,      \* config.json of m: applied version and digest
  touched,      \* history: m changed overlay or canvas since it recorded
  warned        \* history: ForeignPaths of the last publication

vars == <<online, shown, profile, applied, touched, warned>>

\* LocalHash: the digest of the scenes as they would be published.  The path
\* of the overlay stands for the scenes.
Digest(m) == Tokenize(shown[m], Dir[m])

HasLocalChanges(m) == applied[m].version # 0 /\ Digest(m) # applied[m].digest

Init ==
  /\ online = [version |-> 0, canvas |-> NoCanvas, overlay |-> <<>>]
  /\ shown = [m \in Machines |-> <<>>]
  /\ profile \in [Machines -> UNION {Profiles[m] : m \in Machines}]
  /\ \A m \in Machines : profile[m] \in Profiles[m]
  /\ applied = [m \in Machines |-> [version |-> 0, digest |-> <<>>]]
  /\ touched = [m \in Machines |-> FALSE]
  /\ warned = {}

-----------------------------------------------------------------------------

UpToDate(m) ==
  \/ online.version = 0
  \/ online.version = applied[m].version /\ ~HasLocalChanges(m)

\* The scenes are written with the folder of this machine.
SaveScenes(m) ==
  /\ ~UpToDate(m)
  /\ shown' = [shown EXCEPT ![m] = Expand(online.overlay, Dir[m])]

\* Mistake: a profile that has a canvas keeps it.
OnlyMissingCanvas(ini) ==
  IF ini = NoProfile \/ Valid(ReadCanvas(ini)) THEN ini
  ELSE ApplyCanvas(ini, online.canvas)

\* Only if the profile is found and there is a canvas online.
WithCanvas(ini) ==
  IF ini = NoProfile THEN NoProfile ELSE ApplyCanvas(ini, online.canvas)

ReceiveVersion(m) ==
  /\ SaveScenes(m)
  /\ profile' = [profile EXCEPT ![m] = WithCanvas(@)]
  /\ applied' = [applied EXCEPT ![m] =
                   [version |-> online.version, digest |-> Digest(m)']]
  /\ touched' = [touched EXCEPT ![m] = FALSE]
  /\ UNCHANGED <<online, warned>>

\* The canvas, the digest or config.json fails after the scenes were written.
ReceiveStops(m) ==
  /\ SaveScenes(m)
  /\ \/ profile' = profile
     \/ profile' = [profile EXCEPT ![m] = WithCanvas(@)]
  /\ UNCHANGED <<online, applied, touched, warned>>

\* The canvas of the publisher's profile, else the one online.
PublishedCanvas(m) ==
  IF profile[m] # NoProfile /\ Valid(ReadCanvas(profile[m]))
  THEN ReadCanvas(profile[m]) ELSE online.canvas

\* Only the digest of the scenes makes a publication: a canvas or a file that
\* changed alone does not.
PublishVersion(m) ==
  /\ online.version < MaxVersion
  /\ applied[m].version = 0 \/ Digest(m) # applied[m].digest
  /\ online.version \in {0, applied[m].version}
  /\ LET sent == Tokenize(shown[m], Dir[m])
     IN /\ online' = [version |-> online.version + 1, overlay |-> sent,
                      canvas |-> PublishedCanvas(m)]
        /\ warned' = {s \in {sent} : Foreign(s, Dir[m])}
  /\ applied' = [applied EXCEPT ![m] = [version |-> online.version + 1,
                                        digest |-> Digest(m)]]
  /\ touched' = [touched EXCEPT ![m] = FALSE]
  /\ UNCHANGED <<shown, profile>>

-----------------------------------------------------------------------------
(* OBS *)

EditOverlay(m) ==
  /\ \E s \in Typed[m] : shown' = [shown EXCEPT ![m] = s]
  /\ touched' = [touched EXCEPT ![m] = TRUE]
  /\ UNCHANGED <<online, profile, applied, warned>>

\* OBS writes the settings of its video page.
EditCanvas(m) ==
  /\ profile[m] # NoProfile
  /\ \E page \in VideoPages :
       profile' = [profile EXCEPT ![m] = SetSection(@, Video, page, CanvasKeys)]
  /\ touched' = [touched EXCEPT ![m] = TRUE]
  /\ UNCHANGED <<online, shown, applied, warned>>

Next == \E m \in Machines :
  \/ ReceiveVersion(m) \/ ReceiveStops(m) \/ PublishVersion(m)
  \/ EditOverlay(m) \/ EditCanvas(m)

Spec == Init /\ [][Next]_vars

-----------------------------------------------------------------------------

\* m recorded the version online and nobody changed overlay or canvas there.
InStep(m) == online.version # 0 /\ applied[m].version = online.version
             /\ ~touched[m]

\* The machines in step show the same file of their own assets folders, through
\* any number of publications of one or the other, however the folder was
\* written.  What is not in the folder stays as it is, and if it is an absolute
\* path its publisher was warned.  Not so for a sibling folder.
SameOverlay ==
  \A m, n \in Machines :
    InStep(m) /\ InStep(n) /\ ~Sibling(shown[m], Dir[m])
              /\ ~Sibling(shown[n], Dir[n]) =>
      \/ /\ Inside(shown[m], Dir[m]) /\ Inside(shown[n], Dir[n])
         /\ Rest(shown[m], Dir[m]) = Rest(shown[n], Dir[n])
      \/ /\ ~Inside(shown[m], Dir[m]) /\ shown[m] = shown[n]
         /\ Absolute(shown[m]) => shown[m] \in warned

\* The machines in step have one canvas, those without a profile apart: "des
\* canvas differents decalent toutes les positions".
SameCanvas ==
  \A m \in Machines :
    InStep(m) /\ profile[m] # NoProfile /\ Valid(online.canvas) =>
      ReadCanvas(profile[m]) = online.canvas

\* Receptions never change the other lines of a profile, nor their section:
\* the encoder, the stream key, the paths of the recordings.
ProfileIsKept ==
  [][\A m \in Machines :
       profile'[m] # profile[m] => OwnLines(profile'[m]) = OwnLines(profile[m])]_vars

=============================================================================
