----------------------------- MODULE RegieState -----------------------------
(***************************************************************************)
(* The state shared by reception, publication and the session: what the    *)
(* hosting serves, what every machine has on its disk, and where every     *)
(* agent stands in internal/pipeline.                                      *)
(*                                                                         *)
(* A collection file is represented by its published form, the value whose *)
(* digest LocalHash computes: tokens in place of the assets folder and     *)
(* device identifiers removed.  A digest is injective, so the value stands *)
(* for its digest too.  No manifest and half a manifest have version 0:     *)
(* manifest.Parse takes neither.                                           *)
(***************************************************************************)
EXTENDS Naturals, Sequences, FiniteSets

CONSTANTS
  Machines,     \* the team's machines
  Publishers,   \* the machines that have a publisher.json
  Scenes,       \* published forms of the scene collection
  Assets,       \* asset paths
  Contents,     \* contents of asset files
  Torn,         \* the content of a file whose upload is not over
  Absent,       \* no file; also the empty AppliedHash
  Refs,         \* Refs[s]: the assets that collection s refers to
  Variants,     \* Variants[s]: published forms of s once applied on a machine
  MaxVersion,   \* bound: versions the model may publish
  MaxFaults,    \* bound: failures and crashes in a behaviour
  SftpMove,     \* the writer is SFTP (Remove, then Rename), not FTP
  LiveEdits,    \* a user may edit an asset while it is being published
  Caches        \* requests without the anti-cache parameter may be stale

ASSUME ConstantsAssumption ==
  /\ Publishers \subseteq Machines
  /\ Torn \in Contents /\ Torn \notin Scenes
  /\ Absent \notin Scenes \cup Contents
  /\ Refs \in [Scenes -> SUBSET Assets]
  /\ Variants \in [Scenes -> SUBSET Scenes]
  /\ \A s \in Scenes : s \in Variants[s]
  /\ MaxVersion \in Nat /\ MaxFaults \in Nat
  /\ SftpMove \in BOOLEAN /\ LiveEdits \in BOOLEAN /\ Caches \in BOOLEAN

VARIABLES
  \* the hosting
  manifest,     \* manifest.json
  staged,       \* manifest.json.tmp
  onlineColl,   \* scenes/collection.json
  onlineAsset,  \* assets/...
  archive,      \* versions/vN/
  published,    \* history: every manifest that was renamed into place
  \* the machines' disks
  coll,         \* the scene collection OBS loads
  asset,        \* the assets folder
  disk,         \* config.json: applied version and digest
  \* the agents' memory
  pc,           \* where the agent stands
  cfg,          \* the loaded configuration
  seen,         \* the manifest that Receive or Publish has read
  todo,         \* the manifest entries the asset loop has not reached
  cur,          \* the asset being transferred
  plan,         \* the inventory Publish will list
  faults        \* failures so far (bound)

hosting == <<manifest, staged, onlineColl, onlineAsset, archive, published>>
disks   == <<coll, asset, disk>>
memory  == <<cfg, seen, todo, cur, plan>>
vars    == <<hosting, disks, pc, memory, faults>>

-----------------------------------------------------------------------------

Maybe(S) == S \cup {Absent}
Files    == [Assets -> Maybe(Contents)]
Manifest == [version : Nat, coll : Maybe(Scenes), assets : Files]
Applied  == [version : Nat, hash : Maybe(Scenes)]
Archived == [manifest : Manifest, coll : Maybe(Scenes \cup {Torn})]
Versions == 1..MaxVersion

NoFiles == [a \in Assets |-> Absent]

\* manifest.json as read on an empty hosting, and the zero manifest that
\* Publish starts from there.
NoManifest == [version |-> 0, coll |-> Absent, assets |-> NoFiles]

\* A manifest whose upload is not over: manifest.Parse refuses it.
TornManifest == [version |-> 0, coll |-> Torn, assets |-> NoFiles]

\* The steps of Receive, of Publish before it touches a file that members
\* download, and of Publish from there on.
Receiving  == {"read", "assets", "verify", "record"}
Preparing  == {"compare", "archive", "archiveColl", "inventory"}
Writing    == {"upload", "uploading", "collection", "collecting",
               "stage", "staging", "move", "rename"}
Publishing == Preparing \cup Writing \cup {"commit"}
Steps      == {"off", "obs"} \cup Receiving \cup Publishing

TypeOK ==
  /\ {manifest, staged} \subseteq Manifest \cup {TornManifest}
  /\ onlineColl \in Maybe(Scenes \cup {Torn})
  /\ onlineAsset \in Files
  /\ archive \in [Versions -> Archived]
  /\ published \in Seq(Manifest)
  /\ coll \in [Machines -> Maybe(Scenes)]
  /\ asset \in [Machines -> Files]
  /\ disk \in [Machines -> Applied] /\ cfg \in [Machines -> Applied]
  /\ pc \in [Machines -> Steps]
  /\ seen \in [Machines -> Manifest]
  /\ todo \in [Machines -> SUBSET Assets]
  /\ cur \in [Machines -> Maybe(Assets)]
  /\ plan \in [Machines -> Files]
  /\ faults \in Nat

-----------------------------------------------------------------------------

\* A failed request, a failed write or the end of the process.
Fault == faults < MaxFaults /\ faults' = faults + 1

Listed(f) == {a \in Assets : f[a] # Absent}

\* HasLocalChanges, for collection s on machine m.
Changed(m, s) ==
  /\ cfg[m].hash # Absent
  /\ s # Absent
  /\ s # cfg[m].hash

\* What a request without the anti-cache parameter may return: the file that
\* is online or, behind a cache, the file of an earlier version.
Earlier == IF Caches THEN {published[i] : i \in DOMAIN published} ELSE {}
ServedColl     == {onlineColl} \cup {v.coll : v \in Earlier}
ServedAsset(a) == {onlineAsset[a]} \cup {v.assets[a] : v \in Earlier}

\* The operation of machine m is over: the agent goes to step p and what the
\* operation kept in memory is gone.
Finish(m, p) ==
  /\ pc'   = [pc EXCEPT ![m] = p]
  /\ seen' = [seen EXCEPT ![m] = NoManifest]
  /\ todo' = [todo EXCEPT ![m] = {}]
  /\ cur'  = [cur EXCEPT ![m] = Absent]
  /\ plan' = [plan EXCEPT ![m] = NoFiles]

=============================================================================
