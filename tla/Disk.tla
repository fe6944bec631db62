------------------------------- MODULE Disk -------------------------------
(***************************************************************************)
(* One machine's disk from session to session: the scenes folder of OBS,   *)
(* the backups and what config.json records.  A collection is found by the *)
(* name inside its file (Paths.CollectionFile), a received one keeps the   *)
(* name it was published under, and OBS renames, creates and removes       *)
(* collections in between.  The hosting is one manifest that changes while *)
(* the agent is off: Regie is about receptions during a publication.       *)
(***************************************************************************)
EXTENDS Backups

CONSTANTS
  Names,       \* display names of collections
  Configured,  \* the collection named in config.json
  Sanitize,    \* Sanitize[n]: the file NewCollectionFile gives to name n
  NoFile,      \* no file; also the empty AppliedHash
  MaxScenes,   \* bound: different scenes
  MaxVersion   \* bound: versions published

ASSUME DiskAssumption ==
  /\ Configured \in Names
  /\ Sanitize \in [Names -> Files]
  /\ MaxScenes \in Nat /\ MaxVersion \in Nat
  /\ NoFile \notin Files /\ NoFile \notin [name : Names, scenes : Nat]
  /\ Torn \notin [name : Names, scenes : Nat]

VARIABLES
  folder,      \* the files of basic/scenes
  made,        \* the number of different scenes so far
  online,      \* the version online and its collection
  applied,     \* config.json: applied version and digest
  pc,          \* where the agent stands
  target,      \* collectionPath, as Receive computed it
  seen,        \* history: nothing misled the lookup that gave target
  team         \* history: the file and the collection recorded last

vars == <<backupVars, folder, made, online, applied, pc, target, seen, team>>

\* Distinct contents have distinct digests, so the content stands for its
\* digest.  The digest covers the name.
Collection == [name : Names, scenes : Nat]
Maybe(S)   == S \cup {NoFile}
Nothing    == [file |-> NoFile, coll |-> NoFile]

TypeOK ==
  /\ backups \subseteq [at : Times, file : Files, kept : Collection \cup {Torn}]
  /\ log \in Seq([at : Times, file : Files, kept : Collection \cup {Torn}])
  /\ folder \in [Files -> Maybe(Collection)]
  /\ made \in Nat
  /\ online \in [version : Nat, coll : Maybe(Collection)]
  /\ applied \in [version : Nat, hash : Maybe(Collection)]
  /\ pc \in {"off", "backup", "prune", "save", "record", "obs"}
  /\ target \in Maybe(Files) /\ seen \in BOOLEAN
  /\ team \in [file : Maybe(Files), coll : Maybe(Collection)]

Exists(f)   == folder[f] # NoFile
Named(d)    == {f \in Files : Exists(f) /\ folder[f].name = d}
Free        == {f \in Files : ~Exists(f)}
Unused      == {d \in Names : Named(d) = {}}

\* No two collections have one name, as OBS has it.
Unique ==
  \A f, g \in Files :
    Exists(f) /\ Exists(g) /\ folder[f].name = folder[g].name => f = g

-----------------------------------------------------------------------------

\* Mistake: the file is looked for by its name.
ByFileName(unread) == Sanitize[Configured]

\* collectionPath: the first file of the folder with the configured name, or
\* the file to create.  CollectionFile skips the files it cannot read or parse
\* at that moment, all of them when it cannot list the folder; those of the name
\* are "unread", the others make no difference.
CollectionPath(unread) ==
  LET found == Named(Configured) \ unread
  IN IF found # {}
     THEN CHOOSE f \in found : \A g \in found : f <= g
     ELSE Sanitize[Configured]

\* Nothing misleads a lookup: one file at most has the configured name, and it
\* can be read.
Sees(unread) == unread = {} /\ \A f, g \in Named(Configured) : f = g

\* Mistake: the digest is that of the file Receive would create.
HashByFileName(unread) == folder[Sanitize[Configured]]

LocalHash(unread) == folder[CollectionPath(unread)]

HasLocalChanges(unread) ==
  /\ applied.hash # NoFile
  /\ LocalHash(unread) # NoFile
  /\ LocalHash(unread) # applied.hash

\* Receive, up to the backup.  Without a manifest it fails at once.
UpToDate ==
  /\ pc = "off"
  /\ \/ online.version = 0
     \/ /\ online.version = applied.version
        /\ \E unread \in SUBSET Named(Configured) : ~HasLocalChanges(unread)
  /\ pc' = "obs"
  /\ UNCHANGED <<backupVars, folder, made, online, applied, target, seen, team>>

\* Mistake: unpublished scenes are not worth a backup.
OnlyReceived(f) == folder[f] = applied.hash

\* Mistake: a file that is not there is copied too.
AlwaysSaves(f) == TRUE

\* There is nothing to copy the first time.
WorthSaving(f) == Exists(f)

\* The digest and the path are two lookups.
Launch ==
  /\ pc = "off"
  /\ online.version # 0
  /\ \/ online.version # applied.version
     \/ \E unread \in SUBSET Named(Configured) : HasLocalChanges(unread)
  /\ \E unread \in SUBSET Named(Configured) :
       /\ target' = CollectionPath(unread)
       /\ pc' = IF WorthSaving(CollectionPath(unread)) THEN "backup" ELSE "save"
       /\ seen' = Sees(unread)
  /\ UNCHANGED <<backupVars, folder, made, online, applied, team>>

\* OBS starts, whatever became of the reception.
Ends ==
  /\ pc' = "obs"
  /\ target' = NoFile /\ seen' = FALSE

BackUp ==
  /\ pc = "backup"
  /\ Write(target, folder[target])
  /\ pc' = "prune"
  /\ UNCHANGED <<folder, made, online, applied, target, seen, team>>

\* The disk is full: the reception is cancelled.
BackupFails ==
  /\ pc = "backup"
  /\ Write(target, Torn)
  /\ Ends
  /\ UNCHANGED <<folder, made, online, applied, team>>

PruneBackups ==
  /\ pc = "prune"
  /\ Prune
  /\ pc' = "save"
  /\ UNCHANGED <<folder, made, online, applied, target, seen, team>>

\* SaveCollection: a temporary file renamed into place.
Save ==
  /\ pc = "save"
  /\ folder' = [folder EXCEPT ![target] = online.coll]
  /\ pc' = "record"
  /\ UNCHANGED <<backupVars, made, online, applied, target, seen, team>>

\* The digest is that of the file collectionPath gives now.  The team's
\* collection is followed from here if nothing misled it.
Record ==
  /\ pc = "record"
  /\ \E unread \in SUBSET Named(Configured) :
       /\ applied' = [version |-> online.version, hash |-> LocalHash(unread)]
       /\ team' = IF Sees(unread) THEN [file |-> target, coll |-> online.coll]
                  ELSE Nothing
  /\ Ends
  /\ UNCHANGED <<backupVars, folder, made, online>>

\* The manifest, the digest, a download, the canvas or a write fails and OBS
\* starts with the scenes of the disk.  The process ends: as if OBS then closed
\* at once.
Stops ==
  /\ pc \in {"off", "backup", "prune", "save", "record"}
  /\ Ends
  /\ UNCHANGED <<backupVars, folder, made, online, applied, team>>

Receive == UpToDate \/ Launch \/ BackUp \/ BackupFails \/ PruneBackups \/ Save
           \/ Record \/ Stops

-----------------------------------------------------------------------------
(* OBS and the others *)

\* The user changes the scenes of a collection.
Edit ==
  /\ pc = "obs" /\ made < MaxScenes
  /\ \E f \in Files \ Free : folder' = [folder EXCEPT ![f].scenes = made + 1]
  /\ made' = made + 1
  /\ UNCHANGED <<backupVars, online, applied, pc, target, seen, team>>

\* The collection of file f is the team's no more.
Forget(f) ==
  team' = IF team.file = f THEN Nothing ELSE team

\* A collection gets a name that no other has, in a file OBS chooses.
Rename ==
  /\ pc = "obs"
  /\ \E f \in Files \ Free, d \in Unused :
       /\ \E g \in Free \cup {f} :
            folder' = [folder EXCEPT ![f] = NoFile,
                                     ![g] = [folder[f] EXCEPT !.name = d]]
       /\ Forget(f)
  /\ UNCHANGED <<backupVars, made, online, applied, pc, target, seen>>

Create ==
  /\ pc = "obs" /\ made < MaxScenes
  /\ \E g \in Free, d \in Unused :
       folder' = [folder EXCEPT ![g] = [name |-> d, scenes |-> made + 1]]
  /\ made' = made + 1
  /\ UNCHANGED <<backupVars, online, applied, pc, target, seen, team>>

\* The copy has the scenes of its model.
Duplicate ==
  /\ pc = "obs"
  /\ \E f \in Files \ Free, g \in Free, d \in Unused :
       folder' = [folder EXCEPT ![g] = [folder[f] EXCEPT !.name = d]]
  /\ UNCHANGED <<backupVars, made, online, applied, pc, target, seen, team>>

Remove ==
  /\ pc = "obs"
  /\ \E f \in Files \ Free :
       /\ folder' = [folder EXCEPT ![f] = NoFile]
       /\ Forget(f)
  /\ UNCHANGED <<backupVars, made, online, applied, pc, target, seen>>

Close ==
  /\ pc = "obs"
  /\ pc' = "off"
  /\ UNCHANGED <<backupVars, folder, made, online, applied, target, seen, team>>

\* This machine publishes the collection it finds, under the name it has; the
\* digest recorded is that of what it sent.
Publish ==
  /\ pc = "off" /\ online.version < MaxVersion
  /\ online.version \in {0, applied.version}
  /\ \E unread \in SUBSET Named(Configured) :
       LET mine == LocalHash(unread)
       IN /\ mine # NoFile /\ mine # applied.hash
          /\ online'  = [version |-> online.version + 1, coll |-> mine]
          /\ applied' = [version |-> online.version + 1, hash |-> mine]
          /\ team'    = [file |-> CollectionPath(unread), coll |-> mine]
  /\ UNCHANGED <<backupVars, folder, made, pc, target, seen>>

\* Another machine publishes, under the name its collection has there.
OtherPublishes ==
  /\ pc = "off" /\ online.version < MaxVersion /\ made < MaxScenes
  /\ \E d \in Names :
       online' = [version |-> online.version + 1,
                  coll |-> [name |-> d, scenes |-> made + 1]]
  /\ made' = made + 1
  /\ UNCHANGED <<backupVars, folder, applied, pc, target, seen, team>>

Obs    == Edit \/ Rename \/ Create \/ Duplicate \/ Remove \/ Close
Others == Publish \/ OtherPublishes

\* OBS may have collections before the agent is first used, one of each name.
Init ==
  /\ backups = {} /\ log = <<>>
  /\ folder \in [Files -> Maybe([name : Names, scenes : {1}])]
  /\ Unique
  /\ made = 1
  /\ online = [version |-> 0, coll |-> NoFile]
  /\ applied = [version |-> 0, hash |-> NoFile]
  /\ pc = "off" /\ target = NoFile /\ seen = FALSE
  /\ team = Nothing

Next == Receive \/ Obs \/ Others

Spec == Init /\ [][Next]_vars

-----------------------------------------------------------------------------

\* No backup was written under a name that sorts after the last one's.
NothingLater == \A i \in DOMAIN log : ~Later(log[i], log[Len(log)])

\* A reception overwrites a collection only after a whole copy of it reached
\* the backups and stayed there, unless the clock was set back behind the name
\* of another: "Backup copie la collection actuelle avant qu'une reception ne
\* l'ecrase, et ne garde que les plus recentes".
OverwrittenIsSaved ==
  [][\A f \in Files :
       pc = "save" /\ Exists(f) /\ folder'[f] # folder[f] =>
         /\ log # <<>>
         /\ NothingLater => \E b \in backups : b.kept = folder[f]]_vars

\* Scenes of the team that the user changed are seen as changed by a lookup that
\* nothing misleads, when they came under the configured name and have it
\* still, whatever collections OBS and receptions renamed, created or duplicated
\* and whatever the lookups in between did not find: neither another file nor
\* the digest of another file is compared.  The lookup that gave the recorded
\* digest must not have been misled either.
EditsAreSeen ==
  team.file # NoFile /\ pc = "off" =>
    LET mine == folder[team.file]
    IN /\ team.coll.name = Configured /\ mine.name = Configured
       /\ mine.scenes # team.coll.scenes
       /\ Sees({})
       => HasLocalChanges({})

\* A reception whose lookup nothing misled replaces the collection of the
\* configured name and no other, and OBS finds no second one of that name.
\* Only where no collection has the name may it replace another: the one whose
\* file NewCollectionFile gives, which the backup has.
OneReplaced ==
  [][pc = "save" /\ seen =>
       /\ \A f \in Files :
            folder'[f] # folder[f] => Named(Configured) \subseteq {f}
       /\ online.coll.name = Configured /\ Unique => Unique']_vars

\* A reception writes a file that has not the configured name only where no
\* file has it: "Collection encore absente : premier lancement sur cette
\* machine", as collectionPath says where it falls back on a new file.
FirstLaunchOnly ==
  [][pc = "save" /\ Named(Configured) # {} =>
       \A f \in Files \ Named(Configured) : folder'[f] = folder[f]]_vars

=============================================================================
