---------------------------- MODULE Publication ----------------------------
(***************************************************************************)
(* Engine.Publish and Engine.archive, one action per exchange with the     *)
(* hosting.  Files that members download are overwritten in place, so      *)
(* their upload takes two steps: the file is incomplete in between.  The   *)
(* collection is read when Publish starts, an asset when it is inventoried *)
(* and again when it is sent.                                              *)
(***************************************************************************)
EXTENDS RegieState

\* The local collection has the digest that was applied or published last.
NothingToPublish(m) == coll[m] = cfg[m].hash

\* Mistake: whatever is online may be replaced.
NeverOutdated(m) == FALSE

\* The hosting is not at the version this machine started from.
Outdated(m) == manifest.version # cfg[m].version

\* Bound: Publish reads the online manifest only while fewer than MaxVersion
\* manifests were published.
Room == Len(published) < MaxVersion

\* Publish ends before it wrote anything: no collection, nothing to publish, a
\* manifest that cannot be read, or an outdated start.
PublishRefused(m) ==
  /\ pc[m] = "compare"
  /\ \/ coll[m] = Absent
     \/ NothingToPublish(m)
     \/ manifest = TornManifest
     \/ manifest.version # 0 /\ Outdated(m)
     \/ ~Room
  /\ Finish(m, "off")
  /\ UNCHANGED <<hosting, disks, cfg, faults>>

\* An empty hosting is started at version 1, without anything to archive.
PublishFirst(m) ==
  /\ pc[m] = "compare"
  /\ coll[m] # Absent /\ ~NothingToPublish(m) /\ Room
  /\ manifest = NoManifest
  /\ seen' = [seen EXCEPT ![m] = NoManifest]
  /\ pc'   = [pc EXCEPT ![m] = "inventory"]
  /\ UNCHANGED <<hosting, disks, cfg, todo, cur, plan, faults>>

PublishNext(m) ==
  /\ pc[m] = "compare"
  /\ coll[m] # Absent /\ ~NothingToPublish(m) /\ Room
  /\ manifest.version # 0 /\ ~Outdated(m)
  /\ seen' = [seen EXCEPT ![m] = manifest]
  /\ pc'   = [pc EXCEPT ![m] = "archive"]
  /\ UNCHANGED <<hosting, disks, cfg, todo, cur, plan, faults>>

\* Mistake: the archive is named after the version under way.
NextDirectory(m) == seen[m].version + 1

\* versions/vN is named after the version that is replaced.
ArchiveDirectory(m) == seen[m].version

\* archive: the manifest that was read is written under versions/, ...
ArchiveManifest(m) ==
  /\ pc[m] = "archive"
  /\ archive' = [archive EXCEPT ![ArchiveDirectory(m)].manifest = seen[m]]
  /\ pc'      = [pc EXCEPT ![m] = "archiveColl"]
  /\ UNCHANGED <<manifest, staged, onlineColl, onlineAsset, published,
                 disks, memory, faults>>

\* ... then the collection, downloaded and written back.
ArchiveColl(m) ==
  /\ pc[m] = "archiveColl"
  /\ \E s \in ServedColl :
       archive' = [archive EXCEPT ![ArchiveDirectory(m)].coll = s]
  /\ pc' = [pc EXCEPT ![m] = "inventory"]
  /\ UNCHANGED <<manifest, staged, onlineColl, onlineAsset, published,
                 disks, memory, faults>>

\* An archive that fails does not stop the publication.
ArchiveFails(m) ==
  /\ pc[m] \in {"archive", "archiveColl"} /\ Fault
  /\ pc' = [pc EXCEPT ![m] = "inventory"]
  /\ UNCHANGED <<hosting, disks, memory>>

\* referencedAssets: the digests of the files the collection refers to.
\* Those that are not on the disk are left out.
Inventory(m) ==
  [a \in Assets |-> IF a \in Refs[coll[m]] THEN asset[m][a] ELSE Absent]

\* Mistake: the differential goes by the name of the asset alone.
SkipsKnownNames(m, f) == {a \in Listed(f) : seen[m].assets[a] = Absent}

\* The differential: an asset that the online manifest lists with the same
\* digest is not sent.
ToSend(m, f) == {a \in Listed(f) : seen[m].assets[a] # f[a]}

TakeInventory(m) ==
  /\ pc[m] = "inventory"
  /\ plan' = [plan EXCEPT ![m] = Inventory(m)]
  /\ todo' = [todo EXCEPT ![m] = ToSend(m, Inventory(m))]
  /\ pc'   = [pc EXCEPT ![m] = "upload"]
  /\ UNCHANGED <<hosting, disks, cfg, seen, cur, faults>>

-----------------------------------------------------------------------------

\* The file is opened again; the one online is truncated.
BeginAsset(m) ==
  /\ pc[m] = "upload"
  /\ \E a \in todo[m] :
       /\ asset[m][a] # Absent
       /\ onlineAsset' = [onlineAsset EXCEPT ![a] = Torn]
       /\ cur' = [cur EXCEPT ![m] = a]
  /\ pc' = [pc EXCEPT ![m] = "uploading"]
  /\ UNCHANGED <<manifest, staged, onlineColl, archive, published,
                 disks, cfg, seen, todo, plan, faults>>

EndAsset(m) ==
  /\ pc[m] = "uploading"
  /\ onlineAsset' = [onlineAsset EXCEPT ![cur[m]] = asset[m][cur[m]]]
  /\ todo' = [todo EXCEPT ![m] = @ \ {cur[m]}]
  /\ cur'  = [cur EXCEPT ![m] = Absent]
  /\ pc'   = [pc EXCEPT ![m] = "upload"]
  /\ UNCHANGED <<manifest, staged, onlineColl, archive, published,
                 disks, cfg, seen, plan, faults>>

\* A file that was inventoried is not there any more.
AssetVanished(m) ==
  /\ pc[m] = "upload"
  /\ \E a \in todo[m] : asset[m][a] = Absent
  /\ Finish(m, "off")
  /\ UNCHANGED <<hosting, disks, cfg, faults>>

BeginColl(m) ==
  /\ pc[m] = "upload" /\ todo[m] = {}
  /\ onlineColl' = Torn
  /\ pc' = [pc EXCEPT ![m] = "collecting"]
  /\ UNCHANGED <<manifest, staged, onlineAsset, archive, published,
                 disks, memory, faults>>

EndColl(m) ==
  /\ pc[m] = "collecting"
  /\ onlineColl' = coll[m]
  /\ pc' = [pc EXCEPT ![m] = "stage"]
  /\ UNCHANGED <<manifest, staged, onlineAsset, archive, published,
                 disks, memory, faults>>

-----------------------------------------------------------------------------

\* Mistake: the manifest lists what was sent, not what is needed.
ListsWhatWasSent(m) ==
  [version |-> seen[m].version + 1, coll |-> coll[m],
   assets |-> [a \in ToSend(m, plan[m]) |-> plan[m][a]]]

NewManifest(m) ==
  [version |-> seen[m].version + 1, coll |-> coll[m], assets |-> plan[m]]

\* manifest.json.tmp: nobody downloads it, but every publisher writes this file
\* and may rename what another is writing.
BeginStage(m) ==
  /\ pc[m] = "stage"
  /\ staged' = TornManifest
  /\ pc' = [pc EXCEPT ![m] = "staging"]
  /\ UNCHANGED <<manifest, onlineColl, onlineAsset, archive, published,
                 disks, memory, faults>>

\* manifest' is next online: whole, it is a version.
GoesOnline(next) ==
  /\ manifest'  = next
  /\ published' = IF next.version # 0 THEN Append(published, next) ELSE published

\* A file that was renamed while it was open is completed under its new name, or
\* lost.
EndStage(m) ==
  /\ pc[m] = "staging"
  /\ \/ /\ staged # NoManifest /\ staged' = NewManifest(m)
        /\ UNCHANGED <<manifest, published>>
     \/ /\ staged = NoManifest /\ manifest = TornManifest
        /\ GoesOnline(NewManifest(m))
        /\ UNCHANGED staged
     \/ staged = NoManifest /\ UNCHANGED <<manifest, published, staged>>
  /\ pc' = [pc EXCEPT ![m] = "move"]
  /\ UNCHANGED <<onlineColl, onlineAsset, archive, disks, memory, faults>>

\* Rename the temporary file over manifest.json.
Rename(m) ==
  /\ staged # NoManifest
  /\ GoesOnline(staged)
  /\ staged' = NoManifest
  /\ pc' = [pc EXCEPT ![m] = "commit"]
  /\ UNCHANGED <<onlineColl, onlineAsset, archive, disks, memory, faults>>

\* ftpWriter.Move
MoveFTP(m) == pc[m] = "move" /\ ~SftpMove /\ Rename(m)

\* sftpWriter.Move removes the target first and ignores that this may fail.
RemoveTarget(m) ==
  /\ pc[m] = "move" /\ SftpMove
  /\ manifest' = NoManifest
  /\ pc' = [pc EXCEPT ![m] = "rename"]
  /\ UNCHANGED <<staged, onlineColl, onlineAsset, archive, published,
                 disks, memory, faults>>

MoveSFTP(m) == pc[m] = "rename" /\ Rename(m)

\* Another publisher has renamed the temporary file.
MoveFails(m) ==
  /\ pc[m] = IF SftpMove THEN "rename" ELSE "move"
  /\ staged = NoManifest
  /\ Finish(m, "off")
  /\ UNCHANGED <<hosting, disks, cfg, faults>>

\* Mistake: the version that was read is recorded, not the new one.
ForgetsIncrement(m) == [version |-> seen[m].version, hash |-> coll[m]]

\* What Publish records: the version it made from the one it read.
Committed(m) == [version |-> seen[m].version + 1, hash |-> coll[m]]

Commit(m) ==
  /\ pc[m] = "commit"
  /\ cfg'  = [cfg EXCEPT ![m] = Committed(m)]
  /\ disk' = [disk EXCEPT ![m] = Committed(m)]
  /\ Finish(m, "off")
  /\ UNCHANGED <<hosting, coll, asset, faults>>

Publish(m) ==
  \/ PublishRefused(m) \/ PublishFirst(m) \/ PublishNext(m)
  \/ ArchiveManifest(m) \/ ArchiveColl(m) \/ TakeInventory(m)
  \/ BeginAsset(m) \/ EndAsset(m) \/ AssetVanished(m)
  \/ BeginColl(m) \/ EndColl(m)
  \/ BeginStage(m) \/ EndStage(m)
  \/ MoveFTP(m) \/ RemoveTarget(m) \/ MoveSFTP(m) \/ MoveFails(m)
  \/ Commit(m)

=============================================================================
