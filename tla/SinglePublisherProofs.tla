----------------------- MODULE SinglePublisherProofs -----------------------
(***************************************************************************)
(* Proofs about Regie for the team its README describes: a single          *)
(* publisher, and any number of members, scenes, assets and versions.  Any *)
(* request, write or process may fail or stop, with one exception: the     *)
(* process of the publisher between the two halves of sftpWriter.Move,     *)
(* which leaves a hosting without manifest.                                *)
(***************************************************************************)
EXTENDS RegieProofs

OneWriter == \A p, q \in Publishers : p = q

\* The SFTP rename, once its target is removed, is not interrupted.
Whole(m) == pc[m] = "rename" => ~Stop(m)
MovesAreWhole == [][\A m \in Machines : Whole(m)]_vars

-----------------------------------------------------------------------------
(* The inductive invariant *)

\* The manifest that was published last.
Current == IF published = <<>> THEN NoManifest ELSE published[Len(published)]

\* Versions are numbered from 1, without gap.
Numbered ==
  \A i \in DOMAIN published :
    published[i].version = i /\ published[i].coll \in Scenes

\* It is online, save between the two halves of the SFTP rename.
OnlineIsLast ==
  \/ manifest = Current
  \/ manifest = NoManifest /\ \E p \in Publishers : pc[p] = "rename"

\* From the reading of the manifest to the rename of the next one.
Replacing == {"archive", "archiveColl", "inventory"} \cup Writing

\* A publication under way started from the last version, which is the one
\* its machine had recorded; nothing replaces it before the rename, and what
\* the rename puts in its place is the next version.
PublicationOK(m) ==
  /\ pc[m] \in Publishing => m \in Publishers
  /\ pc[m] \in Replacing =>
       /\ seen[m] = Current /\ coll[m] \in Scenes
       /\ seen[m].version \in {0, cfg[m].version}
       /\ Len(published) < MaxVersion
       /\ pc[m] # "rename" => manifest = Current
  /\ pc[m] = "rename" => SftpMove
  /\ pc[m] = "staging" => staged = TornManifest
  /\ pc[m] \in {"move", "rename"} => staged = NewManifest(m)
  /\ pc[m] = "commit" =>
       /\ Len(published) = seen[m].version + 1
       /\ Current.coll = coll[m]

\* What a machine has recorded is a version, with the digest of its scenes; a
\* reception under way is of that version or of a later one.
RecordOK(m) ==
  /\ \/ disk[m] = [version |-> 0, hash |-> Absent]
     \/ /\ disk[m].version \in DOMAIN published
        /\ disk[m].hash \in Variants[published[disk[m].version].coll]
  /\ pc[m] \in {"assets", "verify", "record"} =>
       disk[m].version <= seen[m].version

PublisherInv ==
  /\ TypeInv /\ ReceptionInv
  /\ Numbered /\ OnlineIsLast
  /\ \A m \in Machines : PublicationOK(m) /\ RecordOK(m)

-----------------------------------------------------------------------------
(* Steps of the others *)

\* An agent that does not publish writes nothing on the hosting, and it starts
\* to publish by comparing versions, where a publisher.json is.
LEMMA OnlyPublishWrites ==
  ASSUME TypeInv, NEW m \in Machines, Step(m), pc[m] \notin Publishing
  PROVE  /\ UNCHANGED hosting
         /\ pc'[m] \in Publishing => pc'[m] = "compare" /\ m \in Publishers
<1> USE DEF TypeInv, TypeOK, hosting, Finish, ReceiveReturns, Publishing,
        Preparing, Writing
<1>1. CASE Receive(m) \/ ReceiveError(m)
  BY <1>1 DEF Receive, ReceiveError, ReadNothingToDo, ReadManifest, SkipAsset,
     Download, VerifyAsset, RejectAsset, ApplyScenes, RejectScenes, RecordVersion,
     RecordFails, ReceiveFails
<1>2. ~(Publish(m) \/ ArchiveFails(m))
  BY DEF Publish, PublishRefused, PublishFirst, PublishNext,
     ArchiveManifest, ArchiveColl, ArchiveFails, TakeInventory, BeginAsset,
     EndAsset, AssetVanished, BeginColl, EndColl, BeginStage, EndStage, MoveFTP,
     RemoveTarget, MoveSFTP, MoveFails, Commit
<1>3. CASE Launch(m) \/ CloseObs(m) \/ EditAsset(m) \/ Stop(m)
  BY <1>3 DEF Launch, CloseObs, PublishesAfter, EditAsset, Stop, disks
<1> QED
  BY <1>1, <1>2, <1>3 DEF Step, Session, Errors

\* Nothing that PublicationOK(n) speaks of changes when a machine other than n
\* takes a step: a second writer is what it would take.
LEMMA OtherPublication ==
  ASSUME OneWriter, PublisherInv, NEW m \in Machines, Step(m),
         NEW n \in Machines, n # m
  PROVE  PublicationOK(n)'
<1>1. pc'[n] = pc[n] /\ seen'[n] = seen[n] /\ coll'[n] = coll[n]
      /\ cfg'[n] = cfg[n] /\ plan'[n] = plan[n]
  BY StepIsLocal DEF PublisherInv
<1>2. PublicationOK(n) /\ PublicationOK(m)
  BY DEF PublisherInv
<1>3. CASE pc[n] \in Publishing
  <2>1. pc[m] \notin Publishing
    BY <1>2, <1>3 DEF OneWriter, PublicationOK
  <2>2. UNCHANGED hosting
    BY <2>1, OnlyPublishWrites DEF PublisherInv
  <2> QED
    BY <1>1, <1>2, <2>2 DEF PublicationOK, hosting, Current, NewManifest
<1>4. CASE pc[n] \notin Publishing
  BY <1>1, <1>4 DEF PublicationOK, Replacing, Publishing, Preparing, Writing
<1> QED
  BY <1>3, <1>4

-----------------------------------------------------------------------------
(* Steps of the publisher *)

\* The last manifest carries the number of versions published so far.
LEMMA CurrentVersion ==
  ASSUME TypeInv, Numbered
  PROVE  Current \in Manifest /\ Current.version = Len(published)
BY EmptyTypes DEF TypeInv, TypeOK, Numbered, Current, NoManifest

\* While a publication is under way, but between the two halves of a rename,
\* the last manifest is online.
LEMMA OnlineUntilMoved ==
  ASSUME OneWriter, PublisherInv, NEW m \in Machines, pc[m] \in Publishing,
         pc[m] # "rename"
  PROVE  manifest = Current
BY DEF OneWriter, PublisherInv, OnlineIsLast, PublicationOK

\* Nobody else renames the file that the publisher is writing.
LEMMA StageWrites ==
  ASSUME PublisherInv, NEW m \in Machines, EndStage(m)
  PROVE  /\ staged' = NewManifest(m) /\ UNCHANGED <<manifest, published>>
         /\ pc[m] = "staging" /\ pc' = [pc EXCEPT ![m] = "move"]
         /\ UNCHANGED <<onlineColl, onlineAsset, archive, disks, memory, faults>>
<1>1. staged = TornManifest
  BY DEF EndStage, PublisherInv, PublicationOK
<1>2. TornManifest # NoManifest
  <2>1. TornManifest.coll = Torn /\ NoManifest.coll = Absent
    BY DEF TornManifest, NoManifest
  <2> QED
    BY <2>1, ConstantsAssumption
<1> QED
  BY <1>1, <1>2 DEF EndStage

\* The rename puts the next version online.
LEMMA RenamePublishes ==
  ASSUME PublisherInv, NEW m \in Machines, pc[m] \in {"move", "rename"}, Rename(m)
  PROVE  /\ Numbered' /\ manifest' = Current'
         /\ PublicationOK(m)'
         /\ published' = Append(published, NewManifest(m))
         /\ NewManifest(m).version = Len(published) + 1
         /\ NewManifest(m).coll \in Scenes
<1> USE DEF PublisherInv, TypeInv, TypeOK
<1>1. PublicationOK(m)
  OBVIOUS
<1>2. seen[m] = Current /\ coll[m] \in Scenes /\ staged = NewManifest(m)
      /\ m \in Publishers
  BY <1>1 DEF PublicationOK, Replacing, Writing, Publishing
<1>3. NewManifest(m).version = Len(published) + 1
      /\ NewManifest(m).coll = coll[m]
  BY <1>2, CurrentVersion DEF NewManifest
<1>4. published' = Append(published, NewManifest(m)) /\ manifest' = NewManifest(m)
  BY <1>2, <1>3 DEF Rename, GoesOnline
<1>5. Len(published') = Len(published) + 1
      /\ published'[Len(published) + 1] = NewManifest(m)
      /\ \A i \in DOMAIN published : published'[i] = published[i]
      /\ DOMAIN published' = DOMAIN published \cup {Len(published) + 1}
  BY <1>2, <1>4
<1>6. Current' = NewManifest(m)
  BY <1>4, <1>5 DEF Current
<1>7. Numbered'
  BY <1>2, <1>3, <1>5 DEF Numbered
<1>8. PublicationOK(m)'
  BY <1>2, <1>3, <1>5, <1>6, CurrentVersion
  DEF Rename, PublicationOK, Replacing, Writing, memory, disks
<1> QED
  BY <1>2, <1>3, <1>4, <1>6, <1>7, <1>8

\* A step of a publication other than the rename leaves the manifests alone,
\* or is the first half of an SFTP rename.
LEMMA OwnPublication ==
  ASSUME OneWriter, PublisherInv, NEW m \in Machines, Step(m), Whole(m)
  PROVE  PublicationOK(m)' /\ Numbered' /\ OnlineIsLast'
<1> USE DEF PublisherInv, TypeInv, TypeOK
<1>1. PublicationOK(m)
  OBVIOUS
<1>2. ASSUME UNCHANGED <<manifest, published>>, pc[m] # "rename"
      PROVE  Numbered' /\ OnlineIsLast'
  <2>1. \A p \in Publishers : pc[p] = "rename" => pc'[p] = "rename"
    BY <1>2, StepIsLocal, ConstantsAssumption
  <2> QED
    BY <1>2, <2>1 DEF Numbered, OnlineIsLast, Current
<1>3. CASE pc[m] \notin Publishing
  <2>1. UNCHANGED hosting
        /\ (pc'[m] \in Publishing => pc'[m] = "compare" /\ m \in Publishers)
    BY <1>3, OnlyPublishWrites
  <2>2. pc[m] # "rename"
    BY <1>3 DEF Publishing, Writing
  <2>3. PublicationOK(m)'
    BY <2>1 DEF PublicationOK, Replacing, Publishing, Preparing, Writing
  <2> QED
    BY <1>2, <2>1, <2>2, <2>3 DEF hosting
<1>4. CASE pc[m] \in Publishing
  <2> DEFINE Quiet == UNCHANGED <<manifest, published>> /\ pc[m] # "rename"
  <2>1. m \in Publishers
    BY <1>1, <1>4 DEF PublicationOK
  <2>2. pc[m] # "rename" => manifest = Current
    BY <1>4, OnlineUntilMoved
  <2>3. CASE MoveFTP(m) \/ MoveSFTP(m)
    BY <2>3, RenamePublishes DEF MoveFTP, MoveSFTP, OnlineIsLast
  <2>4. CASE RemoveTarget(m)
    BY <1>1, <2>1, <2>4
    DEF RemoveTarget, PublicationOK, Numbered, OnlineIsLast, Current, Replacing,
        Writing, NewManifest, memory, disks
  <2>5. CASE MoveFails(m)
    <3>1. pc[m] \in {"move", "rename"} /\ staged.version = 0
      BY <2>5 DEF MoveFails, NoManifest
    <3>2. staged = NewManifest(m)
      BY <1>1, <3>1 DEF PublicationOK
    <3> QED
      BY <3>1, <3>2 DEF NewManifest, Manifest
  <2>6. CASE Stop(m)
    <3>1. Quiet
      BY <2>6 DEF Whole, Stop, hosting
    <3>2. PublicationOK(m)'
      BY <2>6 DEF Stop, Finish, PublicationOK, Replacing, Publishing, Preparing,
         Writing
    <3> QED
      BY <1>2, <3>1, <3>2
  <2>7. CASE PublishRefused(m) \/ AssetVanished(m) \/ Commit(m)
    <3>1. Quiet
      BY <2>7 DEF PublishRefused, AssetVanished, Commit, hosting
    <3>2. PublicationOK(m)'
      BY <2>7 DEF PublishRefused, AssetVanished, Commit, Finish, PublicationOK,
         Replacing, Publishing, Preparing, Writing
    <3> QED
      BY <1>2, <3>1, <3>2
  <2>8. CASE PublishFirst(m) \/ PublishNext(m)
    <3>1. Quiet
      BY <2>8 DEF PublishFirst, PublishNext, hosting
    <3>2. manifest = Current
      BY <2>2, <3>1
    <3>3. manifest.version = 0 => manifest = NoManifest
      BY <3>2, CurrentVersion DEF Current
    <3>4. PublicationOK(m)'
      BY <2>1, <2>8, <3>2, <3>3
      DEF PublishFirst, PublishNext, Outdated, Room, Maybe, PublicationOK,
          Replacing, Writing, Current, NoManifest, hosting, disks
    <3> QED
      BY <1>2, <3>1, <3>4
  <2>9. CASE ArchiveManifest(m) \/ ArchiveColl(m) \/ ArchiveFails(m)
             \/ TakeInventory(m)
    <3>1. Quiet
      BY <2>9 DEF ArchiveManifest, ArchiveColl, ArchiveFails, TakeInventory, hosting
    <3>2. pc[m] \in {"archive", "archiveColl", "inventory"}
          /\ pc'[m] \in {"archiveColl", "inventory", "upload"}
          /\ UNCHANGED <<seen, coll, cfg, published, manifest>>
      BY <2>9 DEF ArchiveManifest, ArchiveColl, ArchiveFails, TakeInventory,
         hosting, disks, memory
    <3>3. PublicationOK(m)'
      BY <1>1, <2>1, <3>2 DEF PublicationOK, Replacing, Writing, Current
    <3> QED
      BY <1>2, <3>1, <3>3
  <2>10. CASE BeginAsset(m) \/ EndAsset(m) \/ BeginColl(m) \/ EndColl(m)
    <3>1. Quiet
      BY <2>10 DEF BeginAsset, EndAsset, BeginColl, EndColl
    <3>2. pc[m] \in {"upload", "uploading", "collecting"}
          /\ pc'[m] \in {"upload", "uploading", "collecting", "stage"}
          /\ UNCHANGED <<seen, coll, cfg, published, manifest>>
      BY <2>10 DEF BeginAsset, EndAsset, BeginColl, EndColl, disks, memory
    <3>3. PublicationOK(m)'
      BY <1>1, <2>1, <3>2 DEF PublicationOK, Replacing, Writing, Current
    <3> QED
      BY <1>2, <3>1, <3>3
  <2>11. CASE BeginStage(m) \/ EndStage(m)
    <3>1. Quiet
      BY <2>11, StageWrites DEF BeginStage
    <3>2. CASE BeginStage(m)
      <4>1. pc[m] = "stage" /\ pc'[m] = "staging" /\ staged' = TornManifest
            /\ UNCHANGED <<seen, coll, cfg, published, manifest>>
        BY <3>2 DEF BeginStage, disks, memory
      <4>2. TornManifest' = TornManifest
        BY DEF TornManifest, NoFiles
      <4>3. PublicationOK(m)'
        BY <1>1, <2>1, <4>1, <4>2 DEF PublicationOK, Replacing, Writing, Current
      <4> QED
        BY <1>2, <3>1, <4>3
    <3>3. CASE EndStage(m)
      <4>1. PublicationOK(m)'
        BY <1>1, <2>1, <3>3, StageWrites DEF PublicationOK, Replacing, Writing,
           Current, NewManifest, disks, memory
      <4> QED
        BY <1>2, <3>1, <4>1
    <3> QED
      BY <1>2, <2>11, <3>1, <3>2, <3>3
  <2>12. CASE EditAsset(m)
    <3>1. UNCHANGED <<hosting, coll, pc, memory>>
      BY <2>12 DEF EditAsset
    <3> QED
      BY <1>1, <3>1 DEF PublicationOK, Numbered, OnlineIsLast, Current,
         NewManifest, hosting, memory
  <2>13. ~(Launch(m) \/ CloseObs(m) \/ Receive(m) \/ ReceiveError(m))
    BY <1>4 DEF Launch, CloseObs, Receive, ReceiveError, ReadNothingToDo,
       ReadManifest, SkipAsset, Download, VerifyAsset, RejectAsset, ApplyScenes,
       RejectScenes, RecordVersion, RecordFails, ReceiveFails, Publishing,
       Preparing, Writing
  <2> QED
    BY <2>3, <2>4, <2>5, <2>6, <2>7, <2>8, <2>9, <2>10, <2>11, <2>12, <2>13
    DEF Step, Session, Errors, Publish
<1> QED
  BY <1>3, <1>4

-----------------------------------------------------------------------------
(* Records *)

\* A record is not disturbed by what is published, nor by a reception that
\* goes on.
LEMMA RecordKept ==
  ASSUME PublisherInv, [Next]_vars, NEW n \in Machines, disk'[n] = disk[n],
         pc'[n] \in {"assets", "verify", "record"} =>
           pc[n] \in {"assets", "verify", "record"} /\ seen'[n] = seen[n]
  PROVE  RecordOK(n)'
<1>1. RecordOK(n)
  BY DEF PublisherInv
<1>2. \A i \in DOMAIN published :
        i \in DOMAIN published' /\ published'[i] = published[i]
  BY PublishedGrows DEF PublisherInv
<1> QED
  BY <1>1, <1>2 DEF RecordOK

\* A step of m records a version that was published, with scenes made of that
\* version's, and not older than the one it had.
LEMMA RecordStep ==
  ASSUME OneWriter, PublisherInv, NEW m \in Machines, Step(m),
         disk'[m] # disk[m]
  PROVE  /\ UNCHANGED published
         /\ disk' = [disk EXCEPT ![m] = disk'[m]]
         /\ disk'[m].version \in DOMAIN published
         /\ disk'[m].version >= disk[m].version
         /\ disk'[m].hash \in Variants[published[disk'[m].version].coll]
         /\ disk'[m] = [version |-> disk'[m].version, hash |-> disk'[m].hash]
         /\ pc'[m] \in {"off", "obs"}
<1> USE DEF PublisherInv, TypeInv, TypeOK
<1>1. PublicationOK(m) /\ RecordOK(m) /\ ReceptionOK(m)
  BY DEF ReceptionInv
<1>2. CASE RecordVersion(m)
  <2>1. disk' = [disk EXCEPT ![m] = Recorded(m)] /\ UNCHANGED published
        /\ pc[m] = "record" /\ pc'[m] \in {"off", "obs"}
    BY <1>2 DEF RecordVersion, ReceiveReturns, Finish, hosting
  <2>2. PICK i \in DOMAIN published : published[i] = seen[m]
    BY <1>1, <2>1 DEF ReceptionOK
  <2>3. seen[m].version = i
    BY <2>2 DEF Numbered
  <2>4. coll[m] \in Variants[seen[m].coll] /\ disk[m].version <= seen[m].version
    BY <1>1, <2>1 DEF ReceptionOK, RecordOK
  <2> QED
    BY <2>1, <2>2, <2>3, <2>4 DEF Recorded
<1>3. CASE Commit(m)
  <2>1. disk' = [disk EXCEPT ![m] = Committed(m)] /\ UNCHANGED published
        /\ pc[m] = "commit" /\ pc'[m] \in {"off", "obs"}
    BY <1>3 DEF Commit, Finish, hosting
  <2>2. Len(published) = seen[m].version + 1 /\ Current.coll = coll[m]
    BY <1>1, <2>1 DEF PublicationOK
  <2>3. seen[m].version \in Nat
    BY DEF Manifest
  <2>4. Len(published) \in DOMAIN published
        /\ published[Len(published)].coll = coll[m]
    BY <2>2, <2>3 DEF Current
  <2>5. coll[m] \in Scenes
    BY <2>4 DEF Numbered
  <2>6. coll[m] \in Variants[coll[m]]
    BY <2>5, ConstantsAssumption
  <2>7. disk[m].version <= Len(published)
    BY <1>1, <2>4 DEF RecordOK
  <2> QED
    BY <2>1, <2>2, <2>4, <2>6, <2>7 DEF Committed
<1>4. RecordVersion(m) \/ Commit(m)
  BY DEF Step, Session, Errors, Launch, Receive, ReceiveError, ReadNothingToDo,
     ReadManifest, SkipAsset, Download, VerifyAsset, RejectAsset, ApplyScenes,
     RejectScenes, RecordFails, ReceiveFails, CloseObs, EditAsset,
     Stop, Publish, PublishRefused, PublishFirst, PublishNext, ArchiveManifest,
     ArchiveColl, ArchiveFails, TakeInventory, BeginAsset, EndAsset,
     AssetVanished, BeginColl, EndColl, BeginStage, EndStage, MoveFTP,
     MoveSFTP, MoveFails, RemoveTarget, Rename, disks
<1> QED
  BY <1>2, <1>3, <1>4

\* A reception starts from the last version published, which no machine is
\* ahead of.
LEMMA OwnRecord ==
  ASSUME OneWriter, PublisherInv, NEW m \in Machines, Step(m)
  PROVE  RecordOK(m)'
<1> USE DEF PublisherInv, TypeInv, TypeOK
<1>1. [Next]_vars
  BY DEF Step, Next
<1>2. CASE disk'[m] # disk[m]
  BY <1>2, RecordStep DEF RecordOK
<1>3. CASE ReadManifest(m)
  <2>1. UNCHANGED <<published, disk>> /\ pc[m] = "read" /\ manifest.version # 0
        /\ seen'[m] = manifest
    BY <1>3 DEF ReadManifest, hosting, disks
  <2>2. manifest = Current
    BY <2>1 DEF OnlineIsLast, NoManifest
  <2>3. manifest.version = Len(published)
    BY <2>2, CurrentVersion
  <2> QED
    BY <2>1, <2>3 DEF RecordOK
<1>4. CASE disk'[m] = disk[m] /\ ~ReadManifest(m)
  <2> DEFINE Between == {"assets", "verify", "record"}
  <2>1. pc'[m] \in Between => pc[m] \in Between /\ seen'[m] = seen[m]
    <3> USE DEF Finish, ReceiveReturns, hosting, disks, memory
    <3>1. CASE Receive(m) \/ ReceiveError(m)
      BY <1>4, <3>1 DEF Receive, ReceiveError, ReadNothingToDo, SkipAsset,
         Download, VerifyAsset, RejectAsset, ApplyScenes, RejectScenes,
         RecordVersion, RecordFails, ReceiveFails
    <3>2. CASE Publish(m) \/ ArchiveFails(m)
      BY <3>2 DEF Publish, PublishRefused, PublishFirst, PublishNext,
         ArchiveManifest, ArchiveColl, ArchiveFails, TakeInventory, BeginAsset,
         EndAsset, AssetVanished, BeginColl, EndColl, BeginStage, EndStage,
         MoveFTP, RemoveTarget, MoveSFTP, MoveFails, Rename, Commit
    <3>3. CASE Launch(m) \/ CloseObs(m) \/ EditAsset(m) \/ Stop(m)
      BY <3>3 DEF Launch, CloseObs, EditAsset, Stop
    <3> QED
      BY <3>1, <3>2, <3>3 DEF Step, Session, Errors
  <2> QED
    BY <1>1, <1>4, <2>1, RecordKept
<1> QED
  BY <1>2, <1>3, <1>4

-----------------------------------------------------------------------------
(* What follows for a single publisher *)

\* The initial states satisfy the invariant, and every step keeps it that does
\* not interrupt a rename.
LEMMA PublisherInductive ==
  ASSUME OneWriter
  PROVE  /\ Init => PublisherInv
         /\ PublisherInv /\ [Next]_vars /\ [\A m \in Machines : Whole(m)]_vars
              => PublisherInv'
<1>1. ASSUME Init PROVE PublisherInv
  <2>1. TypeInv /\ ReceptionInv
    BY <1>1, TypeInductive, ReceptionInductive
  <2> QED
    BY <1>1, <2>1 DEF Init, PublisherInv, Numbered, OnlineIsLast, Current,
       PublicationOK, RecordOK, Publishing, Replacing, Preparing, Writing
<1>2. ASSUME PublisherInv, NEW m \in Machines, Step(m), Whole(m)
      PROVE  PublisherInv'
  <2>1. [Next]_vars
    BY <1>2 DEF Step, Next
  <2>2. TypeInv' /\ ReceptionInv'
    BY <1>2, <2>1, TypeInductive, ReceptionInductive DEF PublisherInv
  <2>3. Numbered' /\ OnlineIsLast'
    BY <1>2, OwnPublication
  <2>4. ASSUME NEW n \in Machines PROVE PublicationOK(n)' /\ RecordOK(n)'
    <3>1. CASE n = m
      BY <1>2, <3>1, OwnPublication, OwnRecord
    <3>2. CASE n # m
      BY <1>2, <2>1, <3>2, OtherPublication, StepIsLocal, RecordKept
      DEF PublisherInv
    <3> QED
      BY <3>1, <3>2
  <2> QED
    BY <2>2, <2>3, <2>4 DEF PublisherInv
<1>3. ASSUME PublisherInv, UNCHANGED vars PROVE PublisherInv'
  <2>1. TypeInv' /\ ReceptionInv'
    BY <1>3, TypeInductive, ReceptionInductive DEF PublisherInv
  <2> QED
    BY <1>3, <2>1 DEF PublisherInv, Numbered, OnlineIsLast, Current,
       PublicationOK, RecordOK, NewManifest, vars, hosting, disks, memory
<1> QED
  BY <1>1, <1>2, <1>3 DEF Next, Step

\* One publisher, over FTP or over SFTP without that crash: the invariant holds
\* for ever.
LEMMA PublisherInvariant ==
  ASSUME OneWriter
  PROVE  Spec /\ MovesAreWhole => []PublisherInv
<1>1. (Init => PublisherInv)
      /\ (PublisherInv /\ [Next]_vars /\ [\A m \in Machines : Whole(m)]_vars
            => PublisherInv')
  BY PublisherInductive
<1> QED
  BY <1>1, PTL DEF Spec, MovesAreWhole

\* ftpWriter.Move is one rename: over FTP there is nothing to interrupt, and the
\* theorems below hold with any failures.
LEMMA FtpMovesAreWhole ==
  ASSUME ~SftpMove
  PROVE  Spec => MovesAreWhole
<1> DEFINE NoRename == \A m \in Machines : pc[m] # "rename"
<1>1. Init => NoRename
  BY DEF Init
<1>2. ASSUME TypeInv, NoRename, NEW m \in Machines, Step(m)
      PROVE  NoRename'
  <2> USE DEF TypeInv, TypeOK
  <2>1. ASSUME NEW n \in Machines, n # m PROVE pc'[n] # "rename"
    BY <1>2, <2>1, StepIsLocal
  <2>2. pc'[m] # "rename"
    <3>1. CASE pc[m] \notin Publishing
      BY <1>2, <3>1, OnlyPublishWrites DEF Publishing, Writing
    <3>2. CASE pc[m] \in Publishing
      <4>1. ~(Launch(m) \/ CloseObs(m) \/ Receive(m) \/ ReceiveError(m))
        BY <3>2 DEF Launch, CloseObs, Receive, ReceiveError, ReadNothingToDo,
           ReadManifest, SkipAsset, Download, VerifyAsset, RejectAsset,
           ApplyScenes, RejectScenes, RecordVersion, RecordFails, ReceiveFails,
           Publishing, Preparing, Writing
      <4> QED
        BY <1>2, <4>1 DEF Step, Session, Errors, EditAsset, Stop, Finish,
           Publish, PublishRefused, PublishFirst, PublishNext, ArchiveManifest,
           ArchiveColl, ArchiveFails, TakeInventory, BeginAsset, EndAsset,
           AssetVanished, BeginColl, EndColl, BeginStage, EndStage, MoveFTP,
           RemoveTarget, MoveSFTP, MoveFails, Rename, Commit
    <3> QED
      BY <3>1, <3>2
  <2> QED
    BY <2>1, <2>2
<1>3. TypeInv /\ NoRename /\ [Next]_vars => NoRename'
  <2>1. ASSUME NoRename, UNCHANGED vars PROVE NoRename'
    BY <2>1 DEF vars
  <2> QED
    BY <1>2, <2>1 DEF Next, Step
<1>4. NoRename => [\A m \in Machines : Whole(m)]_vars
  BY DEF Whole
<1> QED
  BY <1>1, <1>3, <1>4, TypeInductive, PTL DEF Spec, MovesAreWhole

\* A machine that recorded the version online recorded scenes made of that
\* version's: the shortcut of Receive never keeps other scenes under the right
\* number, whatever failed before.
THEOREM UpToDateSame ==
  ASSUME OneWriter
  PROVE  Spec /\ MovesAreWhole => []UpToDateMeansSame
<1>1. PublisherInv => UpToDateMeansSame
  <2> SUFFICES ASSUME PublisherInv, NEW m \in Machines,
                      disk[m].version = manifest.version, manifest.version # 0
               PROVE  disk[m].hash \in Variants[manifest.coll]
    BY DEF UpToDateMeansSame
  <2> USE DEF PublisherInv, TypeInv, TypeOK
  <2>1. manifest = Current
    BY DEF OnlineIsLast, NoManifest
  <2>2. disk[m].version = Len(published)
    BY <2>1, CurrentVersion
  <2>3. disk[m].version \in DOMAIN published
        /\ disk[m].hash \in Variants[published[disk[m].version].coll]
    BY DEF RecordOK
  <2>4. published # <<>>
    BY <2>3
  <2> QED
    BY <2>1, <2>2, <2>3, <2>4 DEF Current
<1>2. Spec /\ MovesAreWhole => []PublisherInv
  BY PublisherInvariant
<1> QED
  BY <1>1, <1>2, PTL

\* The comparison of versions that Publish makes before it archives and uploads
\* still holds when the manifest is renamed: what is replaced is the version
\* that the publisher's machine had recorded.
THEOREM ReplacesItsBase ==
  ASSUME OneWriter
  PROVE  Spec /\ MovesAreWhole => PublishesOnItsBase
<1>1. PublisherInv =>
        \A m \in Publishers :
          pc[m] = "move" => manifest.version \in {0, cfg[m].version}
  BY ConstantsAssumption DEF PublisherInv, PublicationOK, Replacing, Writing
<1>2. Spec /\ MovesAreWhole => []PublisherInv
  BY PublisherInvariant
<1>3. PublisherInv =>
        [\A m \in Publishers :
           pc[m] = "move" /\ manifest' # manifest =>
             manifest.version \in {0, cfg[m].version}]_vars
  BY <1>1
<1> QED
  BY <1>2, <1>3, PTL DEF PublishesOnItsBase

\* A publication starts from version 1 only where nothing was ever published:
\* the crash that MovesAreWhole excludes is the only way to a hosting that looks
\* empty and is not.
THEOREM FirstIsFirst ==
  ASSUME OneWriter
  PROVE  Spec /\ MovesAreWhole => EmptyMeansNever
<1>1. PublisherInv =>
        [\A m \in Publishers : PublishFirst(m) => published = <<>>]_vars
  <2> SUFFICES ASSUME PublisherInv, NEW m \in Publishers, PublishFirst(m)
               PROVE  published = <<>>
    OBVIOUS
  <2>1. pc[m] = "compare" /\ manifest.version = 0 /\ m \in Machines
    BY ConstantsAssumption DEF PublishFirst, NoManifest
  <2>2. manifest = Current
    BY <2>1, OnlineUntilMoved DEF Publishing, Preparing
  <2>3. Len(published) = 0
    BY <2>1, <2>2, CurrentVersion DEF PublisherInv
  <2> QED
    BY <2>3 DEF PublisherInv, TypeInv, TypeOK
<1>2. Spec /\ MovesAreWhole => []PublisherInv
  BY PublisherInvariant
<1> QED
  BY <1>1, <1>2, PTL DEF EmptyMeansNever

-----------------------------------------------------------------------------
(* The promise *)

\* A step that publishes adds the scenes of the next version to the log.
LEMMA PublishRefines ==
  ASSUME PublisherInv, NEW m \in Machines, MoveFTP(m) \/ MoveSFTP(m)
  PROVE  Team!Publish
<1> USE DEF PublisherInv, TypeInv, TypeOK
<1> DEFINE s == NewManifest(m).coll
           Log(p) == [i \in DOMAIN p |-> p[i].coll]
<1>1. Rename(m) /\ pc[m] \in {"move", "rename"}
  BY DEF MoveFTP, MoveSFTP
<1>2. published' = Append(published, NewManifest(m)) /\ s \in Scenes
  BY <1>1, RenamePublishes
<1>3. UNCHANGED disk
  BY <1>1 DEF Rename, disks
<1>4. Len(published) \in Nat /\ Len(published') = Len(published) + 1
      /\ DOMAIN published = 1..Len(published)
      /\ DOMAIN published' = 1..(Len(published) + 1)
      /\ published'[Len(published) + 1] = NewManifest(m)
      /\ \A i \in DOMAIN published : published'[i] = published[i]
  BY <1>2
<1>5. Log(published) \in Seq(Scenes) /\ Len(Log(published)) = Len(published)
  BY <1>4 DEF Numbered
<1>6. Log(published') = Append(Log(published), s)
  BY <1>2, <1>4, <1>5
<1> QED
  BY <1>2, <1>3, <1>6 DEF Team!Publish

\* A step that records something adopts a version of the log.
LEMMA RecordRefines ==
  ASSUME OneWriter, PublisherInv, NEW m \in Machines, Step(m),
         disk'[m] # disk[m]
  PROVE  Team!Adopt(m)
BY RecordStep DEF Team!Adopt

\* Every other step leaves versions and records alone.
LEMMA OtherwiseStutter ==
  ASSUME PublisherInv, NEW m \in Machines, Step(m), disk'[m] = disk[m],
         ~MoveFTP(m), ~MoveSFTP(m)
  PROVE  UNCHANGED <<published, disk>>
<1>1. UNCHANGED published
  BY StageWrites
  DEF Step, Session, Errors, Launch, Receive, ReceiveError, ReadNothingToDo,
     ReadManifest, SkipAsset, Download, VerifyAsset, RejectAsset, ApplyScenes,
     RejectScenes, RecordVersion, RecordFails, ReceiveFails, CloseObs, EditAsset,
     Stop, Publish, PublishRefused, PublishFirst, PublishNext, ArchiveManifest,
     ArchiveColl, ArchiveFails, TakeInventory, BeginAsset, EndAsset,
     AssetVanished, BeginColl, EndColl, BeginStage, MoveFails, RemoveTarget,
     Commit, hosting
<1>2. disk \in [Machines -> Applied] /\ disk' \in [Machines -> Applied]
  BY TypeInductive DEF PublisherInv, TypeInv, TypeOK, Step, Next
<1>3. \A n \in Machines : disk'[n] = disk[n]
  BY StepIsLocal DEF PublisherInv
<1> QED
  BY <1>1, <1>2, <1>3

\* The hosting and the config.json files keep the promise: whatever fails while
\* files are archived, uploaded or downloaded, versions are numbered without gap
\* or repetition, no machine goes back to an older one, and what a machine
\* records as version N are scenes of version N.
THEOREM PromiseKept ==
  ASSUME OneWriter
  PROVE  Spec /\ MovesAreWhole => KeepsPromise
<1>1. Init => Team!Init
  BY DEF Init, Team!Init
<1>2. ASSUME PublisherInv, [Next]_vars
      PROVE  [Team!Next]_<<[i \in DOMAIN published |-> published[i].coll], disk>>
  <2>1. ASSUME NEW m \in Machines, Step(m)
        PROVE  Team!Next \/ UNCHANGED <<published, disk>>
    <3>1. CASE MoveFTP(m) \/ MoveSFTP(m)
      BY <1>2, <3>1, PublishRefines DEF Team!Next
    <3>2. CASE disk'[m] # disk[m]
      BY <1>2, <2>1, <3>2, RecordRefines DEF Team!Next
    <3> QED
      BY <1>2, <2>1, <3>1, <3>2, OtherwiseStutter DEF PublisherInv
  <2>2. CASE UNCHANGED vars
    BY <2>2 DEF vars, hosting, disks
  <2> QED
    BY <1>2, <2>1, <2>2 DEF Next, Step
<1>3. Spec /\ MovesAreWhole => []PublisherInv
  BY PublisherInvariant
<1> QED
  BY <1>1, <1>2, <1>3, PTL DEF Spec, KeepsPromise, Team!Spec

-----------------------------------------------------------------------------
(* Between publications without a failure: the scenes *)

\* From the truncation of the collection online to the rename.
Sending == {"collecting", "stage", "staging", "move", "rename"}

\* The scenes online are those of the manifest, or else those of a publication
\* that has sent them and not renamed its manifest yet.
ScenesInv ==
  faults = 0 =>
    /\ manifest.version # 0 /\ (\A p \in Publishers : pc[p] \notin Sending) =>
         onlineColl = manifest.coll
    /\ \A m \in Machines :
         pc[m] \in Sending \ {"collecting"} => onlineColl = coll[m]

\* The publisher alone decides whether files are being overwritten.
LEMMA OneWrites ==
  ASSUME OneWriter, PublisherInv, NEW m \in Machines, Step(m), NEW S,
         S \subseteq Writing
  PROVE  /\ pc[m] \in Publishing =>
              /\ m \in Publishers
              /\ \A n \in Machines : n # m => pc[n] \notin Publishing
              /\ (\E p \in Publishers : pc[p] \in S) <=> pc[m] \in S
              /\ (\E p \in Publishers : pc'[p] \in S) <=> pc'[m] \in S
         /\ pc[m] \notin Publishing =>
              ((\E p \in Publishers : pc'[p] \in S) <=> \E p \in Publishers : pc[p] \in S)
<1> USE ConstantsAssumption DEF PublisherInv
<1>1. \A n \in Machines : n # m => pc'[n] = pc[n]
  BY StepIsLocal
<1>2. CASE pc[m] \in Publishing
  BY <1>1, <1>2 DEF OneWriter, PublicationOK
<1>3. CASE pc[m] \notin Publishing
  <2>1. pc[m] \notin S /\ pc'[m] \notin S
    BY <1>3, OnlyPublishWrites DEF Publishing, Preparing, Writing
  <2> QED
    BY <1>1, <1>3, <2>1
<1> QED
  BY <1>2, <1>3

\* A step after which nothing has failed is not a failure.
LEMMA NoFailure ==
  ASSUME TypeInv, NEW m \in Machines, Step(m), faults' = 0
  PROVE  faults = 0 /\ ~Stop(m) /\ ~ArchiveFails(m) /\ ~ReceiveError(m)
<1>1. ~Fault
  BY DEF TypeInv, TypeOK, Fault
<1>2. ~Stop(m) /\ ~ArchiveFails(m) /\ ~ReceiveError(m)
  BY <1>1 DEF Stop, ArchiveFails, ReceiveError, RecordFails, ReceiveFails
<1> QED
  BY <1>2 DEF Step, Session, Errors, Launch, Receive, ReadNothingToDo,
     ReadManifest, SkipAsset, Download, VerifyAsset, RejectAsset, ApplyScenes,
     RejectScenes, RecordVersion, CloseObs, EditAsset, Publish, PublishRefused,
     PublishFirst, PublishNext, ArchiveManifest, ArchiveColl, TakeInventory,
     BeginAsset, EndAsset, AssetVanished, BeginColl, EndColl, BeginStage, EndStage,
     MoveFTP, MoveSFTP, MoveFails, RemoveTarget, Rename, Commit

\* What a publication that has not failed may do, at the place where it stands.
PublisherStep(m) ==
  \/ PublishRefused(m) \/ PublishFirst(m) \/ PublishNext(m)
  \/ ArchiveManifest(m) \/ ArchiveColl(m) \/ TakeInventory(m)
  \/ BeginAsset(m) \/ EndAsset(m) \/ AssetVanished(m)
  \/ BeginColl(m) \/ EndColl(m) \/ BeginStage(m) \/ EndStage(m)
  \/ MoveFTP(m) \/ RemoveTarget(m) \/ MoveSFTP(m) \/ Commit(m)
  \/ EditAsset(m) /\ LiveEdits

\* In particular the file that Publish renames is the one it has just written:
\* MoveFails is for a second publisher.
LEMMA WithoutFailure ==
  ASSUME PublisherInv, NEW m \in Machines, Step(m), faults' = 0,
         pc[m] \in Publishing
  PROVE  PublisherStep(m)
<1>1. ~Stop(m) /\ ~ArchiveFails(m) /\ ~ReceiveError(m)
  BY NoFailure DEF PublisherInv
<1>2. ~(Launch(m) \/ CloseObs(m) \/ Receive(m))
  BY DEF Launch, CloseObs, Receive, ReadNothingToDo,
     ReadManifest, SkipAsset, Download, VerifyAsset, RejectAsset, ApplyScenes,
     RejectScenes, RecordVersion, Publishing, Preparing, Writing
<1>3. EditAsset(m) => LiveEdits
  BY DEF EditAsset, Publishing, Preparing, Writing
<1>4. ~MoveFails(m)
  <2>1. SUFFICES ASSUME MoveFails(m) PROVE FALSE
    OBVIOUS
  <2>2. pc[m] \in {"move", "rename"} /\ staged.version = 0
    BY <2>1 DEF MoveFails, NoManifest
  <2>3. staged = NewManifest(m)
    BY <2>2 DEF PublisherInv, PublicationOK
  <2> QED
    BY <2>2, <2>3 DEF NewManifest, Manifest, PublisherInv, TypeInv, TypeOK
<1> QED
  BY <1>1, <1>2, <1>3, <1>4 DEF PublisherStep, Step, Session, Errors, Publish

\* A publication that runs keeps the scenes online in step with the manifest.
LEMMA ScenesStep ==
  ASSUME OneWriter, PublisherInv, ScenesInv, NEW m \in Machines, Step(m)
  PROVE  ScenesInv'
<1> SUFFICES ASSUME faults' = 0 PROVE ScenesInv'
  BY DEF ScenesInv
<1> USE DEF PublisherInv, TypeInv, TypeOK
<1>1. faults = 0
  BY NoFailure
<1>2. Sending \subseteq Writing /\ Writing \subseteq Publishing
  BY DEF Sending, Writing, Publishing
<1>3. \A n \in Machines : n # m => pc'[n] = pc[n] /\ coll'[n] = coll[n]
  BY StepIsLocal
<1>4. CASE pc[m] \notin Publishing
  <2>1. UNCHANGED hosting /\ pc'[m] \notin Sending
    BY <1>4, OnlyPublishWrites DEF Sending, Publishing, Preparing, Writing
  <2> QED
    BY <1>1, <1>2, <1>3, <1>4, <2>1, OneWrites DEF ScenesInv, hosting
<1>5. CASE pc[m] \in Publishing
  <2> DEFINE Own ==
        /\ manifest'.version # 0 /\ pc'[m] \notin Sending =>
             onlineColl' = manifest'.coll
        /\ pc'[m] \in Sending \ {"collecting"} => onlineColl' = coll'[m]
  <2>1. /\ manifest.version # 0 /\ pc[m] \notin Sending =>
             onlineColl = manifest.coll
        /\ pc[m] \in Sending \ {"collecting"} => onlineColl = coll[m]
    BY <1>1, <1>2, <1>5, OneWrites DEF ScenesInv
  <2>2. Own => ScenesInv'
    BY <1>2, <1>3, <1>5, OneWrites DEF ScenesInv
  <2>3. CASE MoveFTP(m) \/ MoveSFTP(m)
    <3>1. pc[m] \in {"move", "rename"} /\ Rename(m)
      BY <2>3 DEF MoveFTP, MoveSFTP
    <3>2. staged = NewManifest(m)
      BY <3>1 DEF PublicationOK
    <3> QED
      BY <2>1, <2>2, <3>1, <3>2
      DEF Rename, GoesOnline, NewManifest, Sending, disks
  <2>4. CASE \/ PublishRefused(m) \/ PublishFirst(m) \/ PublishNext(m)
             \/ ArchiveManifest(m) \/ ArchiveColl(m) \/ TakeInventory(m)
             \/ BeginAsset(m) \/ EndAsset(m) \/ AssetVanished(m)
             \/ Commit(m) \/ EditAsset(m)
    BY <2>1, <2>2, <2>4
    DEF PublishRefused, PublishFirst, PublishNext, ArchiveManifest, ArchiveColl,
        TakeInventory, BeginAsset, EndAsset, AssetVanished, Commit, EditAsset,
        Finish, Sending, hosting, disks
  <2>5. CASE BeginColl(m) \/ EndColl(m) \/ BeginStage(m) \/ EndStage(m)
             \/ RemoveTarget(m)
    BY <2>1, <2>2, <2>5, StageWrites
    DEF BeginColl, EndColl, BeginStage, RemoveTarget, Sending, disks, NoManifest
  <2> QED
    BY <1>5, <2>3, <2>4, <2>5, WithoutFailure DEF PublisherStep
<1> QED
  BY <1>4, <1>5

-----------------------------------------------------------------------------
(* Between publications without a failure nor an edit: the assets *)

\* An upload under way sends what it lists, and every asset it does not send
\* any more, the differential ones included, is online as listed.
UploadOK(m) ==
  /\ pc[m] \in Writing =>
       \A a \in Listed(plan[m]) :
         /\ asset[m][a] = plan[m][a]
         /\ a \notin todo[m] => onlineAsset[a] = plan[m][a]
  /\ pc[m] \in {"upload", "uploading"} => todo[m] \subseteq Listed(plan[m])
  /\ pc[m] = "uploading" => cur[m] \in todo[m]
  /\ pc[m] \in Writing \ {"upload", "uploading"} => todo[m] = {}

AssetsInv ==
  faults = 0 =>
    /\ manifest.version # 0 /\ ~BeingWritten =>
         \A a \in Listed(manifest.assets) : onlineAsset[a] = manifest.assets[a]
    /\ \A m \in Machines : UploadOK(m)

\* A publication that runs keeps the assets online in step with the manifest:
\* those it sends, because nobody edits them between the inventory and the
\* upload; the others, because the differential compares with what is online.
LEMMA AssetsStep ==
  ASSUME OneWriter, ~LiveEdits, PublisherInv, AssetsInv,
         NEW m \in Machines, Step(m)
  PROVE  AssetsInv'
<1> SUFFICES ASSUME faults' = 0 PROVE AssetsInv'
  BY DEF AssetsInv
<1> USE DEF PublisherInv, TypeInv, TypeOK
<1>1. faults = 0
  BY NoFailure
<1>2. Writing \subseteq Publishing
  BY DEF Publishing
<1>3. ASSUME NEW n \in Machines, n # m
      PROVE  /\ pc'[n] = pc[n] /\ todo'[n] = todo[n] /\ cur'[n] = cur[n]
             /\ asset'[n] = asset[n] /\ plan'[n] = plan[n]
  BY <1>3, StepIsLocal
<1>4. CASE pc[m] \notin Publishing
  <2>1. UNCHANGED hosting /\ pc'[m] \notin Writing
    BY <1>4, OnlyPublishWrites DEF Publishing, Preparing, Writing
  <2>2. BeingWritten' <=> BeingWritten
    BY <1>4, OneWrites DEF BeingWritten
  <2>3. UploadOK(m)'
    BY <2>1 DEF UploadOK, Writing
  <2>4. ASSUME NEW n \in Machines, n # m PROVE UploadOK(n)'
    BY <1>1, <1>3, <2>1, <2>4 DEF AssetsInv, UploadOK, Listed, hosting
  <2> QED
    BY <1>1, <2>1, <2>2, <2>3, <2>4 DEF AssetsInv, Listed, hosting
<1>5. CASE pc[m] \in Publishing
  <2> DEFINE Own ==
        /\ manifest'.version # 0 /\ pc'[m] \notin Writing =>
             \A a \in Listed(manifest'.assets) :
               onlineAsset'[a] = manifest'.assets[a]
        /\ UploadOK(m)'
  <2>1. /\ manifest.version # 0 /\ pc[m] \notin Writing =>
             \A a \in Listed(manifest.assets) : onlineAsset[a] = manifest.assets[a]
        /\ UploadOK(m)
    BY <1>1, <1>5, OneWrites DEF AssetsInv, BeingWritten
  <2>2. Own => AssetsInv'
    <3>1. ASSUME NEW n \in Machines, n # m PROVE UploadOK(n)'
      <4>1. pc'[n] \notin Writing
        BY <1>2, <1>3, <1>5, <3>1, OneWrites
      <4> QED
        BY <4>1 DEF UploadOK, Writing
    <3>2. BeingWritten' <=> pc'[m] \in Writing
      BY <1>5, OneWrites DEF BeingWritten
    <3> QED
      BY <3>1, <3>2 DEF AssetsInv, Listed
  <2>3. CASE MoveFTP(m) \/ MoveSFTP(m)
    <3>1. pc[m] \in {"move", "rename"} /\ Rename(m)
      BY <2>3 DEF MoveFTP, MoveSFTP
    <3>2. staged = NewManifest(m)
      BY <3>1 DEF PublicationOK
    <3>3. manifest'.assets = plan[m] /\ pc'[m] = "commit"
          /\ UNCHANGED onlineAsset
      BY <3>1, <3>2 DEF Rename, GoesOnline, NewManifest
    <3>4. \A a \in Listed(plan[m]) : onlineAsset[a] = plan[m][a]
      BY <2>1, <3>1 DEF UploadOK, Writing
    <3> QED
      BY <2>2, <3>3, <3>4 DEF UploadOK, Writing
  <2>4. CASE \/ PublishRefused(m) \/ PublishFirst(m) \/ PublishNext(m)
             \/ ArchiveManifest(m) \/ ArchiveColl(m) \/ Commit(m)
    <3>1. pc[m] \notin Writing /\ pc'[m] \notin Writing
          /\ UNCHANGED <<manifest, onlineAsset>>
      BY <2>4 DEF PublishRefused, PublishFirst, PublishNext, ArchiveManifest,
         ArchiveColl, Commit, Finish, Writing, hosting
    <3> QED
      BY <2>1, <2>2, <3>1 DEF UploadOK, Writing, Listed
  <2>5. CASE TakeInventory(m)
    <3>1. pc[m] = "inventory" /\ pc'[m] = "upload"
          /\ plan'[m] = Inventory(m) /\ todo'[m] = ToSend(m, Inventory(m))
          /\ UNCHANGED <<onlineAsset, asset>>
      BY <2>5 DEF TakeInventory, hosting, disks
    <3>2. seen[m] = manifest /\ pc[m] \notin Writing
      BY <3>1 DEF PublicationOK, Replacing, Writing
    <3>3. \A a \in Listed(plan'[m]) : asset'[m][a] = plan'[m][a]
      BY <3>1 DEF Inventory, Listed
    <3>4. ASSUME NEW a \in Listed(plan'[m]), a \notin todo'[m]
          PROVE  onlineAsset'[a] = plan'[m][a]
      <4>1. seen[m].assets[a] = plan'[m][a] /\ a \in Listed(seen[m].assets)
        BY <3>1, <3>4 DEF ToSend, Listed
      <4>2. manifest.version # 0
        <5>1. ASSUME manifest.version = 0 PROVE manifest = NoManifest
          BY <5>1, CurrentVersion DEF OnlineIsLast, Current
        <5> QED
          BY <3>2, <4>1, <5>1 DEF NoManifest, NoFiles, Listed
      <4> QED
        BY <2>1, <3>1, <3>2, <4>1, <4>2
    <3> QED
      BY <2>2, <3>1, <3>3, <3>4 DEF UploadOK, Writing, ToSend
  <2>6. CASE BeginAsset(m)
    <3>1. PICK a \in todo[m] :
            /\ onlineAsset' = [onlineAsset EXCEPT ![a] = Torn]
            /\ cur' = [cur EXCEPT ![m] = a]
      BY <2>6 DEF BeginAsset
    <3>2. pc[m] = "upload" /\ pc'[m] = "uploading"
          /\ UNCHANGED <<asset, todo, plan>>
      BY <2>6 DEF BeginAsset, disks
    <3> QED
      BY <2>1, <2>2, <3>1, <3>2 DEF UploadOK, Writing, Listed
  <2>7. CASE EndAsset(m)
    <3>1. pc[m] = "uploading" /\ pc'[m] = "upload"
          /\ onlineAsset' = [onlineAsset EXCEPT ![cur[m]] = asset[m][cur[m]]]
          /\ todo'[m] = todo[m] \ {cur[m]}
          /\ UNCHANGED <<asset, plan>>
      BY <2>7 DEF EndAsset, disks
    <3>2. cur[m] \in Listed(plan[m]) /\ asset[m][cur[m]] = plan[m][cur[m]]
      BY <2>1, <3>1 DEF UploadOK, Writing
    <3>3. \A a \in Listed(plan[m]) :
            a \notin todo'[m] => onlineAsset'[a] = plan[m][a]
      BY <2>1, <3>1, <3>2 DEF UploadOK, Writing, Listed, Files
    <3> QED
      BY <2>1, <2>2, <3>1, <3>3 DEF UploadOK, Writing, Listed
  <2>8. ~AssetVanished(m)
    BY <2>1 DEF AssetVanished, UploadOK, Writing, Listed
  <2>9. CASE BeginColl(m) \/ EndColl(m) \/ BeginStage(m) \/ EndStage(m)
             \/ RemoveTarget(m)
    <3>1. pc[m] \in Writing \ {"uploading"} /\ todo[m] = {}
          /\ pc'[m] \in Writing \ {"upload", "uploading"}
          /\ UNCHANGED <<onlineAsset, asset, todo, plan>>
      BY <2>1, <2>9, StageWrites DEF BeginColl, EndColl, BeginStage,
         RemoveTarget, UploadOK, Writing, disks, memory
    <3> QED
      BY <2>1, <2>2, <3>1 DEF UploadOK, Writing, Listed
  <2> QED
    BY <1>5, <2>3, <2>4, <2>5, <2>6, <2>7, <2>8, <2>9, WithoutFailure
    DEF PublisherStep
<1> QED
  BY <1>4, <1>5

-----------------------------------------------------------------------------
(* Downloads and archives that no failure disturbs *)

\* The reception under way is after assets of the manifest it read; a download
\* is intact, unless a publication was or is writing since that reading.
VerifyOK(m) ==
  /\ pc[m] \in {"assets", "verify"} => todo[m] \subseteq Listed(seen[m].assets)
  /\ faults = 0 /\ pc[m] = "verify" /\ manifest = seen[m] =>
       BeingWritten \/ Intact(m, cur[m])

VerifyInv == \A m \in Machines : VerifyOK(m)

\* A publication never puts online again a manifest that a reception has read.
LEMMA NeverAgain ==
  ASSUME OneWriter, PublisherInv, NEW m \in Machines, Step(m), faults' = 0,
         BeingWritten, ~BeingWritten', NEW n \in Machines, n # m,
         pc[n] = "verify", ~LiveEdits, AssetsInv
  PROVE  manifest' # seen[n]
<1> USE DEF PublisherInv, TypeInv, TypeOK
<1>1. pc[m] \in Writing /\ pc'[m] \notin Writing /\ pc[m] \in Publishing
  BY OneWrites DEF BeingWritten, Publishing
<1>2. ~AssetVanished(m)
  BY <1>1, NoFailure DEF AssetsInv, AssetVanished, UploadOK, Listed, Writing
<1>3. MoveFTP(m) \/ MoveSFTP(m)
  BY <1>1, <1>2, WithoutFailure DEF PublisherStep, PublishRefused, PublishFirst,
     PublishNext, ArchiveManifest, ArchiveColl, TakeInventory, BeginAsset,
     EndAsset, BeginColl, EndColl, BeginStage, EndStage, RemoveTarget, Commit,
     Writing
<1>4. manifest'.version = Len(published) + 1
  <2>1. pc[m] \in {"move", "rename"} /\ Rename(m)
    BY <1>3 DEF MoveFTP, MoveSFTP
  <2>2. staged = NewManifest(m)
    BY <2>1 DEF PublicationOK
  <2> QED
    BY <2>1, <2>2, RenamePublishes DEF Rename, GoesOnline
<1>5. PICK i \in DOMAIN published : published[i] = seen[n]
  BY DEF ReceptionInv, ReceptionOK
<1>6. seen[n].version = i /\ i \in 1..Len(published)
  BY <1>5 DEF Numbered
<1> QED
  BY <1>4, <1>6

\* The assets served are those of the manifest that is online, and they are
\* what a download of this step gets.
LEMMA OwnVerify ==
  ASSUME OneWriter, ~LiveEdits, ~Caches, PublisherInv, AssetsInv, VerifyInv,
         NEW m \in Machines, Step(m)
  PROVE  VerifyOK(m)'
<1> USE DEF PublisherInv, TypeInv, TypeOK
<1>1. VerifyOK(m)
  BY DEF VerifyInv
<1>2. CASE Download(m)
  <2>1. PICK a \in todo[m], c \in Contents :
          /\ c \in ServedAsset(a)
          /\ asset' = [asset EXCEPT ![m][a] = c] /\ cur' = [cur EXCEPT ![m] = a]
    BY <1>2 DEF Download
  <2>2. pc[m] = "assets" /\ pc'[m] = "verify"
        /\ UNCHANGED <<manifest, onlineAsset, published, seen, todo, faults>>
    BY <1>2 DEF Download, hosting
  <2>3. a \in Listed(seen[m].assets) /\ a \in Assets
    BY <1>1, <2>1, <2>2 DEF VerifyOK
  <2>4. c = onlineAsset[a]
    BY <2>1 DEF ServedAsset, Earlier
  <2>5. asset'[m][a] = c /\ cur'[m] = a
    BY <2>1, <2>3 DEF Files
  <2>6. ASSUME faults = 0, manifest = seen[m], ~BeingWritten
        PROVE  onlineAsset[a] = seen[m].assets[a]
    <3>1. PICK i \in DOMAIN published : published[i] = seen[m]
      BY <2>2 DEF ReceptionInv, ReceptionOK
    <3>2. manifest.version # 0
      BY <2>6, <3>1 DEF Numbered
    <3> QED
      BY <2>3, <2>6, <3>2 DEF AssetsInv
  <2>7. BeingWritten' <=> BeingWritten
    <3>1. pc[m] \notin Publishing
      BY <2>2 DEF Publishing, Preparing, Writing
    <3> QED
      BY <3>1, OneWrites DEF BeingWritten
  <2> QED
    BY <1>1, <2>2, <2>4, <2>5, <2>6, <2>7 DEF VerifyOK, Intact
<1>3. CASE ReadManifest(m) \/ SkipAsset(m) \/ VerifyAsset(m)
  BY <1>1, <1>3 DEF ReadManifest, SkipAsset, VerifyAsset, VerifyOK, hosting
<1>4. Download(m) \/ ReadManifest(m) \/ SkipAsset(m) \/ VerifyAsset(m)
      \/ pc'[m] \notin {"assets", "verify"}
  <2> USE DEF Finish, ReceiveReturns, hosting, disks, memory
  <2>1. CASE Receive(m) \/ ReceiveError(m)
    BY <2>1 DEF Receive, ReceiveError, ReadNothingToDo, RejectAsset, ApplyScenes,
       RejectScenes, RecordVersion, RecordFails, ReceiveFails
  <2>2. CASE Publish(m) \/ ArchiveFails(m)
    BY <2>2 DEF Publish, PublishRefused, PublishFirst, PublishNext,
       ArchiveManifest, ArchiveColl, ArchiveFails, TakeInventory, BeginAsset,
       EndAsset, AssetVanished, BeginColl, EndColl, BeginStage, EndStage, MoveFTP,
       RemoveTarget, MoveSFTP, MoveFails, Rename, Commit
  <2>3. CASE Launch(m) \/ CloseObs(m) \/ EditAsset(m) \/ Stop(m)
    BY <2>3 DEF Launch, CloseObs, EditAsset, Stop, Publishing, Preparing, Writing
  <2> QED
    BY <2>1, <2>2, <2>3 DEF Step, Session, Errors
<1> QED
  BY <1>2, <1>3, <1>4 DEF VerifyOK

\* A step of another machine disturbs a download only by writing, or by putting
\* another manifest online.
LEMMA VerifyStep ==
  ASSUME OneWriter, ~LiveEdits, ~Caches, PublisherInv, AssetsInv, VerifyInv,
         NEW m \in Machines, Step(m)
  PROVE  VerifyInv'
<1> USE DEF PublisherInv, TypeInv, TypeOK
<1>1. ASSUME NEW n \in Machines, n # m PROVE VerifyOK(n)'
  <2>1. /\ pc'[n] = pc[n] /\ seen'[n] = seen[n] /\ todo'[n] = todo[n]
        /\ cur'[n] = cur[n] /\ asset'[n] = asset[n]
    BY <1>1, StepIsLocal
  <2>2. VerifyOK(n)
    BY DEF VerifyInv
  <2>3. ASSUME faults' = 0, pc[n] = "verify", manifest' = seen[n], ~BeingWritten'
        PROVE  Intact(n, cur[n])
    <3>1. faults = 0
      BY <2>3, NoFailure
    <3>2. ~BeingWritten
      BY <1>1, <2>3, NeverAgain
    <3>3. manifest = seen[n]
      <4>1. CASE UNCHANGED manifest
        BY <2>3, <4>1
      <4>2. CASE pc[m] \notin Publishing
        BY <2>3, <4>2, OnlyPublishWrites DEF hosting
      <4>3. CASE pc[m] \in Publishing /\ ~UNCHANGED manifest
        <5>1. MoveFTP(m) \/ RemoveTarget(m) \/ MoveSFTP(m)
          BY <2>3, <4>3, WithoutFailure, StageWrites
          DEF PublisherStep, PublishRefused, PublishFirst, PublishNext,
              ArchiveManifest, ArchiveColl, TakeInventory, BeginAsset, EndAsset,
              AssetVanished, BeginColl, EndColl, BeginStage, Commit, EditAsset,
              hosting
        <5>2. pc[m] \in Writing
          BY <5>1 DEF MoveFTP, RemoveTarget, MoveSFTP, Writing
        <5> QED
          BY <3>2, <4>3, <5>2, OneWrites DEF BeingWritten
      <4> QED
        BY <4>1, <4>2, <4>3
    <3> QED
      BY <2>2, <2>3, <3>1, <3>2, <3>3 DEF VerifyOK
  <2> QED
    BY <2>1, <2>2, <2>3 DEF VerifyOK, Intact
<1> QED
  BY <1>1, OwnVerify DEF VerifyInv

\* The directory of every version that was replaced holds it, and the version
\* that a publication is about to replace is archived first.
ArchiveOK(m) ==
  /\ pc[m] \in {"archive", "archiveColl"} => seen[m].version # 0
  /\ faults = 0 /\ pc[m] = "archiveColl" =>
       archive[seen[m].version].manifest = seen[m]
  /\ /\ faults = 0 /\ seen[m].version # 0
     /\ pc[m] \in {"inventory"} \cup Writing
     => /\ archive[seen[m].version].manifest = seen[m]
        /\ archive[seen[m].version].coll = seen[m].coll

ArchiveInv ==
  /\ faults = 0 =>
       \A v \in Versions : v < Len(published) =>
         /\ archive[v].manifest = published[v]
         /\ archive[v].coll = published[v].coll
  /\ \A m \in Machines : ArchiveOK(m)

\* Only the machine that publishes needs a look: the versions already archived
\* stay, and what the others promise is nothing.
LEMMA OwnArchive ==
  ASSUME OneWriter, PublisherInv, ArchiveInv, NEW m \in Machines, Step(m),
         pc[m] \in Publishing, ArchiveOK(m)',
         \/ UNCHANGED <<archive, published>>
         \/ /\ UNCHANGED published
            /\ \A v \in Versions : v < Len(published) => archive'[v] = archive[v]
  PROVE  ArchiveInv'
<1>1. ASSUME NEW n \in Machines, n # m PROVE ArchiveOK(n)'
  <2>1. pc'[n] = pc[n]
    BY <1>1, StepIsLocal DEF PublisherInv
  <2>2. pc'[n] \notin Publishing
    BY <1>1, <2>1, OneWrites
  <2> QED
    BY <2>2 DEF ArchiveOK, Publishing, Preparing
<1> QED
  BY <1>1, NoFailure DEF ArchiveInv, PublisherInv

\* The directory is written under the number of the version that is replaced,
\* which no later publication writes again.
LEMMA ArchiveStep ==
  ASSUME OneWriter, ~Caches, PublisherInv, ScenesInv, ArchiveInv,
         NEW m \in Machines, Step(m)
  PROVE  ArchiveInv'
<1> USE DEF PublisherInv, TypeInv, TypeOK
<1> DEFINE Later == {"inventory"} \cup Writing
<1>1. ArchiveOK(m) /\ PublicationOK(m) /\ (faults' = 0 => faults = 0)
  BY NoFailure DEF ArchiveInv
<1>2. CASE pc[m] \notin Publishing
  <2>1. UNCHANGED hosting
        /\ pc'[m] \notin {"archive", "archiveColl"} \cup Later
    BY <1>2, OnlyPublishWrites DEF Publishing, Preparing, Writing
  <2>2. ASSUME NEW n \in Machines, n # m PROVE ArchiveOK(n)'
    <3>1. pc'[n] = pc[n] /\ seen'[n] = seen[n] /\ ArchiveOK(n)
      BY <2>2, StepIsLocal DEF ArchiveInv
    <3> QED
      BY <1>1, <2>1, <3>1 DEF ArchiveOK, hosting
  <2> QED
    BY <1>1, <2>1, <2>2 DEF ArchiveInv, ArchiveOK, hosting
<1>3. CASE pc[m] \in Publishing
  <2>1. CASE pc'[m] = "off" /\ UNCHANGED hosting
    BY <1>3, <2>1, OwnArchive DEF ArchiveOK, hosting, Writing
  <2>2. CASE PublishFirst(m) \/ PublishNext(m)
    BY <1>3, <2>2, OwnArchive DEF PublishFirst, PublishNext, ArchiveOK, hosting,
       NoManifest, Writing
  <2>3. CASE ArchiveFails(m)
    <3>1. UNCHANGED hosting /\ pc'[m] = "inventory" /\ faults' # 0
      BY <2>3 DEF ArchiveFails, Fault
    <3> QED
      BY <1>3, <3>1, OwnArchive DEF ArchiveOK, hosting
  <2>4. CASE ArchiveManifest(m)
    <3>1. /\ pc[m] = "archive" /\ pc'[m] = "archiveColl"
          /\ archive' = [archive EXCEPT ![seen[m].version].manifest = seen[m]]
          /\ UNCHANGED <<published, seen>>
      BY <2>4 DEF ArchiveManifest, ArchiveDirectory, memory
    <3>2. seen[m].version # 0 /\ seen[m].version = Len(published)
          /\ seen[m].version \in Versions
      BY <1>1, <3>1, CurrentVersion, ConstantsAssumption
      DEF ArchiveOK, PublicationOK, Replacing, Versions
    <3>3. archive'[seen[m].version].manifest = seen[m]
          /\ \A v \in Versions : v < Len(published) => archive'[v] = archive[v]
      BY <3>1, <3>2 DEF Archived
    <3> QED
      BY <1>1, <1>3, <3>1, <3>3, OwnArchive DEF ArchiveOK, Writing
  <2>5. CASE ArchiveColl(m)
    <3>1. PICK s \in ServedColl :
            archive' = [archive EXCEPT ![seen[m].version].coll = s]
      BY <2>5 DEF ArchiveColl, ArchiveDirectory
    <3>2. pc[m] = "archiveColl" /\ pc'[m] = "inventory"
          /\ UNCHANGED <<published, seen>>
      BY <2>5 DEF ArchiveColl, memory
    <3>3. seen[m].version # 0 /\ seen[m].version = Len(published)
          /\ seen[m].version \in Versions /\ seen[m] = manifest
      BY <1>1, <3>2, CurrentVersion, ConstantsAssumption
      DEF ArchiveOK, PublicationOK, Replacing, Versions
    <3>4. archive'[seen[m].version].manifest = archive[seen[m].version].manifest
          /\ archive'[seen[m].version].coll = s
          /\ \A v \in Versions : v < Len(published) => archive'[v] = archive[v]
      BY <3>1, <3>3 DEF Archived
    <3>5. faults = 0 => s = seen[m].coll
      <4>1. s = onlineColl
        BY DEF ServedColl, Earlier
      <4>2. \A p \in Publishers : pc[p] \notin Sending
        BY <1>3, <3>2, OneWrites DEF Sending, Writing
      <4> QED
        BY <3>3, <4>1, <4>2 DEF ScenesInv
    <3> QED
      BY <1>1, <1>3, <3>2, <3>4, <3>5, OwnArchive DEF ArchiveOK, Writing
  <2>6. CASE \/ TakeInventory(m) \/ BeginAsset(m) \/ EndAsset(m) \/ BeginColl(m)
             \/ EndColl(m) \/ BeginStage(m) \/ EndStage(m) \/ RemoveTarget(m)
    <3>1. pc[m] \in Later /\ pc'[m] \in Writing
          /\ UNCHANGED <<archive, published, seen>>
      BY <2>6, StageWrites DEF TakeInventory, BeginAsset, EndAsset, BeginColl,
         EndColl, BeginStage, RemoveTarget, Writing, hosting, memory
    <3> QED
      BY <1>1, <1>3, <3>1, OwnArchive DEF ArchiveOK, Writing
  <2>7. CASE EditAsset(m)
    <3>1. UNCHANGED <<archive, published, seen, pc, faults>>
      BY <2>7 DEF EditAsset, hosting, memory
    <3> QED
      BY <1>1, <1>3, <3>1, OwnArchive DEF ArchiveOK
  <2>8. CASE MoveFTP(m) \/ MoveSFTP(m)
    <3>1. pc[m] \in {"move", "rename"} /\ Rename(m)
      BY <2>8 DEF MoveFTP, MoveSFTP
    <3>2. published' = Append(published, NewManifest(m))
      BY <3>1, RenamePublishes
    <3>3. Len(published') = Len(published) + 1
          /\ \A v \in 1..Len(published) : published'[v] = published[v]
      BY <3>2
    <3>4. seen[m] = Current /\ seen[m].version = Len(published)
      BY <1>1, <3>1, CurrentVersion DEF PublicationOK, Replacing, Writing
    <3>5. ASSUME faults' = 0, NEW v \in Versions, v < Len(published')
          PROVE  archive[v].manifest = published'[v]
                 /\ archive[v].coll = published'[v].coll
      <4>1. v \in 1..Len(published)
        BY <3>3, <3>5 DEF Versions
      <4>2. CASE v < Len(published)
        BY <1>1, <3>3, <3>5, <4>1, <4>2 DEF ArchiveInv
      <4>3. CASE v = Len(published)
        <5>1. published'[v] = seen[m] /\ seen[m].version = v /\ v # 0
          BY <3>3, <3>4, <4>1, <4>3 DEF Current
        <5> QED
          BY <1>1, <3>1, <3>5, <5>1 DEF ArchiveOK, Writing
      <4> QED
        BY <4>1, <4>2, <4>3
    <3>6. \A n \in Machines : pc'[n] \notin {"archive", "archiveColl"} \cup Later
      <4>1. pc'[m] = "commit"
        BY <3>1 DEF Rename
      <4>2. \A n \in Machines : n # m => pc'[n] \notin Publishing
        BY <1>3, OneWrites, StepIsLocal
      <4> QED
        BY <4>1, <4>2 DEF Publishing, Preparing, Writing
    <3>7. UNCHANGED archive
      BY <3>1 DEF Rename
    <3> QED
      BY <3>5, <3>6, <3>7 DEF ArchiveInv, ArchiveOK
  <2>9. \/ pc'[m] = "off" /\ UNCHANGED hosting
        \/ PublishFirst(m) \/ PublishNext(m) \/ ArchiveFails(m)
        \/ ArchiveManifest(m) \/ ArchiveColl(m) \/ TakeInventory(m)
        \/ BeginAsset(m) \/ EndAsset(m) \/ BeginColl(m) \/ EndColl(m)
        \/ BeginStage(m) \/ EndStage(m) \/ RemoveTarget(m) \/ EditAsset(m) \/ MoveFTP(m) \/ MoveSFTP(m)
    <3>1. ~(Launch(m) \/ CloseObs(m) \/ Receive(m) \/ ReceiveError(m))
      BY <1>3 DEF Launch, CloseObs, Receive, ReceiveError, ReadNothingToDo,
         ReadManifest, SkipAsset, Download, VerifyAsset, RejectAsset, ApplyScenes,
         RejectScenes, RecordVersion, RecordFails, ReceiveFails, Publishing,
         Preparing, Writing
    <3>2. PublishRefused(m) \/ AssetVanished(m) \/ MoveFails(m) \/ Commit(m)
          \/ Stop(m) => pc'[m] = "off" /\ UNCHANGED hosting
      BY DEF PublishRefused, AssetVanished, MoveFails, Commit, Stop, Finish
    <3> QED
      BY <3>1, <3>2 DEF Step, Session, Errors, Publish
  <2> QED
    BY <2>1, <2>2, <2>3, <2>4, <2>5, <2>6, <2>7, <2>8, <2>9
<1> QED
  BY <1>2, <1>3

-----------------------------------------------------------------------------
(* What follows as long as nothing has failed *)

\* The three invariants about the files online hold initially and, one after
\* the other, in every state.
LEMMA ServedInitially ==
  Init => ScenesInv /\ AssetsInv /\ VerifyInv /\ ArchiveInv
BY DEF Init, ScenesInv, AssetsInv, VerifyInv, ArchiveInv, NoManifest, Sending,
   Writing, UploadOK, VerifyOK, ArchiveOK

\* They do not depend on anything but the variables.
LEMMA ServedStutter ==
  ASSUME UNCHANGED vars
  PROVE  /\ ScenesInv => ScenesInv'
         /\ AssetsInv => AssetsInv'
         /\ VerifyInv => VerifyInv'
         /\ ArchiveInv => ArchiveInv'
BY DEF vars, hosting, disks, memory, ScenesInv, AssetsInv, VerifyInv, ArchiveInv,
   BeingWritten, UploadOK, VerifyOK, Intact, ArchiveOK, Listed

\* A step of the system is a step of one machine.
LEMMA SomeStep ==
  [Next]_vars => UNCHANGED vars \/ \E m \in Machines : Step(m)
BY DEF Next, Step

\* Whatever the users edit, the scenes online stay in step.
LEMMA ScenesInvariant ==
  ASSUME OneWriter
  PROVE  Spec /\ MovesAreWhole => []ScenesInv
<1>1. PublisherInv /\ ScenesInv /\ [Next]_vars => ScenesInv'
  BY SomeStep, ScenesStep, ServedStutter
<1>2. Spec /\ MovesAreWhole => []PublisherInv
  BY PublisherInvariant
<1> QED
  BY <1>1, <1>2, ServedInitially, PTL DEF Spec

\* The assets too, if nobody edits one while it is being published.
LEMMA AssetsInvariant ==
  ASSUME OneWriter, ~LiveEdits
  PROVE  Spec /\ MovesAreWhole => []AssetsInv
<1>1. PublisherInv /\ AssetsInv /\ [Next]_vars => AssetsInv'
  BY SomeStep, AssetsStep, ServedStutter
<1>2. Spec /\ MovesAreWhole => []PublisherInv
  BY PublisherInvariant
<1> QED
  BY <1>1, <1>2, ServedInitially, PTL DEF Spec

\* If no publication was interrupted and nobody saves an asset while it is being
\* published, a member that downloads between two publications gets the scenes
\* and every asset of the manifest, those that the differential skipped included.
THEOREM ServedAsPublished ==
  ASSUME OneWriter, ~LiveEdits
  PROVE  Spec /\ MovesAreWhole => []PublishedIsServed
<1>1. ScenesInv /\ AssetsInv => PublishedIsServed
  BY DEF ScenesInv, AssetsInv, PublishedIsServed, OnlineIsListed, BeingWritten,
     Sending, Writing
<1> QED
  BY <1>1, ScenesInvariant, AssetsInvariant, PTL

\* If no copy failed and no cache answered in place of the server, the directory
\* of every version that was replaced holds that version: the archive is named
\* after the manifest that was read and made before anything is overwritten.
THEOREM ArchivesAreFaithful ==
  ASSUME OneWriter, ~Caches
  PROVE  Spec /\ MovesAreWhole => []ArchiveIsFaithful
<1>1. PublisherInv /\ ArchiveInv => ArchiveIsFaithful
  <2> SUFFICES ASSUME PublisherInv, ArchiveInv, faults = 0,
                      NEW v \in Versions, v < manifest.version
               PROVE  archive[v].manifest = published[v]
                      /\ archive[v].coll = published[v].coll
    BY DEF ArchiveIsFaithful
  <2>1. manifest = Current
    BY DEF PublisherInv, OnlineIsLast, NoManifest, Versions
  <2>2. manifest.version = Len(published)
    BY <2>1, CurrentVersion DEF PublisherInv
  <2> QED
    BY <2>2 DEF ArchiveInv
<1>2. PublisherInv /\ ScenesInv /\ ArchiveInv /\ [Next]_vars => ArchiveInv'
  BY SomeStep, ArchiveStep, ServedStutter
<1>3. (Spec /\ MovesAreWhole => []PublisherInv)
      /\ (Spec /\ MovesAreWhole => []ScenesInv)
  BY PublisherInvariant, ScenesInvariant
<1> QED
  BY <1>1, <1>2, <1>3, ServedInitially, PTL DEF Spec

\* The error message of Receive is true: a file is refused for its digest only
\* when a publication was writing, or has put another manifest online since this
\* one was read, so that trying again is enough.
THEOREM RejectionsTransient ==
  ASSUME OneWriter, ~LiveEdits, ~Caches
  PROVE  Spec /\ MovesAreWhole => RejectionsAreTransient
<1>1. ASSUME PublisherInv, ScenesInv, VerifyInv, NEW m \in Machines, faults = 0,
             RejectAsset(m) \/ RejectScenes(m)
      PROVE  BeingWritten \/ manifest # seen[m]
  <2> SUFFICES ASSUME ~BeingWritten, manifest = seen[m] PROVE FALSE
    OBVIOUS
  <2>1. CASE RejectAsset(m)
    BY <1>1, <2>1 DEF RejectAsset, VerifyInv, VerifyOK
  <2>2. CASE RejectScenes(m)
    <3>1. PICK i \in DOMAIN published : published[i] = seen[m]
      BY <1>1, <2>2 DEF RejectScenes, PublisherInv, ReceptionInv, ReceptionOK
    <3>2. seen[m].coll \in Scenes /\ manifest.version # 0
      BY <1>1, <3>1 DEF PublisherInv, Numbered, TypeInv, TypeOK
    <3>3. onlineColl = seen[m].coll
      BY <1>1, <3>2 DEF ScenesInv, BeingWritten, Sending, Writing
    <3>4. ServedColl = {onlineColl}
      BY DEF ServedColl, Earlier
    <3> QED
      BY <2>2, <3>2, <3>3, <3>4 DEF RejectScenes, Expected
  <2> QED
    BY <1>1, <2>1, <2>2
<1>2. PublisherInv /\ ScenesInv /\ VerifyInv =>
        [\A m \in Machines :
           faults = 0 /\ (RejectAsset(m) \/ RejectScenes(m)) =>
             BeingWritten \/ manifest # seen[m]]_vars
  BY <1>1
<1>3. PublisherInv /\ AssetsInv /\ VerifyInv /\ [Next]_vars => VerifyInv'
  BY SomeStep, VerifyStep, ServedStutter
<1>4. /\ Spec /\ MovesAreWhole => []PublisherInv
      /\ Spec /\ MovesAreWhole => []ScenesInv
      /\ Spec /\ MovesAreWhole => []AssetsInv
  BY PublisherInvariant, ScenesInvariant, AssetsInvariant
<1> QED
  BY <1>2, <1>3, <1>4, ServedInitially, PTL DEF Spec, RejectionsAreTransient

=============================================================================
