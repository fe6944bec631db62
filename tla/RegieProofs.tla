---------------------------- MODULE RegieProofs ----------------------------
(***************************************************************************)
(* Proofs about Regie, for any number of machines, publishers, scenes and  *)
(* assets, either writer, any number of failures, with or without caches   *)
(* and edits.                                                              *)
(***************************************************************************)
EXTENDS Regie, TLAPS

-----------------------------------------------------------------------------
(* Typing *)

\* An agent that verifies or sends a file knows which one.
CurOK ==
  \A m \in Machines : pc[m] \in {"verify", "uploading"} => cur[m] \in Assets

TypeInv == TypeOK /\ CurOK

\* The empty values have the types of the files they stand for.
LEMMA EmptyTypes ==
  NoFiles \in Files /\ NoManifest \in Manifest
BY DEF NoFiles, Files, Maybe, NoManifest, Manifest

\* A manifest that has a version is whole.
LEMMA WholeManifest ==
  ASSUME TypeInv
  PROVE  /\ manifest.version # 0 => manifest \in Manifest
         /\ staged.version # 0 => staged \in Manifest
BY DEF TypeInv, TypeOK, TornManifest

\* What an operation that is over leaves in memory has the right type.
LEMMA FinishType ==
  ASSUME TypeInv, NEW m \in Machines, NEW p \in {"off", "obs"}, Finish(m, p)
  PROVE  /\ pc' \in [Machines -> Steps]
         /\ seen' \in [Machines -> Manifest]
         /\ todo' \in [Machines -> SUBSET Assets]
         /\ cur' \in [Machines -> Maybe(Assets)]
         /\ plan' \in [Machines -> Files]
         /\ CurOK'
BY EmptyTypes DEF TypeInv, TypeOK, CurOK, Finish, Steps, Maybe

\* Receive keeps the types.
LEMMA ReceiveType ==
  ASSUME TypeInv, NEW m \in Machines, Receive(m) \/ ReceiveError(m)
  PROVE  TypeInv'
<1> USE ConstantsAssumption DEF TypeInv
<1>1. CASE ReadNothingToDo(m)
  BY <1>1, FinishType DEF ReadNothingToDo, ReceiveReturns, TypeOK, hosting, disks
<1>2. CASE ReadManifest(m)
  BY <1>2, WholeManifest
  DEF ReadManifest, TypeOK, CurOK, hosting, disks, Listed, Steps, Receiving
<1>3. CASE SkipAsset(m)
  BY <1>3 DEF SkipAsset, TypeOK, CurOK, hosting, disks
<1>4. CASE Download(m)
  BY <1>4 DEF Download, TypeOK, CurOK, hosting, Files, Maybe, Steps, Receiving
<1>5. CASE VerifyAsset(m)
  BY <1>5 DEF VerifyAsset, TypeOK, CurOK, hosting, disks, Maybe, Steps, Receiving
<1>6. CASE RejectAsset(m)
  BY <1>6, FinishType DEF RejectAsset, ReceiveReturns, TypeOK, CurOK, hosting,
     Files, Maybe
<1>7. CASE ApplyScenes(m)
  BY <1>7 DEF ApplyScenes, TypeOK, CurOK, hosting, memory, Maybe, Steps, Receiving
<1>8. CASE RejectScenes(m)
  BY <1>8, FinishType DEF RejectScenes, ReceiveReturns, TypeOK, hosting, disks
<1>9. CASE RecordVersion(m)
  <2>1. Recorded(m) \in Applied
    BY DEF Recorded, Applied, TypeOK, Manifest
  <2> QED
    BY <1>9, <2>1, FinishType DEF RecordVersion, ReceiveReturns, TypeOK, hosting
<1>10. CASE RecordFails(m)
  <2>1. Recorded(m) \in Applied
    BY DEF Recorded, Applied, TypeOK, Manifest
  <2> QED
    BY <1>10, <2>1, FinishType
    DEF RecordFails, ReceiveReturns, TypeOK, hosting, disks, Fault
<1>11. CASE ReceiveFails(m)
  BY <1>11, FinishType DEF ReceiveFails, ReceiveReturns, TypeOK, hosting, disks, Fault
<1> QED
  BY <1>1, <1>2, <1>3, <1>4, <1>5, <1>6, <1>7, <1>8, <1>9, <1>10, <1>11
  DEF Receive, ReceiveError

\* Publish keeps the types.
LEMMA PublishType ==
  ASSUME TypeInv, NEW m \in Machines, Publish(m) \/ ArchiveFails(m)
  PROVE  TypeInv'
<1> USE ConstantsAssumption, EmptyTypes DEF TypeInv
<1>1. CASE PublishRefused(m)
  BY <1>1, FinishType DEF PublishRefused, TypeOK, hosting, disks
<1>2. CASE PublishFirst(m)
  BY <1>2 DEF PublishFirst, TypeOK, CurOK, hosting, disks, Steps, Publishing,
     Preparing
<1>3. CASE PublishNext(m)
  BY <1>3, WholeManifest
  DEF PublishNext, TypeOK, CurOK, hosting, disks, Steps, Publishing, Preparing
<1>4. CASE ArchiveManifest(m)
  BY <1>4 DEF ArchiveManifest, TypeOK, CurOK, disks, memory, Archived, Steps,
     Publishing, Preparing
<1>5. CASE ArchiveColl(m)
  <2>1. \A i \in DOMAIN published : published[i] \in Manifest
    BY DEF TypeOK
  <2>2. Earlier \subseteq Manifest
    BY <2>1 DEF Earlier
  <2>3. \A v \in Earlier : v.coll \in Maybe(Scenes)
    BY <2>2 DEF Manifest
  <2>4. PICK s \in ServedColl :
          archive' = [archive EXCEPT ![ArchiveDirectory(m)].coll = s]
    BY <1>5 DEF ArchiveColl
  <2>5. s \in Maybe(Scenes \cup {Torn})
    BY <2>3, <2>4 DEF ServedColl, TypeOK, Maybe
  <2>6. archive' \in [Versions -> Archived]
    <3>1. \A v \in Versions : archive'[v] \in Archived
      BY <2>4, <2>5 DEF TypeOK, Archived
    <3> QED
      BY <2>4, <3>1 DEF TypeOK
  <2> QED
    BY <1>5, <2>6 DEF ArchiveColl, TypeOK, CurOK, disks, memory, Steps,
       Publishing, Preparing
<1>6. CASE ArchiveFails(m)
  BY <1>6 DEF ArchiveFails, TypeOK, CurOK, hosting, disks, memory, Steps,
     Publishing, Preparing, Fault
<1>7. CASE TakeInventory(m)
  <2>1. Inventory(m) \in Files
    BY DEF Inventory, TypeOK, Files, Maybe
  <2>2. ToSend(m, Inventory(m)) \subseteq Assets
    BY DEF ToSend, Listed
  <2> QED
    BY <1>7, <2>1, <2>2 DEF TakeInventory, TypeOK, CurOK, hosting, disks, Steps,
       Publishing, Writing
<1>8. CASE BeginAsset(m)
  BY <1>8 DEF BeginAsset, TypeOK, CurOK, disks, Files, Maybe, Steps, Publishing,
     Writing
<1>9. CASE EndAsset(m)
  BY <1>9 DEF EndAsset, TypeOK, CurOK, disks, Files, Maybe, Steps, Publishing,
     Writing
<1>10. CASE AssetVanished(m)
  BY <1>10, FinishType DEF AssetVanished, TypeOK, hosting, disks
<1>11. CASE BeginColl(m)
  BY <1>11 DEF BeginColl, TypeOK, CurOK, disks, memory, Maybe, Steps, Publishing,
     Writing
<1>12. CASE EndColl(m)
  BY <1>12 DEF EndColl, TypeOK, CurOK, disks, memory, Maybe, Steps, Publishing,
     Writing
<1>13. CASE BeginStage(m)
  BY <1>13 DEF BeginStage, TypeOK, CurOK, disks, memory, Steps, Publishing, Writing
<1>14. CASE EndStage(m)
  <2>1. NewManifest(m) \in Manifest
    BY DEF NewManifest, TypeOK, Manifest
  <2>2. /\ {manifest', staged'} \subseteq Manifest \cup {TornManifest}
        /\ published' \in Seq(Manifest)
    <3>1. CASE UNCHANGED <<manifest, published>>
      BY <1>14, <2>1, <3>1 DEF EndStage, TypeOK
    <3>2. CASE GoesOnline(NewManifest(m)) /\ UNCHANGED staged
      BY <2>1, <3>2 DEF GoesOnline, TypeOK
    <3> QED
      BY <1>14, <3>1, <3>2 DEF EndStage
  <2> QED
    BY <1>14, <2>2 DEF EndStage, TypeOK, CurOK, disks, memory, Steps, Publishing,
       Writing
<1>15. CASE Rename(m)
  <2>1. /\ {manifest', staged'} \subseteq Manifest \cup {TornManifest}
        /\ published' \in Seq(Manifest)
    BY <1>15, WholeManifest DEF Rename, GoesOnline, TypeOK
  <2> QED
    BY <1>15, <2>1 DEF Rename, TypeOK, CurOK, disks, memory, Steps, Publishing
<1>16. CASE RemoveTarget(m)
  BY <1>16 DEF RemoveTarget, TypeOK, CurOK, disks, memory, Steps, Publishing,
     Writing
<1>17. CASE MoveFails(m)
  BY <1>17, FinishType DEF MoveFails, TypeOK, hosting, disks
<1>18. CASE Commit(m)
  <2>1. Committed(m) \in Applied
    BY DEF Committed, Applied, TypeOK, Manifest
  <2> QED
    BY <1>18, <2>1, FinishType DEF Commit, TypeOK, hosting
<1> QED
  BY <1>1, <1>2, <1>3, <1>4, <1>5, <1>6, <1>7, <1>8, <1>9, <1>10, <1>11, <1>12,
     <1>13, <1>14, <1>15, <1>16, <1>17, <1>18 DEF Publish, MoveFTP, MoveSFTP

\* The initial states have the right types and every step keeps them.
LEMMA TypeInductive ==
  (Init => TypeInv) /\ (TypeInv /\ [Next]_vars => TypeInv')
<1> USE ConstantsAssumption, EmptyTypes DEF TypeInv
<1>1. Init => TypeInv
  BY DEF Init, TypeOK, CurOK, Maybe, Archived, Applied, Steps
<1>2. ASSUME TypeInv, NEW m \in Machines, Session(m) \/ EditAsset(m) \/ Errors(m)
      PROVE  TypeInv'
  <2>1. CASE Launch(m)
    BY <1>2, <2>1 DEF Launch, TypeOK, CurOK, hosting, disks, Steps, Receiving,
       Publishing, Preparing
  <2>2. CASE Receive(m) \/ ReceiveError(m)
    BY <1>2, <2>2, ReceiveType
  <2>3. CASE CloseObs(m)
    BY <1>2, <2>3 DEF CloseObs, TypeOK, CurOK, hosting, memory, Maybe, Steps,
       Publishing, Preparing
  <2>4. CASE Publish(m) \/ ArchiveFails(m)
    BY <1>2, <2>4, PublishType
  <2>5. CASE EditAsset(m)
    BY <1>2, <2>5 DEF EditAsset, TypeOK, CurOK, hosting, memory, Files, Maybe
  <2>6. CASE Stop(m)
    BY <1>2, <2>6, FinishType DEF Stop, TypeOK, hosting, disks, Fault
  <2> QED
    BY <1>2, <2>1, <2>2, <2>3, <2>4, <2>5, <2>6 DEF Session, Errors
<1>3. ASSUME TypeInv, UNCHANGED vars PROVE TypeInv'
  BY <1>3 DEF TypeOK, CurOK, vars, hosting, disks, memory
<1> QED
  BY <1>1, <1>2, <1>3 DEF Next

\* Every variable keeps its type (TypeOK), and an agent that verifies or sends
\* a file names one: Download and BeginAsset set cur, Finish clears it.
THEOREM TypeCorrect == Spec => []TypeOK
<1>1. Spec => []TypeInv
  BY TypeInductive, PTL DEF Spec
<1> QED
  BY <1>1, PTL DEF TypeInv

-----------------------------------------------------------------------------
(* A reception applies one version *)

\* A manifest that is online was published.
OnlineWasPublished ==
  manifest.version # 0 => \E i \in DOMAIN published : published[i] = manifest

\* How far the reception of m is: the manifest it read was published, the
\* assets it is done with are those of that manifest and, once the scenes are
\* written, no asset is left and the scenes are those of that manifest too.
ReceptionOK(m) ==
  /\ pc[m] \in {"assets", "verify", "record"} =>
       /\ \E i \in DOMAIN published : published[i] = seen[m]
       /\ \A a \in Listed(seen[m].assets) \ todo[m] :
            asset[m][a] = seen[m].assets[a]
  /\ pc[m] = "verify" => cur[m] \in todo[m]
  /\ pc[m] = "record" => todo[m] = {} /\ coll[m] \in Variants[seen[m].coll]

ReceptionInv == OnlineWasPublished /\ \A m \in Machines : ReceptionOK(m)

\* A machine that is not between the reading of the manifest and the record
\* has nothing to show.
LEMMA IdleReception ==
  ASSUME NEW m, pc'[m] \notin {"assets", "verify", "record"}
  PROVE  ReceptionOK(m)'
BY DEF ReceptionOK

\* A step of another machine leaves the reception of n alone: nothing of n
\* changes, and what was published stays published.
LEMMA OtherReception ==
  ASSUME NEW n \in Machines, ReceptionOK(n),
         pc'[n] = pc[n], seen'[n] = seen[n], todo'[n] = todo[n],
         cur'[n] = cur[n], asset'[n] = asset[n], coll'[n] = coll[n],
         \A i \in DOMAIN published :
           i \in DOMAIN published' /\ published'[i] = published[i]
  PROVE  ReceptionOK(n)'
<1>1. pc[n] \in {"assets", "verify", "record"} =>
        \E i \in DOMAIN published' : published'[i] = seen'[n]
  BY DEF ReceptionOK
<1> QED
  BY <1>1 DEF ReceptionOK, Listed

Step(m) == Session(m) \/ EditAsset(m) \/ Errors(m)

\* A manifest that goes online is added to what was published, if it is whole.
LEMMA GoesOnlineGrows ==
  ASSUME TypeInv, NEW next \in Manifest \cup {TornManifest}, GoesOnline(next)
  PROVE  /\ OnlineWasPublished'
         /\ \A i \in DOMAIN published :
              i \in DOMAIN published' /\ published'[i] = published[i]
<1> USE DEF TypeInv, TypeOK, GoesOnline, OnlineWasPublished
<1>1. CASE next.version = 0
  BY <1>1
<1>2. CASE next.version # 0
  <2>1. published' = Append(published, next)
    BY <1>2
  <2>2. Len(published) + 1 \in DOMAIN published'
        /\ published'[Len(published) + 1] = next
    BY <2>1
  <2>3. \A i \in DOMAIN published :
          i \in DOMAIN published' /\ published'[i] = published[i]
    BY <2>1
  <2> QED
    BY <2>2, <2>3
<1> QED
  BY <1>1, <1>2

\* The manifest online is left alone or removed, or another one goes online.
LEMMA OnlineChanges ==
  ASSUME TypeInv, NEW m \in Machines, Step(m)
  PROVE  \/ UNCHANGED <<manifest, published>>
         \/ manifest' = NoManifest /\ UNCHANGED published
         \/ \E next \in Manifest \cup {TornManifest} : GoesOnline(next)
<1>1. NewManifest(m) \in Manifest
  BY DEF NewManifest, TypeInv, TypeOK, Manifest
<1>2. CASE EndStage(m)
  BY <1>1, <1>2 DEF EndStage
<1>3. CASE Rename(m)
  BY <1>3 DEF Rename, TypeInv, TypeOK
<1>4. CASE RemoveTarget(m)
  BY <1>4 DEF RemoveTarget
<1>5. \/ UNCHANGED <<manifest, published>>
      \/ EndStage(m) \/ Rename(m) \/ RemoveTarget(m)
  BY DEF Step, Session, Errors, Launch, Receive, ReceiveError, ReadNothingToDo,
     ReadManifest, SkipAsset, Download, VerifyAsset, RejectAsset, ApplyScenes,
     RejectScenes, RecordVersion, RecordFails, ReceiveFails, CloseObs, EditAsset,
     Stop, Publish, PublishRefused, PublishFirst, PublishNext, ArchiveManifest,
     ArchiveColl, ArchiveFails, TakeInventory, BeginAsset, EndAsset,
     AssetVanished, BeginColl, EndColl, BeginStage, MoveFTP, MoveSFTP, MoveFails,
     Commit, hosting
<1> QED
  BY <1>2, <1>3, <1>4, <1>5

\* What was published stays published.
LEMMA PublishedGrows ==
  ASSUME TypeInv, [Next]_vars
  PROVE  \A i \in DOMAIN published :
           i \in DOMAIN published' /\ published'[i] = published[i]
<1>1. CASE UNCHANGED vars
  BY <1>1 DEF vars, hosting
<1>2. ASSUME NEW m \in Machines, Step(m)
      PROVE  \A i \in DOMAIN published :
               i \in DOMAIN published' /\ published'[i] = published[i]
  BY <1>2, OnlineChanges, GoesOnlineGrows
<1> QED
  BY <1>1, <1>2 DEF Next, Step

\* A step of m touches no other machine: what n has on its disk and in its
\* memory does not change.
LEMMA StepIsLocal ==
  ASSUME TypeInv, NEW m \in Machines, Step(m), NEW n \in Machines, n # m
  PROVE  /\ pc'[n] = pc[n] /\ seen'[n] = seen[n] /\ todo'[n] = todo[n]
         /\ cur'[n] = cur[n] /\ asset'[n] = asset[n] /\ coll'[n] = coll[n]
         /\ cfg'[n] = cfg[n] /\ disk'[n] = disk[n] /\ plan'[n] = plan[n]
<1> USE DEF TypeInv, TypeOK, hosting, disks, memory, Finish, ReceiveReturns
<1>1. CASE Receive(m) \/ ReceiveError(m)
  BY <1>1 DEF Receive, ReceiveError, ReadNothingToDo, ReadManifest, SkipAsset,
     Download, VerifyAsset, RejectAsset, ApplyScenes, RejectScenes, RecordVersion,
     RecordFails, ReceiveFails
<1>2. CASE Publish(m) \/ ArchiveFails(m)
  BY <1>2 DEF Publish, PublishRefused, PublishFirst, PublishNext,
     ArchiveManifest, ArchiveColl, ArchiveFails, TakeInventory, BeginAsset,
     EndAsset, AssetVanished, BeginColl, EndColl, BeginStage, EndStage, MoveFTP,
     RemoveTarget, MoveSFTP, MoveFails, Rename, Commit
<1>3. CASE Launch(m) \/ CloseObs(m) \/ EditAsset(m) \/ Stop(m)
  BY <1>3 DEF Launch, CloseObs, EditAsset, Stop
<1> QED
  BY <1>1, <1>2, <1>3 DEF Step, Session, Errors

\* A manifest that gets online whole is published.
LEMMA OnlineStep ==
  ASSUME TypeInv, ReceptionInv, NEW m \in Machines, Step(m)
  PROVE  OnlineWasPublished'
<1>1. CASE UNCHANGED <<manifest, published>>
  BY <1>1 DEF ReceptionInv, OnlineWasPublished
<1>2. CASE manifest' = NoManifest
  BY <1>2 DEF NoManifest, OnlineWasPublished
<1>3. CASE \E next \in Manifest \cup {TornManifest} : GoesOnline(next)
  BY <1>3, GoesOnlineGrows
<1> QED
  BY <1>1, <1>2, <1>3, OnlineChanges

\* The step of m itself, action by action.
LEMMA OwnReception ==
  ASSUME TypeInv, ReceptionInv, NEW m \in Machines, Step(m)
  PROVE  ReceptionOK(m)'
<1> DEFINE Between == {"assets", "verify", "record"}
<1> USE DEF TypeInv, TypeOK
<1>1. ReceptionOK(m)
  BY DEF ReceptionInv
<1>2. CASE ReadManifest(m)
  BY <1>2 DEF ReadManifest, ReceptionInv, OnlineWasPublished, ReceptionOK, hosting
<1>3. CASE SkipAsset(m)
  BY <1>1, <1>3 DEF SkipAsset, ReceptionOK, hosting, disks
<1>4. CASE Download(m)
  <2>1. PICK a \in todo[m], c \in Contents :
           asset' = [asset EXCEPT ![m][a] = c] /\ cur' = [cur EXCEPT ![m] = a]
    BY <1>4 DEF Download
  <2>2. \A b \in Assets : b # a => asset'[m][b] = asset[m][b]
    BY <2>1 DEF Files
  <2> QED
    BY <1>1, <1>4, <2>1, <2>2 DEF Download, ReceptionOK, hosting, Listed
<1>5. CASE VerifyAsset(m)
  BY <1>1, <1>5 DEF VerifyAsset, Intact, ReceptionOK, hosting, disks
<1>6. CASE ApplyScenes(m)
  BY <1>1, <1>6 DEF ApplyScenes, Expected, ReceptionOK, hosting, memory
<1>7. CASE pc'[m] \notin Between
  BY <1>7, IdleReception
<1>8. \/ ReadManifest(m) \/ SkipAsset(m) \/ Download(m) \/ VerifyAsset(m)
      \/ ApplyScenes(m) \/ pc'[m] \notin Between
  <2> USE DEF Finish, ReceiveReturns, hosting, disks, memory
  <2>1. CASE Receive(m) \/ ReceiveError(m)
    BY <2>1 DEF Receive, ReceiveError, ReadNothingToDo, RejectAsset,
       RejectScenes, RecordVersion, RecordFails, ReceiveFails
  <2>2. CASE Publish(m) \/ ArchiveFails(m)
    BY <2>2 DEF Publish, PublishRefused, PublishFirst, PublishNext,
       ArchiveManifest, ArchiveColl, ArchiveFails, TakeInventory, BeginAsset,
       EndAsset, AssetVanished, BeginColl, EndColl, BeginStage, EndStage, MoveFTP,
       RemoveTarget, MoveSFTP, MoveFails, Rename, Commit
  <2>3. CASE Launch(m) \/ CloseObs(m) \/ EditAsset(m) \/ Stop(m)
    BY <2>3 DEF Launch, CloseObs, EditAsset, Stop, Publishing, Preparing, Writing
  <2> QED
    BY <2>1, <2>2, <2>3 DEF Step, Session, Errors
<1> QED
  BY <1>2, <1>3, <1>4, <1>5, <1>6, <1>7, <1>8

LEMMA ReceptionInductive ==
  (Init => ReceptionInv) /\ (TypeInv /\ ReceptionInv /\ [Next]_vars => ReceptionInv')
<1>1. Init => ReceptionInv
  BY DEF Init, ReceptionInv, OnlineWasPublished, NoManifest, ReceptionOK
<1>2. ASSUME TypeInv, ReceptionInv, NEW m \in Machines, Step(m)
      PROVE  ReceptionInv'
  <2>1. [Next]_vars
    BY <1>2 DEF Step, Next
  <2>2. ASSUME NEW n \in Machines, n # m PROVE ReceptionOK(n)'
    BY <1>2, <2>1, <2>2, PublishedGrows, StepIsLocal, OtherReception
    DEF ReceptionInv
  <2> QED
    BY <1>2, <2>2, OnlineStep, OwnReception DEF ReceptionInv
<1>3. ASSUME ReceptionInv, UNCHANGED vars PROVE ReceptionInv'
  BY <1>3 DEF ReceptionInv, OnlineWasPublished, ReceptionOK, Listed, vars,
     hosting, disks, memory
<1> QED
  BY <1>1, <1>2, <1>3 DEF Next, Step

\* Whatever is published, overwritten, interrupted or served from a cache while
\* a machine receives, what it has on its disk when it records a version is
\* that version, scenes and assets: the digests of Receive, checked against the
\* one manifest it read, leave no other way to the record.
THEOREM WholeVersion == Spec => []AppliesWholeVersion
<1>1. TypeInv /\ ReceptionInv => AppliesWholeVersion
  <2> SUFFICES ASSUME TypeInv, ReceptionInv, NEW m \in Machines, pc[m] = "record"
               PROVE  \E i \in DOMAIN published :
                        /\ published[i].version = Recorded(m).version
                        /\ Holds(m, published[i])
    BY DEF AppliesWholeVersion
  <2>1. PICK i \in DOMAIN published : published[i] = seen[m]
    BY DEF ReceptionInv, ReceptionOK
  <2> QED
    BY <2>1 DEF ReceptionInv, ReceptionOK, Holds, Recorded
<1>2. Spec => [](TypeInv /\ ReceptionInv)
  BY TypeInductive, ReceptionInductive, PTL DEF Spec
<1> QED
  BY <1>1, <1>2, PTL

=============================================================================
