------------------------------ MODULE Reception ------------------------------
(***************************************************************************)
(* Engine.Receive, one action per exchange with the hosting or durable     *)
(* write.  Each agent runs it before it starts OBS; an error ends the      *)
(* reception, not the session (cmd/stream-team/main.go).                   *)
(***************************************************************************)
EXTENDS RegieState

\* Receive has returned, with or without an error: OBS is started, or the
\* agent stops (-check).
ReceiveReturns(m) == \E p \in {"obs", "off"} : Finish(m, p)

\* Mistake: any version it applied once is good enough.
AnyVersionIsUpToDate(m) == cfg[m].version # 0 /\ ~Changed(m, coll[m])

\* The shortcut of Receive: this machine applied that version and its
\* collection has not been touched since.
UpToDate(m) == manifest.version = cfg[m].version /\ ~Changed(m, coll[m])

\* No manifest, or half a one, is an error; a machine that is up to date is done.
ReadNothingToDo(m) ==
  /\ pc[m] = "read"
  /\ manifest.version = 0 \/ UpToDate(m)
  /\ ReceiveReturns(m)
  /\ UNCHANGED <<hosting, disks, cfg, faults>>

\* The manifest is kept for the whole reception; the current collection is
\* backed up before anything is written.
ReadManifest(m) ==
  /\ pc[m] = "read"
  /\ manifest.version # 0 /\ ~UpToDate(m)
  /\ seen' = [seen EXCEPT ![m] = manifest]
  /\ todo' = [todo EXCEPT ![m] = Listed(manifest.assets)]
  /\ pc'   = [pc EXCEPT ![m] = "assets"]
  /\ UNCHANGED <<hosting, disks, cfg, cur, plan, faults>>

\* An asset whose digest is the listed one is not downloaded again.
SkipAsset(m) ==
  /\ pc[m] = "assets"
  /\ \E a \in todo[m] :
       /\ asset[m][a] = seen[m].assets[a]
       /\ todo' = [todo EXCEPT ![m] = @ \ {a}]
  /\ UNCHANGED <<hosting, disks, pc, cfg, seen, cur, plan, faults>>

\* Download renames the complete answer over the local file.
Download(m) ==
  /\ pc[m] = "assets"
  /\ \E a \in todo[m], c \in Contents :
       /\ asset[m][a] # seen[m].assets[a]
       /\ c \in ServedAsset(a)
       /\ asset' = [asset EXCEPT ![m][a] = c]
       /\ cur'   = [cur EXCEPT ![m] = a]
  /\ pc' = [pc EXCEPT ![m] = "verify"]
  /\ UNCHANGED <<hosting, coll, disk, cfg, seen, todo, plan, faults>>

\* Mistake: a download that succeeded is not checked.
TrustsDownload(m, a) == asset[m][a] \in Contents

\* The digest test after a download.
Intact(m, a) == asset[m][a] = seen[m].assets[a]

VerifyAsset(m) ==
  /\ pc[m] = "verify"
  /\ Intact(m, cur[m])
  /\ todo' = [todo EXCEPT ![m] = @ \ {cur[m]}]
  /\ cur'  = [cur EXCEPT ![m] = Absent]
  /\ pc'   = [pc EXCEPT ![m] = "assets"]
  /\ UNCHANGED <<hosting, disks, cfg, seen, plan, faults>>

\* A file that does not match its digest is deleted and the reception ends.
RejectAsset(m) ==
  /\ pc[m] = "verify"
  /\ ~Intact(m, cur[m])
  /\ asset' = [asset EXCEPT ![m][cur[m]] = Absent]
  /\ ReceiveReturns(m)
  /\ UNCHANGED <<hosting, coll, disk, cfg, faults>>

\* Mistake: the collection received is not checked.
AnyScenes(m, s) == s \in Scenes

\* The digest test on the collection received.
Expected(m, s) == s = seen[m].coll

\* The collection is expanded for this machine, its devices are injected and
\* the file replaces the previous one by a rename.
ApplyScenes(m) ==
  /\ pc[m] = "assets" /\ todo[m] = {}
  /\ \E s \in ServedColl \cap Scenes :
       /\ Expected(m, s)
       /\ \E l \in Variants[s] : coll' = [coll EXCEPT ![m] = l]
  /\ pc' = [pc EXCEPT ![m] = "record"]
  /\ UNCHANGED <<hosting, asset, disk, memory, faults>>

\* The collection served is missing or is not the one the manifest lists.
RejectScenes(m) ==
  /\ pc[m] = "assets" /\ todo[m] = {}
  /\ \E s \in ServedColl : s \notin Scenes \/ ~Expected(m, s)
  /\ ReceiveReturns(m)
  /\ UNCHANGED <<hosting, disks, cfg, faults>>

\* Mistake: the version is read again at the end.
RecordsLatest(m) == [version |-> manifest.version, hash |-> coll[m]]

\* The configuration Receive records: the version it applied and the digest
\* of the collection as it now is on this machine.
Recorded(m) == [version |-> seen[m].version, hash |-> coll[m]]

RecordVersion(m) ==
  /\ pc[m] = "record"
  /\ cfg'  = [cfg EXCEPT ![m] = Recorded(m)]
  /\ disk' = [disk EXCEPT ![m] = Recorded(m)]
  /\ ReceiveReturns(m)
  /\ UNCHANGED <<hosting, coll, asset, faults>>

\* config.json could not be written: memory alone has the new values.
RecordFails(m) ==
  /\ pc[m] = "record" /\ Fault
  /\ cfg' = [cfg EXCEPT ![m] = Recorded(m)]
  /\ ReceiveReturns(m)
  /\ UNCHANGED <<hosting, disks>>

\* Any other error: a request, the backup, or the canvas after the collection
\* was written.
ReceiveFails(m) ==
  /\ pc[m] \in {"read", "assets", "record"} /\ Fault
  /\ ReceiveReturns(m)
  /\ UNCHANGED <<hosting, disks, cfg>>

Receive(m) ==
  \/ ReadNothingToDo(m) \/ ReadManifest(m)
  \/ SkipAsset(m) \/ Download(m) \/ VerifyAsset(m) \/ RejectAsset(m)
  \/ ApplyScenes(m) \/ RejectScenes(m)
  \/ RecordVersion(m)

ReceiveError(m) == RecordFails(m) \/ ReceiveFails(m)

=============================================================================
