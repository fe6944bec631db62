------------------------------- MODULE Regie -------------------------------
(***************************************************************************)
(* The whole system: every machine runs the agent again and again, and the *)
(* agents meet only through the files of the hosting.  A session is run()  *)
(* of cmd/stream-team: receive, OBS, publish.                              *)
(***************************************************************************)
EXTENDS Reception, Publication

Init ==
  /\ manifest = NoManifest /\ staged = NoManifest
  /\ onlineColl = Absent /\ onlineAsset = NoFiles
  /\ archive = [v \in Versions |-> [manifest |-> NoManifest, coll |-> Absent]]
  /\ published = <<>>
  /\ coll \in [Machines -> Maybe(Scenes)]
  /\ \A m \in Machines \ Publishers : coll[m] = Absent
  /\ asset = [m \in Machines |-> NoFiles]
  /\ disk = [m \in Machines |-> [version |-> 0, hash |-> Absent]]
  /\ cfg = disk
  /\ pc = [m \in Machines |-> "off"]
  /\ seen = [m \in Machines |-> NoManifest]
  /\ todo = [m \in Machines |-> {}]
  /\ cur = [m \in Machines |-> Absent]
  /\ plan = [m \in Machines |-> NoFiles]
  /\ faults = 0

-----------------------------------------------------------------------------

\* The agent loads config.json and receives or, with -publish, publishes.
Launch(m) ==
  /\ pc[m] = "off"
  /\ cfg' = [cfg EXCEPT ![m] = disk[m]]
  /\ \E p \in {"read"} \cup (IF m \in Publishers THEN {"compare"} ELSE {}) :
       pc' = [pc EXCEPT ![m] = p]
  /\ UNCHANGED <<hosting, disks, seen, todo, cur, plan, faults>>

\* Only a publisher, only with changes, and only if the dock or the
\* configuration asked for it.
PublishesAfter(m, s, wanted) == m \in Publishers /\ Changed(m, s) /\ wanted

\* OBS writes the collection it was left with and closes.
CloseObs(m) ==
  /\ pc[m] = "obs"
  /\ \E s \in Scenes \cup {coll[m]}, wanted \in BOOLEAN :
       /\ coll' = [coll EXCEPT ![m] = s]
       /\ pc' = [pc EXCEPT ![m] =
                   IF PublishesAfter(m, s, wanted) THEN "compare" ELSE "off"]
  /\ UNCHANGED <<hosting, asset, disk, memory, faults>>

\* The user saves or deletes a file of the assets folder.  Not the file that
\* is being sent, and not while the agent receives.
EditAsset(m) ==
  /\ pc[m] \in {"off", "obs"} \cup (IF LiveEdits THEN Publishing ELSE {})
  /\ \E a \in Assets, c \in Maybe(Contents \ {Torn}) :
       /\ a # cur[m]
       /\ asset' = [asset EXCEPT ![m][a] = c]
  /\ UNCHANGED <<hosting, coll, disk, pc, memory, faults>>

\* A request or a write fails and ends the publication, or the process is
\* killed, at any point of a session.
Stop(m) ==
  /\ pc[m] # "off" /\ Fault
  /\ Finish(m, "off")
  /\ UNCHANGED <<hosting, disks, cfg>>

Session(m) == Launch(m) \/ Receive(m) \/ CloseObs(m) \/ Publish(m)
Errors(m)  == ReceiveError(m) \/ ArchiveFails(m) \/ Stop(m)

Next == \E m \in Machines : Session(m) \/ EditAsset(m) \/ Errors(m)

Spec == Init /\ [][Next]_vars

\* The members keep using the agent: OBS is closed some day and every request
\* is answered or times out.  Nothing is asked of the publishers, who may stop
\* anywhere.
Fairness ==
  \A m \in Machines \ Publishers : WF_vars(Launch(m) \/ Receive(m) \/ CloseObs(m))
FairSpec == Spec /\ Fairness

-----------------------------------------------------------------------------
(* Reception *)

\* Machine m holds version v of the scenes and every asset it lists.
Holds(m, v) ==
  /\ coll[m] \in Variants[v.coll]
  /\ \A a \in Listed(v.assets) : asset[m][a] = v.assets[a]

\* When a reception reaches the record of the version it applied, what is on
\* the disk is one published version, scenes and assets, and the one recorded:
\* never the scenes of a version with the assets of another, nor a file that
\* was being uploaded, whatever was published or failed meanwhile.
AppliesWholeVersion ==
  \A m \in Machines : pc[m] = "record" =>
    \E i \in DOMAIN published :
      /\ published[i].version = Recorded(m).version
      /\ Holds(m, published[i])

\* What the shortcut of Receive relies on: a machine whose recorded version
\* is the one online recorded the digest of that version's scenes.
UpToDateMeansSame ==
  \A m \in Machines :
    disk[m].version = manifest.version /\ manifest.version # 0 =>
      disk[m].hash \in Variants[manifest.coll]

\* A publication is overwriting files that members download.
BeingWritten == \E p \in Publishers : pc[p] \in Writing

\* A reception that refuses a file for its digest is explained by a
\* publication under way or finished since it read the manifest, as its error
\* message says: trying again later is enough.  As long as no publication was
\* interrupted.
RejectionsAreTransient ==
  [][\A m \in Machines :
       faults = 0 /\ (RejectAsset(m) \/ RejectScenes(m)) =>
         BeingWritten \/ manifest # seen[m]]_vars

(* Publication *)

\* The files that the manifest lists are the files online.
OnlineIsListed ==
  /\ onlineColl = manifest.coll
  /\ \A a \in Listed(manifest.assets) : onlineAsset[a] = manifest.assets[a]

\* Between publications every member can download the version the manifest
\* announces, the assets that the differential did not send included, if no
\* publication was interrupted.
PublishedIsServed ==
  faults = 0 /\ manifest.version # 0 /\ ~BeingWritten => OnlineIsListed

\* A publication replaces the version its machine had recorded, and no
\* other: nobody's version disappears under scenes that never contained it.
PublishesOnItsBase ==
  [][\A m \in Publishers :
       pc[m] = "move" /\ manifest' # manifest =>
         manifest.version \in {0, cfg[m].version}]_vars

\* The directory versions/vN holds version N: its manifest and its scenes, as
\* soon as the publication that archives it goes on, if no copy failed.
ArchiveIsFaithful ==
  \A v \in Versions :
    faults = 0 /\ v < manifest.version =>
      /\ archive[v].manifest = published[v]
      /\ archive[v].coll = published[v].coll

\* The same, seen from a publication that has just renamed its manifest.
CompletedIsServed ==
  \A p \in Publishers : pc[p] = "commit" => OnlineIsListed

(* The team *)

\* The hosting and the config.json files implement the promise: versions are
\* numbered without gap or repetition, no machine ever goes back, and what a
\* machine records as version N are the scenes of version N.
Team == INSTANCE Promise WITH
  Nothing <- Absent,
  log     <- [i \in DOMAIN published |-> published[i].coll],
  applied <- disk
KeepsPromise == Team!Spec

\* If in the end the files online are those of the manifest, then every
\* member ends up with the scenes online.
MembersConverge ==
  <>[](manifest.version # 0 /\ OnlineIsListed) =>
    \A m \in Machines \ Publishers :
      <>[](/\ manifest.version # 0
           /\ disk[m].hash \in Variants[manifest.coll])

(* What the documents say and the code does not do *)

\* "Une regie sans manifeste n'est pas en panne : elle n'a simplement jamais
\* rien recu": a publication starts from nothing only where nothing was
\* published.
EmptyMeansNever ==
  [][\A m \in Publishers : PublishFirst(m) => published = <<>>]_vars

\* "Rien a publier : la regie est deja a jour": Publish says so only when the
\* inventory of the assets is the one online.
NothingToPublishIsTrue ==
  [][\A m \in Publishers :
       /\ pc[m] = "compare" /\ coll[m] # Absent /\ NothingToPublish(m)
       /\ manifest.version = cfg[m].version /\ pc'[m] = "off"
       /\ faults' = faults
       => Inventory(m) = manifest.assets]_vars

=============================================================================
