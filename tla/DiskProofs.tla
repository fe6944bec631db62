----------------------------- MODULE DiskProofs -----------------------------
(***************************************************************************)
(* Proofs about Disk for every clock, every bound on the backups and every *)
(* naming of the files.                                                    *)
(***************************************************************************)
EXTENDS Disk, FiniteSetTheorems, FunctionTheorems, TLAPS

Kept  == Collection \cup {Torn}
Entry == [at : Times, file : Files, kept : Kept]

\* The backups of the folder are backups that were written, under the name
\* they have.
BackupsInv ==
  /\ log \in Seq(Entry)
  /\ \A b \in backups : \E i \in DOMAIN log : log[i] = b
  /\ NewestAreKept

-----------------------------------------------------------------------------
(* Backup and pruneBackups by themselves *)

\* The order of the names has no cycle.
LEMMA LaterIsStrict ==
  ASSUME NEW b \in Entry, NEW c \in Entry, Later(b, c)
  PROVE  ~Later(c, b) /\ b # c
<1>1. /\ b.at \in Nat /\ c.at \in Nat
      /\ b.file \in Nat /\ c.file \in Nat
  BY BackupsAssumption DEF Entry
<1> QED  BY <1>1 DEF Later

\* After a backup the folder holds it, under the last entry of the log.
LEMMA WriteSaves ==
  ASSUME BackupsInv, NEW f \in Files, NEW c \in Kept, Write(f, c)
  PROVE  /\ BackupsInv'
         /\ Len(log') = Len(log) + 1
         /\ log'[Len(log')] \in backups'
         /\ log'[Len(log')].kept = c
<1> PICK now \in Times :
      LET b == [at |-> now, file |-> f, kept |-> c]
      IN /\ backups' = {d \in backups : d.at # now \/ d.file # f} \cup {b}
         /\ log' = Append(log, b)
  BY DEF Write
<1> DEFINE b == [at |-> now, file |-> f, kept |-> c]
<1>1. backups' = {d \in backups : d.at # now \/ d.file # f} \cup {b}
  OBVIOUS
<1>2. log' = Append(log, b)
  OBVIOUS
<1>3. b \in Entry /\ b.at = now /\ b.file = f /\ b.kept = c
  BY DEF Entry
<1>4. log \in Seq(Entry)
  BY DEF BackupsInv
<1> HIDE DEF b
<1>5. /\ log' \in Seq(Entry) /\ Len(log') = Len(log) + 1 /\ Len(log) \in Nat
      /\ DOMAIN log = 1..Len(log) /\ DOMAIN log' = 1..(Len(log) + 1)
      /\ \A i \in DOMAIN log : log'[i] = log[i] /\ log[i] \in Entry
      /\ log'[Len(log) + 1] = b
  BY <1>2, <1>3, <1>4
<1>6. \A d \in backups' : \E i \in DOMAIN log' : log'[i] = d
  <2> SUFFICES ASSUME NEW d \in backups' PROVE \E i \in DOMAIN log' : log'[i] = d
    OBVIOUS
  <2>1. CASE d = b
    BY <2>1, <1>5
  <2>2. CASE d \in backups
    <3>1. PICK i \in DOMAIN log : log[i] = d
      BY <2>2 DEF BackupsInv
    <3> QED  BY <3>1, <1>5
  <2> QED  BY <1>1, <2>1, <2>2
<1>7. NewestAreKept'
  <2> SUFFICES ASSUME InOrder', NEW i \in DOMAIN log', i > Len(log') - Keep
               PROVE  log'[i] \in backups'
    BY DEF NewestAreKept
  <2>1. CASE i = Len(log) + 1
    BY <2>1, <1>5, <1>1
  <2>2. CASE i \in DOMAIN log
    <3>1. InOrder
      BY <1>5 DEF InOrder
    <3>2. i > Len(log) - Keep
      BY <1>5, BackupsAssumption
    <3>3. log[i] \in backups
      BY <3>1, <3>2, <2>2 DEF BackupsInv, NewestAreKept
    <3>4. i < Len(log) + 1 /\ Len(log) + 1 \in DOMAIN log'
      BY <2>2, <1>5
    <3>5. Later(b, log[i])
      BY <3>4, <2>2, <1>5 DEF InOrder
    <3>6. /\ log[i].at \in Nat /\ log[i].file \in Nat
          /\ now \in Nat /\ f \in Nat
      BY <2>2, <1>5, BackupsAssumption DEF Entry
    <3>7. log[i].at # now \/ log[i].file # f
      BY <3>5, <3>6, <1>3 DEF Later
    <3> QED  BY <3>3, <3>7, <1>1, <1>5, <2>2
  <2> QED  BY <2>1, <2>2, <1>5
<1>8. log'[Len(log')] = b /\ b \in backups'
  BY <1>5, <1>1
<1> QED  BY <1>3, <1>5, <1>6, <1>7, <1>8 DEF BackupsInv

\* A backup with fewer than Keep entries of the log after it stays.
LEMMA PruneSpares ==
  ASSUME BackupsInv, Prune, NEW i \in DOMAIN log, log[i] \in backups,
         NEW k \in DOMAIN log \cup {0}, Len(log) - k < Keep,
         \A j \in DOMAIN log : j <= k => ~Later(log[j], log[i])
  PROVE  log[i] \in backups'
<1> DEFINE L == {c \in backups : Later(c, log[i])}
           D == (k + 1)..Len(log)
           T == {j \in D : log[j] \in L}
           g == [j \in T |-> log[j]]
<1>1. /\ Len(log) \in Nat /\ DOMAIN log = 1..Len(log) /\ k \in Nat
  BY DEF BackupsInv
<1>2. IsFiniteSet(D) /\ Cardinality(D) <= Len(log) - k /\ Cardinality(D) \in Nat
  <2>1. k + 1 \in Int /\ Len(log) \in Int
    BY <1>1
  <2>2. /\ IsFiniteSet(D)
        /\ Cardinality(D) = IF k + 1 > Len(log) THEN 0 ELSE Len(log) - (k + 1) + 1
    BY <2>1, FS_Interval
  <2> QED  BY <1>1, <2>2
<1>3. Cardinality(D) < Keep
  BY <1>1, <1>2, BackupsAssumption
<1>4. /\ IsFiniteSet(T) /\ Cardinality(T) <= Cardinality(D)
  BY <1>2, FS_Subset, T \in SUBSET D
<1>5. g \in Surjection(T, L)
  <2>1. g \in [T -> L]
    OBVIOUS
  <2>2. \A c \in L : \E j \in T : g[j] = c
    <3> SUFFICES ASSUME NEW c \in L PROVE \E j \in T : g[j] = c
      OBVIOUS
    <3>1. PICK j \in DOMAIN log : log[j] = c
      BY DEF BackupsInv
    <3>2. ~(j <= k)
      BY <3>1
    <3>3. j \in T
      BY <3>1, <3>2, <1>1
    <3> QED  BY <3>1, <3>3
  <2> QED  BY <2>1, <2>2 DEF Surjection
<1>6. IsFiniteSet(L) /\ Cardinality(L) <= Cardinality(T)
  BY <1>4, <1>5, FS_Surjection
<1>7. Cardinality(L) \in Nat /\ Cardinality(T) \in Nat /\ Cardinality(D) \in Nat
  BY <1>2, <1>4, <1>6, FS_CardinalityType
<1>8. Cardinality(L) < Keep
  BY <1>3, <1>4, <1>6, <1>7, BackupsAssumption
<1> QED  BY <1>8 DEF Prune, Pruned

\* Pruning preserves the invariant.
LEMMA PruneKeeps ==
  ASSUME BackupsInv, Prune
  PROVE  BackupsInv' /\ log' = log
<1>1. log' = log /\ backups' \subseteq backups
  BY DEF Prune, Pruned
<1>2. /\ Len(log) \in Nat /\ DOMAIN log = 1..Len(log)
      /\ \A i \in DOMAIN log : log[i] \in Entry
  BY DEF BackupsInv
<1>3. NewestAreKept'
  <2> SUFFICES ASSUME InOrder, NEW i \in DOMAIN log, i > Len(log) - Keep
               PROVE  log[i] \in backups'
    BY <1>1 DEF NewestAreKept, InOrder
  <2>1. log[i] \in backups
    BY DEF BackupsInv, NewestAreKept
  <2>2. \A j \in DOMAIN log : j <= i => ~Later(log[j], log[i])
    <3> SUFFICES ASSUME NEW j \in DOMAIN log, j <= i, Later(log[j], log[i])
                 PROVE  FALSE
      OBVIOUS
    <3>1. ~Later(log[i], log[j]) /\ log[j] # log[i]
      BY LaterIsStrict, <1>2
    <3>2. j < i
      BY <3>1, <1>2
    <3> QED  BY <3>1, <3>2 DEF InOrder
  <2>3. Len(log) - i < Keep
    BY <1>2, BackupsAssumption
  <2> QED  BY <2>1, <2>2, <2>3, PruneSpares
<1> QED  BY <1>1, <1>3 DEF BackupsInv

-----------------------------------------------------------------------------
(* The inductive invariant *)

\* Something is online once there is a version.
Online == online.version # 0 => online.coll \in Collection

\* The file a reception is about is the one of the configured name, if there is
\* one and nothing misled the lookup.
Receiving ==
  /\ pc \in {"backup", "prune", "save"} /\ seen =>
       \A f \in Named(Configured) : f = target
  /\ pc \in {"backup", "prune", "save", "record"} =>
       target \in Files /\ online.coll \in Collection
  /\ pc \in {"backup", "prune"} => Exists(target)
  /\ pc = "record" => folder[target] = online.coll

LastKept == log # <<>> /\ log[Len(log)].kept = folder[target]

\* The copy of that file is the last entry of the log, in the folder until the
\* pruning, and after it unless some name sorts later.
Saving ==
  /\ pc = "prune" => LastKept /\ log[Len(log)] \in backups
  /\ pc = "save" /\ Exists(target) =>
       /\ LastKept
       /\ NothingLater => log[Len(log)] \in backups

\* config.json records the collection of the team under the configured name.
Team ==
  team.file # NoFile =>
    /\ team.coll \in Collection
    /\ Exists(team.file)
    /\ team.coll.name = Configured => applied.hash = team.coll

Inv ==
  /\ BackupsInv /\ TypeOK /\ Online /\ Receiving /\ Saving /\ Team

\* Every set of natural numbers that is not empty has a least element: of the
\* sets of smaller elements, which are finite, one has no strict subset.
LEMMA LeastExists ==
  ASSUME NEW S, S \subseteq Nat, S # {}
  PROVE  \E f \in S : \A g \in S : f <= g
<1> DEFINE Below(n) == {g \in S : g < n}
           B == {Below(n) : n \in S}
<1>1. B \subseteq FiniteSubsetsOf(S)
  <2> SUFFICES ASSUME NEW n \in S PROVE Below(n) \in FiniteSubsetsOf(S)
    OBVIOUS
  <2>1. IsFiniteSet(0..n)
    BY FS_Interval, n \in Nat
  <2>2. n \in Nat /\ \A g \in S : g \in Nat
    OBVIOUS
  <2>3. Below(n) \subseteq 0..n /\ Below(n) \subseteq S
    <3> SUFFICES ASSUME NEW g \in S, g < n PROVE g \in 0..n
      OBVIOUS
    <3>1. g \in Nat
      OBVIOUS
    <3> QED  BY <3>1, <2>2
  <2>4. IsFiniteSet(Below(n))
    BY <2>1, <2>3, FS_Subset
  <2> QED  BY <2>3, <2>4 DEF FiniteSubsetsOf
<1>2. PICK f \in S :
        \A n \in S : <<Below(n), Below(f)>> \notin StrictSubsetOrdering(S)
  <2>1. B # {}
    OBVIOUS
  <2>2. IsWellFoundedOn(StrictSubsetOrdering(S), FiniteSubsetsOf(S))
    BY FS_StrictSubsetOrderingWellFounded
  <2>3. PICK b \in B : \A c \in B : ~(<<c, b>> \in StrictSubsetOrdering(S))
    <3> HIDE DEF B
    <3> QED  BY <1>1, <2>1, <2>2, WFMin
  <2> QED  BY <2>3
<1>3. ASSUME NEW g \in S, g < f PROVE FALSE
  <2>1. /\ f \in Nat /\ g \in Nat /\ \A h \in S : h \in Nat
    OBVIOUS
  <2>2. Below(g) \subseteq Below(f) /\ g \in Below(f) /\ g \notin Below(g)
    <3>1. ASSUME NEW h \in S, h < g PROVE h < f
      <4>1. h \in Nat
        OBVIOUS
      <4> QED  BY <1>3, <2>1, <3>1, <4>1
    <3>2. ~(g < g)
      BY <2>1
    <3> QED  BY <1>3, <3>1, <3>2
  <2>3. Below(g) \in SUBSET S /\ Below(f) \in SUBSET S /\ Below(g) # Below(f)
    BY <2>2
  <2>4. <<Below(g), Below(f)>> \in StrictSubsetOrdering(S)
    <3> HIDE DEF Below
    <3> QED  BY <2>2, <2>3 DEF StrictSubsetOrdering
  <2> QED  BY <1>2, <2>4
<1>4. \A g \in S : g \in Nat /\ f \in Nat /\ ~(g < f)
  BY <1>3
<1> QED  BY <1>4

\* A lookup that nothing misleads finds the collection of the configured name.
LEMMA PathFound ==
  ASSUME NEW unread, Sees(unread), NEW f \in Named(Configured)
  PROVE  CollectionPath(unread) = f
<1>1. f \in Nat
  BY BackupsAssumption DEF Named
<1>2. Named(Configured) \ unread = {f}
  BY DEF Sees
<1>3. CollectionPath(unread) = CHOOSE h \in {f} : \A g \in {f} : h <= g
  BY <1>2 DEF CollectionPath
<1>4. f <= f
  BY <1>1
<1> QED  BY <1>3, <1>4

\* collectionPath is a file of the folder, there or not.
LEMMA PathIsFile ==
  ASSUME NEW unread
  PROVE  CollectionPath(unread) \in Files
<1> DEFINE found == Named(Configured) \ unread
<1>1. CASE found = {}
  <2>1. CollectionPath(unread) = Sanitize[Configured]
    BY <1>1 DEF CollectionPath
  <2> QED  BY <2>1, DiskAssumption
<1>2. CASE found # {}
  <2>1. found \subseteq Files /\ found \in SUBSET Nat
    BY BackupsAssumption DEF Named
  <2>2. CollectionPath(unread) = CHOOSE f \in found : \A g \in found : f <= g
    BY <1>2 DEF CollectionPath
  <2> HIDE DEF found
  <2>3. \E f \in found : \A g \in found : f <= g
    BY <1>2, <2>1, LeastExists
  <2> QED  BY <2>1, <2>2, <2>3
<1> QED  BY <1>1, <1>2

\* A file that is there holds a collection.
LEMMA FolderHolds ==
  ASSUME Inv, NEW f \in Files, Exists(f)
  PROVE  folder[f] \in Collection
BY DEF Inv, TypeOK, Exists, Maybe

LEMMA InitEstablishes ==
  ASSUME Init PROVE Inv
<1> USE DEF Init
<1>1. TypeOK
  <2>1. team \in [file : Maybe(Files), coll : Maybe(Collection)]
    BY DEF Maybe, Nothing
  <2>2. folder \in [Files -> Maybe(Collection)]
    BY DEF Maybe, Collection
  <2>3. /\ log \in Seq([at : Times, file : Files, kept : Collection \cup {Torn}])
        /\ backups \subseteq [at : Times, file : Files, kept : Collection \cup {Torn}]
    OBVIOUS
  <2>4. /\ online \in [version : Nat, coll : Maybe(Collection)]
        /\ applied \in [version : Nat, hash : Maybe(Collection)]
        /\ target \in Maybe(Files) /\ seen \in BOOLEAN /\ made \in Nat
    BY DEF Maybe
  <2> HIDE DEF Init
  <2> QED  BY <2>1, <2>2, <2>3, <2>4 DEF TypeOK, Init
<1>2. BackupsInv
  <2>1. log \in Seq(Entry) /\ DOMAIN log = {}
    OBVIOUS
  <2> QED  BY <2>1 DEF BackupsInv, NewestAreKept
<1>3. Online /\ Receiving /\ Saving /\ Team
  BY DEF Online, Receiving, Saving, Team, Nothing
<1> QED  BY <1>1, <1>2, <1>3 DEF Inv

-----------------------------------------------------------------------------
(* A reception *)

LEMMA UpToDateKeeps ==
  ASSUME Inv, UpToDate PROVE Inv'
BY DEF Inv, UpToDate, backupVars, BackupsInv, NewestAreKept, InOrder, Later,
       TypeOK, Named, Exists, Online, Receiving, Saving, LastKept,
       NothingLater, Team

LEMMA LaunchKeeps ==
  ASSUME Inv, Launch PROVE Inv'
<1> USE DEF Launch, backupVars
<1> PICK unread \in SUBSET Named(Configured) :
      /\ target' = CollectionPath(unread)
      /\ pc' = IF WorthSaving(CollectionPath(unread)) THEN "backup" ELSE "save"
      /\ seen' = Sees(unread)
  OBVIOUS
<1>1. target' \in Files
  BY PathIsFile
<1>2. /\ pc' \in {"backup", "save"}
      /\ pc' = "backup" <=> Exists(target)'
  BY DEF WorthSaving, Exists
<1>3. TypeOK' /\ Online'
  BY <1>1, <1>2 DEF Inv, TypeOK, Maybe, Sees, Online
<1>4. BackupsInv'
  BY DEF Inv, BackupsInv, NewestAreKept, InOrder, Later
<1>5. Receiving'
  <2>1. Named(Configured)' = Named(Configured)
    BY DEF Named, Exists
  <2>2. seen' => \A f \in Named(Configured) : f = target'
    BY PathFound
  <2>3. online'.coll \in Collection
    BY DEF Inv, Online
  <2> QED  BY <1>1, <1>2, <2>1, <2>2, <2>3 DEF Receiving
<1>6. Saving'
  BY <1>2 DEF Saving
<1>7. Team'
  BY DEF Inv, Team, Exists
<1> QED  BY <1>3, <1>4, <1>5, <1>6, <1>7 DEF Inv

\* A backup, whole or torn, leaves everything but the backups and the step.
LEMMA BackupTypes ==
  ASSUME Inv, NEW f \in Files, NEW c \in Kept, Write(f, c)
  PROVE  /\ backups' \subseteq Entry
         /\ log' \in Seq(Entry)
<1>1. BackupsInv'
  BY WriteSaves DEF Inv
<1>2. DOMAIN log' = 1..Len(log') /\ \A i \in DOMAIN log' : log'[i] \in Entry
  BY <1>1 DEF BackupsInv
<1> QED  BY <1>1, <1>2 DEF BackupsInv

LEMMA BackUpKeeps ==
  ASSUME Inv, BackUp PROVE Inv'
<1> USE DEF BackUp
<1>1. /\ target \in Files /\ Exists(target)
      /\ online.coll \in Collection /\ folder[target] \in Kept
  BY FolderHolds DEF Inv, Receiving, Kept
<1>2. /\ BackupsInv' /\ Len(log') = Len(log) + 1
      /\ log'[Len(log')] \in backups' /\ log'[Len(log')].kept = folder[target]
  BY <1>1, WriteSaves DEF Inv
<1>3. TypeOK'
  <2>1. backups' \subseteq Entry /\ log' \in Seq(Entry)
    BY <1>1, BackupTypes
  <2> QED  BY <2>1 DEF Inv, TypeOK, Entry, Kept
<1>4. Online' /\ Team'
  BY DEF Inv, Named, Exists, Online, Team
<1>5. Receiving'
  BY <1>1 DEF Inv, Receiving, Named, Exists
<1>6. Saving'
  <2>1. log' # <<>>
    BY <1>2 DEF Inv, BackupsInv
  <2> QED  BY <1>2, <2>1 DEF Saving, LastKept
<1> QED  BY <1>2, <1>3, <1>4, <1>5, <1>6 DEF Inv

LEMMA BackupFailsKeeps ==
  ASSUME Inv, BackupFails PROVE Inv'
<1> USE DEF BackupFails, Ends
<1>1. target \in Files /\ Torn \in Kept
  BY DEF Inv, Receiving, Kept
<1>2. BackupsInv'
  BY <1>1, WriteSaves DEF Inv
<1>3. TypeOK'
  <2>1. backups' \subseteq Entry /\ log' \in Seq(Entry)
    BY <1>1, BackupTypes
  <2> QED  BY <2>1 DEF Inv, TypeOK, Entry, Kept, Maybe
<1>4. Online' /\ Receiving' /\ Saving' /\ Team'
  BY DEF Inv, Named, Exists, Online, Receiving, Saving, Team
<1> QED  BY <1>2, <1>3, <1>4 DEF Inv

LEMMA PruneBackupsKeeps ==
  ASSUME Inv, PruneBackups PROVE Inv'
<1> USE DEF PruneBackups
<1>1. BackupsInv' /\ log' = log
  BY PruneKeeps DEF Inv
<1>2. TypeOK'
  BY DEF Inv, TypeOK, Prune, Pruned
<1>3. Online' /\ Team'
  BY DEF Inv, Named, Exists, Online, Team
<1>4. Receiving'
  BY DEF Inv, Receiving, Named, Exists
<1>5. Saving'
  <2>1. LastKept /\ log[Len(log)] \in backups
    BY DEF Inv, Saving
  <2>2. Len(log) \in DOMAIN log /\ Len(log) \in Nat /\ DOMAIN log = 1..Len(log)
    BY <2>1 DEF Inv, BackupsInv, LastKept
  <2>3. ASSUME NothingLater PROVE log[Len(log)] \in backups'
    <3>1. \A j \in DOMAIN log : j <= Len(log) => ~Later(log[j], log[Len(log)])
      BY <2>3 DEF NothingLater
    <3>2. Len(log) - Len(log) < Keep
      BY <2>2, BackupsAssumption
    <3> QED  BY <2>1, <2>2, <3>1, <3>2, PruneSpares DEF Inv
  <2>4. NothingLater' = NothingLater
    BY <1>1 DEF NothingLater, Later
  <2> QED  BY <1>1, <2>1, <2>3, <2>4 DEF Saving, LastKept, Exists
<1> QED  BY <1>1, <1>2, <1>3, <1>4, <1>5 DEF Inv

\* SaveCollection writes the file the backup copied.
LEMMA SaveKeeps ==
  ASSUME Inv, Save PROVE Inv'
<1> USE DEF Save, backupVars
<1>1. /\ target \in Files
      /\ online.coll \in Collection /\ online.coll # NoFile
  BY DiskAssumption DEF Inv, Receiving, Collection
<1>2. /\ folder' \in [Files -> Maybe(Collection)]
      /\ folder'[target] = online.coll
      /\ \A f \in Files : f # target => folder'[f] = folder[f]
  BY <1>1 DEF Inv, TypeOK, Maybe
<1>3. TypeOK'
  BY <1>2 DEF Inv, TypeOK
<1>4. BackupsInv'
  BY DEF Inv, BackupsInv, NewestAreKept, InOrder, Later
<1>5. Online' /\ Receiving' /\ Saving'
  BY <1>1, <1>2 DEF Inv, Online, Receiving, Saving
<1>6. Team'
  BY <1>1, <1>2 DEF Inv, TypeOK, Team, Exists, Maybe
<1> QED  BY <1>3, <1>4, <1>5, <1>6 DEF Inv

LEMMA RecordKeeps ==
  ASSUME Inv, Record PROVE Inv'
<1> USE DEF Record, Ends, backupVars
<1> PICK unread \in SUBSET Named(Configured) :
      /\ applied' = [version |-> online.version, hash |-> LocalHash(unread)]
      /\ team' = IF Sees(unread) THEN [file |-> target, coll |-> online.coll]
                 ELSE Nothing
  OBVIOUS
<1>1. /\ target \in Files /\ online.coll \in Collection
      /\ folder[target] = online.coll /\ Exists(target)
  BY DiskAssumption DEF Inv, Receiving, Collection, Exists
<1>2. LocalHash(unread) \in Maybe(Collection)
  BY PathIsFile DEF Inv, TypeOK, LocalHash
<1>3. TypeOK'
  BY <1>1, <1>2 DEF Inv, TypeOK, Maybe, Nothing
<1>4. BackupsInv'
  BY DEF Inv, BackupsInv, NewestAreKept, InOrder, Later
<1>5. Online' /\ Receiving' /\ Saving'
  BY DEF Inv, Online, Receiving, Saving
<1>6. ASSUME online.coll.name = Configured, Sees(unread)
      PROVE  LocalHash(unread) = online.coll
  <2>1. target \in Named(Configured)
    BY <1>1, <1>6 DEF Named
  <2> QED  BY <2>1, <1>1, <1>6, PathFound DEF LocalHash
<1>7. Team'
  <2>1. CASE Sees(unread)
    <3>1. /\ team'.file = target /\ team'.coll = online.coll
          /\ applied'.hash = LocalHash(unread)
      BY <2>1
    <3> QED  BY <1>1, <1>6, <2>1, <3>1 DEF Team, Exists
  <2>2. CASE ~Sees(unread)
    BY <2>2 DEF Team, Nothing
  <2> QED  BY <2>1, <2>2
<1> QED  BY <1>3, <1>4, <1>5, <1>7 DEF Inv

LEMMA StopsKeeps ==
  ASSUME Inv, Stops PROVE Inv'
<1> USE DEF Stops, Ends, backupVars
<1>1. BackupsInv'
  BY DEF Inv, BackupsInv, NewestAreKept, InOrder, Later
<1>2. TypeOK'
  BY DEF Inv, TypeOK, Maybe
<1>3. Online' /\ Receiving' /\ Saving' /\ Team'
  BY DEF Inv, Named, Exists, Online, Receiving, Saving, Team
<1> QED  BY <1>1, <1>2, <1>3 DEF Inv

-----------------------------------------------------------------------------
(* OBS and the others: the agent is not receiving *)

\* What the steps of OBS and of the others leave alone.
LEMMA Elsewhere ==
  ASSUME Inv, pc \in {"obs", "off"}, pc' \in {"obs", "off"},
         UNCHANGED <<backupVars, target, seen>>
  PROVE  BackupsInv' /\ Receiving' /\ Saving'
<1>1. BackupsInv'
  BY DEF Inv, backupVars, BackupsInv, NewestAreKept, InOrder, Later
<1> QED  BY <1>1 DEF Receiving, Saving

LEMMA EditKeeps ==
  ASSUME Inv, Edit PROVE Inv'
<1> PICK f \in Files \ Free : folder' = [folder EXCEPT ![f].scenes = made + 1]
  BY DEF Edit
<1>1. BackupsInv' /\ Receiving' /\ Saving'
  BY Elsewhere DEF Edit
<1>2. f \in Files /\ folder[f] \in Collection
  BY FolderHolds DEF Free
<1>3. folder'[f] = [name |-> folder[f].name, scenes |-> made + 1]
  BY <1>2 DEF Inv, TypeOK, Collection
<1>4. /\ folder'[f] \in Collection /\ folder'[f].name = folder[f].name
      /\ folder'[f] # NoFile /\ folder[f] # NoFile
  BY <1>2, <1>3, DiskAssumption DEF Inv, TypeOK, Collection
<1>5. \A g \in Files : g # f => folder'[g] = folder[g]
  BY DEF Inv, TypeOK
<1>6. folder' \in [Files -> Maybe(Collection)]
  <2>1. folder' = [g \in Files |-> IF g = f THEN folder'[f] ELSE folder[g]]
    BY <1>2 DEF Inv, TypeOK
  <2> QED  BY <2>1, <1>4 DEF Inv, TypeOK, Maybe
<1>7. TypeOK'
  BY <1>6 DEF Inv, TypeOK, Edit, backupVars
<1>8. \A g \in Files : Exists(g)' = Exists(g)
  BY <1>4, <1>5 DEF Exists
<1>9. Online'
  BY DEF Inv, Online, Edit
<1>10. Team'
  BY <1>8 DEF Inv, TypeOK, Maybe, Team, Edit
<1> QED  BY <1>1, <1>7, <1>9, <1>10 DEF Inv

LEMMA RenameKeeps ==
  ASSUME Inv, Rename PROVE Inv'
<1> PICK f \in Files \ Free, d \in Unused :
      /\ \E g \in Free \cup {f} :
           folder' = [folder EXCEPT ![f] = NoFile,
                                    ![g] = [folder[f] EXCEPT !.name = d]]
      /\ Forget(f)
  BY DEF Rename
<1> PICK g \in Free \cup {f} :
      folder' = [folder EXCEPT ![f] = NoFile,
                               ![g] = [folder[f] EXCEPT !.name = d]]
  OBVIOUS
<1> DEFINE c == [folder[f] EXCEPT !.name = d]
<1>1. BackupsInv' /\ Receiving' /\ Saving'
  BY Elsewhere DEF Rename
<1>2. f \in Files /\ g \in Files /\ folder[f] \in Collection /\ d \in Names
  BY FolderHolds DEF Free, Unused
<1>3. c \in Collection /\ c.name = d /\ c # NoFile
  BY <1>2, DiskAssumption DEF Collection
<1> HIDE DEF c
<1>4. folder' = [h \in Files |-> IF h = g THEN c
                                 ELSE IF h = f THEN NoFile ELSE folder[h]]
  BY <1>2 DEF Inv, TypeOK, c
<1>5. TypeOK'
  <2>1. folder' \in [Files -> Maybe(Collection)]
    BY <1>3, <1>4 DEF Inv, TypeOK, Maybe
  <2>2. team' \in [file : Maybe(Files), coll : Maybe(Collection)]
    BY DEF Inv, TypeOK, Forget, Nothing, Maybe
  <2> QED  BY <2>1, <2>2 DEF Inv, TypeOK, Rename, backupVars
<1>6. Online'
  BY DEF Inv, Online, Rename
<1>7. Team'
  <2> SUFFICES ASSUME team'.file # NoFile
               PROVE  /\ team'.coll \in Collection
                      /\ Exists(team.file)'
                      /\ team'.coll.name = Configured => applied'.hash = team'.coll
    BY DEF Team
  <2>1. team' = team /\ team.file # f
    BY DEF Forget, Nothing
  <2>2. team.file \in Files /\ team.coll \in Collection /\ Exists(team.file)
        /\ (team.coll.name = Configured => applied.hash = team.coll)
    BY <2>1 DEF Inv, TypeOK, Maybe, Team
  <2>3. team.file # g
    BY <2>1, <2>2 DEF Free
  <2>4. Exists(team.file)'
    BY <2>1, <2>2, <2>3, <1>4 DEF Exists
  <2> QED  BY <2>1, <2>2, <2>4 DEF Rename
<1> QED  BY <1>1, <1>5, <1>6, <1>7 DEF Inv

LEMMA CreateKeeps ==
  ASSUME Inv, Create PROVE Inv'
<1> PICK g \in Free, d \in Unused :
      folder' = [folder EXCEPT ![g] = [name |-> d, scenes |-> made + 1]]
  BY DEF Create
<1>1. BackupsInv' /\ Receiving' /\ Saving'
  BY Elsewhere DEF Create
<1> DEFINE c == [name |-> d, scenes |-> made + 1]
<1>2. g \in Files /\ ~Exists(g) /\ c \in Collection /\ c.name = d
  BY DEF Free, Unused, Collection, Inv, TypeOK
<1> HIDE DEF c
<1>3. folder' = [h \in Files |-> IF h = g THEN c ELSE folder[h]]
  BY <1>2 DEF Inv, TypeOK, c
<1>4. TypeOK'
  <2>1. folder' \in [Files -> Maybe(Collection)]
    BY <1>2, <1>3 DEF Inv, TypeOK, Maybe
  <2> QED  BY <2>1 DEF Inv, TypeOK, Create, backupVars
<1>5. Online'
  BY DEF Inv, Online, Create
<1>6. Team'
  BY <1>2, <1>3 DEF Inv, TypeOK, Maybe, Team, Create, Exists
<1> QED  BY <1>1, <1>4, <1>5, <1>6 DEF Inv

\* A copy comes in a free file: the team's keeps its content.
LEMMA DuplicateKeeps ==
  ASSUME Inv, Duplicate PROVE Inv'
<1> PICK f \in Files \ Free, g \in Free, d \in Unused :
      folder' = [folder EXCEPT ![g] = [folder[f] EXCEPT !.name = d]]
  BY DEF Duplicate
<1>1. BackupsInv' /\ Receiving' /\ Saving'
  BY Elsewhere DEF Duplicate
<1> DEFINE c == [folder[f] EXCEPT !.name = d]
<1>2. g \in Files /\ ~Exists(g) /\ folder[f] \in Collection /\ d \in Names
  BY FolderHolds DEF Free, Unused
<1>3. c \in Collection
  BY <1>2 DEF Collection
<1> HIDE DEF c
<1>4. folder' = [h \in Files |-> IF h = g THEN c ELSE folder[h]]
  BY <1>2 DEF Inv, TypeOK, c
<1>5. TypeOK'
  <2>1. folder' \in [Files -> Maybe(Collection)]
    BY <1>3, <1>4 DEF Inv, TypeOK, Maybe
  <2> QED  BY <2>1 DEF Inv, TypeOK, Duplicate, backupVars
<1>6. Online'
  BY DEF Inv, Online, Duplicate
<1>7. Team'
  BY <1>2, <1>4 DEF Inv, TypeOK, Maybe, Team, Duplicate, Exists
<1> QED  BY <1>1, <1>5, <1>6, <1>7 DEF Inv

LEMMA RemoveKeeps ==
  ASSUME Inv, Remove PROVE Inv'
<1> PICK f \in Files \ Free :
      /\ folder' = [folder EXCEPT ![f] = NoFile]
      /\ Forget(f)
  BY DEF Remove
<1>1. BackupsInv' /\ Receiving' /\ Saving'
  BY Elsewhere DEF Remove
<1>2. folder' = [h \in Files |-> IF h = f THEN NoFile ELSE folder[h]]
  BY DEF Inv, TypeOK
<1>3. TypeOK'
  <2>1. folder' \in [Files -> Maybe(Collection)]
    BY <1>2 DEF Inv, TypeOK, Maybe
  <2>2. team' \in [file : Maybe(Files), coll : Maybe(Collection)]
    BY DEF Inv, TypeOK, Forget, Nothing, Maybe
  <2> QED  BY <2>1, <2>2 DEF Inv, TypeOK, Remove, backupVars
<1>4. Online'
  BY DEF Inv, Online, Remove
<1>5. Team'
  <2> SUFFICES ASSUME team'.file # NoFile
               PROVE  /\ team'.coll \in Collection
                      /\ Exists(team.file)'
                      /\ team'.coll.name = Configured => applied'.hash = team'.coll
    BY DEF Team
  <2>1. team' = team /\ team.file # f
    BY DEF Forget, Nothing
  <2>2. team.file \in Files /\ team.coll \in Collection /\ Exists(team.file)
        /\ (team.coll.name = Configured => applied.hash = team.coll)
    BY <2>1 DEF Inv, TypeOK, Maybe, Team
  <2>3. Exists(team.file)'
    BY <2>1, <2>2, <1>2 DEF Exists
  <2> QED  BY <2>1, <2>2, <2>3 DEF Remove
<1> QED  BY <1>1, <1>3, <1>4, <1>5 DEF Inv

LEMMA CloseKeeps ==
  ASSUME Inv, Close PROVE Inv'
<1> USE DEF Close
<1>1. BackupsInv' /\ Receiving' /\ Saving'
  BY Elsewhere
<1>2. TypeOK' /\ Online' /\ Team'
  BY DEF Inv, TypeOK, backupVars, Named, Exists, Online, Team
<1> QED  BY <1>1, <1>2 DEF Inv

LEMMA PublishKeeps ==
  ASSUME Inv, Publish PROVE Inv'
<1> USE DEF Publish
<1> PICK unread \in SUBSET Named(Configured) :
      LET mine == LocalHash(unread)
      IN /\ mine # NoFile /\ mine # applied.hash
         /\ online'  = [version |-> online.version + 1, coll |-> mine]
         /\ applied' = [version |-> online.version + 1, hash |-> mine]
         /\ team'    = [file |-> CollectionPath(unread), coll |-> mine]
  OBVIOUS
<1>1. BackupsInv' /\ Receiving' /\ Saving'
  BY Elsewhere
<1> DEFINE f == CollectionPath(unread)
           mine == LocalHash(unread)
<1>2. f \in Files /\ Exists(f) /\ mine \in Collection
  BY PathIsFile, FolderHolds DEF LocalHash, Exists
<1>3. /\ online'  = [version |-> online.version + 1, coll |-> mine]
      /\ applied' = [version |-> online.version + 1, hash |-> mine]
      /\ team'    = [file |-> f, coll |-> mine]
  OBVIOUS
<1> HIDE DEF f, mine
<1>4. TypeOK'
  BY <1>2, <1>3 DEF Inv, TypeOK, backupVars, Maybe
<1>5. Online'
  BY <1>2, <1>3 DEF Online
<1>6. Team'
  <2>1. team'.file = f /\ team'.coll = mine /\ applied'.hash = mine
    BY <1>3
  <2>2. Exists(team.file)'
    BY <1>2, <2>1 DEF Exists
  <2> QED  BY <1>2, <2>1, <2>2 DEF Team
<1> QED  BY <1>1, <1>4, <1>5, <1>6 DEF Inv

LEMMA OtherPublishesKeeps ==
  ASSUME Inv, OtherPublishes PROVE Inv'
<1> USE DEF OtherPublishes
<1>1. BackupsInv' /\ Receiving' /\ Saving'
  BY Elsewhere
<1>2. TypeOK'
  BY DEF Inv, TypeOK, backupVars, Maybe, Collection
<1>3. Online' /\ Team'
  BY DEF Inv, TypeOK, Collection, Named, Exists, Online, Team
<1> QED  BY <1>1, <1>2, <1>3 DEF Inv

-----------------------------------------------------------------------------
(* The theorems *)

LEMMA StepKeeps ==
  ASSUME Inv, [Next]_vars PROVE Inv'
<1>1. CASE UNCHANGED vars
  BY <1>1 DEF vars, backupVars, Inv, BackupsInv, NewestAreKept, InOrder, Later,
              TypeOK, Named, Exists, Online, Receiving,
              Saving, LastKept, NothingLater, Team
<1>2. CASE Receive
  BY <1>2, UpToDateKeeps, LaunchKeeps, BackUpKeeps, BackupFailsKeeps,
     PruneBackupsKeeps, SaveKeeps, RecordKeeps, StopsKeeps DEF Receive
<1>3. CASE Obs
  BY <1>3, EditKeeps, RenameKeeps, CreateKeeps, DuplicateKeeps, RemoveKeeps,
     CloseKeeps DEF Obs
<1>4. CASE Others
  BY <1>4, PublishKeeps, OtherPublishesKeeps DEF Others
<1> QED  BY <1>1, <1>2, <1>3, <1>4 DEF Next

LEMMA Invariant == Spec => []Inv
<1>1. Init => Inv
  BY InitEstablishes
<1>2. Inv /\ [Next]_vars => Inv'
  BY StepKeeps
<1> QED  BY <1>1, <1>2, PTL DEF Spec

\* Every variable keeps its type.
THEOREM DiskTyped == Spec => []TypeOK
<1>1. Inv => TypeOK
  BY DEF Inv
<1> QED  BY <1>1, Invariant, PTL

\* The last Keep backups stay with what they copied, while the clock goes
\* forward: Backup then pruneBackups, whatever fails between them.
THEOREM BackupsStay == Spec => []NewestAreKept
<1>1. Inv => NewestAreKept
  BY DEF Inv, BackupsInv
<1> QED  BY <1>1, Invariant, PTL

\* HasLocalChanges sees the edits of the collection received under the
\* configured name, in whatever file it is, if its lookup and the one that gave
\* the recorded digest were not misled, and whatever those in between gave.
THEOREM EditsSeen == Spec => []EditsAreSeen
<1>1. ASSUME Inv PROVE EditsAreSeen
  <2> SUFFICES ASSUME team.file # NoFile,
                      team.coll.name = Configured,
                      folder[team.file].name = Configured,
                      folder[team.file].scenes # team.coll.scenes,
                      Sees({})
               PROVE  HasLocalChanges({})
    BY DEF EditsAreSeen
  <2>1. /\ team.file \in Files /\ Exists(team.file)
        /\ applied.hash = team.coll /\ team.coll \in Collection
    BY <1>1 DEF Inv, TypeOK, Maybe, Team
  <2>2. CollectionPath({}) = team.file
    BY <2>1, PathFound DEF Named
  <2>3. applied.hash # NoFile
    BY <2>1, DiskAssumption DEF Collection
  <2> QED  BY <2>1, <2>2, <2>3 DEF HasLocalChanges, LocalHash, Exists
<1>2. Inv => EditsAreSeen
  BY <1>1
<1> QED  BY <1>2, Invariant, PTL

\* SaveCollection overwrites a file only when the last backup is a whole copy
\* of it, and is in the folder unless a name sorts after it.
THEOREM NothingLost == Spec => OverwrittenIsSaved
<1> DEFINE A == \A f \in Files :
                  pc = "save" /\ Exists(f) /\ folder'[f] # folder[f] =>
                    /\ log # <<>>
                    /\ NothingLater => \E b \in backups : b.kept = folder[f]
<1>1. ASSUME Inv, [Next]_vars PROVE [A]_vars
  <2> SUFFICES ASSUME NEW f \in Files, pc = "save", Exists(f),
                      folder'[f] # folder[f]
               PROVE  /\ log # <<>>
                      /\ NothingLater => \E b \in backups : b.kept = folder[f]
    OBVIOUS
  <2>1. Save
    BY <1>1 DEF Next, Receive, Obs, Others, UpToDate, Launch, BackUp, BackupFails,
                PruneBackups, Record, Stops, Edit, Rename, Create, Duplicate, Remove,
                Close, Publish, OtherPublishes, vars
  <2>2. f = target
    BY <1>1, <2>1 DEF Save, Inv, TypeOK
  <2> QED  BY <1>1, <2>2 DEF Inv, Saving, LastKept
<1>2. Inv /\ [Next]_vars => [A]_vars
  BY <1>1
<1> QED  BY <1>2, Invariant, PTL DEF Spec, OverwrittenIsSaved

\* Where nothing misled its lookup, Receive overwrites no other collection than
\* that of the configured name while there is one, and adds none of that name.
THEOREM ReplacesOne == Spec => OneReplaced
<1> DEFINE A == pc = "save" /\ seen =>
                  /\ \A f \in Files :
                       folder'[f] # folder[f] => Named(Configured) \subseteq {f}
                  /\ online.coll.name = Configured /\ Unique => Unique'
<1>1. ASSUME Inv, [Next]_vars PROVE [A]_vars
  <2> SUFFICES ASSUME pc = "save", seen, folder' # folder
               PROVE  A
    BY DEF Unique, Exists
  <2>1. Save
    BY <1>1 DEF Next, Receive, Obs, Others, UpToDate, Launch, BackUp, BackupFails,
                PruneBackups, Record, Stops, Edit, Rename, Create, Duplicate, Remove,
                Close, Publish, OtherPublishes, vars
  <2>2. /\ folder'[target] = online.coll
        /\ \A h \in Files : h # target => folder'[h] = folder[h]
    BY <1>1, <2>1 DEF Save, Inv, TypeOK, Receiving
  <2>3. \A h \in Named(Configured) : h = target
    BY <1>1 DEF Inv, Receiving
  <2>4. ASSUME NEW f \in Files, folder'[f] # folder[f]
        PROVE  Named(Configured) \subseteq {f}
    BY <2>2, <2>3, <2>4
  <2>5. ASSUME online.coll.name = Configured, Unique,
               NEW f \in Files, NEW g \in Files, Exists(f)', Exists(g)',
               folder'[f].name = folder'[g].name, f # g
        PROVE  FALSE
    <3>1. CASE f # target /\ g # target
      BY <2>2, <2>5, <3>1 DEF Exists, Unique
    <3>2. CASE f = target
      BY <2>2, <2>3, <2>5, <3>2 DEF Exists, Named
    <3>3. CASE g = target
      BY <2>2, <2>3, <2>5, <3>3 DEF Exists, Named
    <3> QED  BY <3>1, <3>2, <3>3
  <2> QED  BY <2>4, <2>5 DEF Unique, Exists
<1>2. Inv /\ [Next]_vars => [A]_vars
  BY <1>1
<1> QED  BY <1>2, Invariant, PTL DEF Spec, OneReplaced

=============================================================================
