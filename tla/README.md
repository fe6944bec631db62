# A TLA+ development of Stream Team

Stream Team keeps the OBS scenes of a team the same on every machine. The agent
(`cmd/stream-team`) is started instead of OBS: it receives the last version from
a plain web hosting, starts OBS, and, for a publisher, publishes what changed
when OBS closes. There is no server program: the agents meet only through files
that are read over HTTPS and written over FTP or SFTP.

This directory holds the TLA+ model of that program, the TLC configurations that
check it on small instances, and the TLAPS proofs of the properties that matter
most. Line numbers refer to the sources under `src/`.

## Inventory

| Component | State | Operations | Where |
|---|---|---|---|
| Reception | scenes, assets, `config.json` of a machine; the manifest read | `Receive`, `CaptureDevices` | `internal/pipeline/receive.go`, `pipeline.go` |
| Publication | the hosting; the manifest read; the inventory | `Publish`, `archive`, `referencedAssets` | `internal/pipeline/publish.go` |
| Session | the loaded configuration, the two flags | `run` | `cmd/stream-team/main.go` |
| HTTP reader | a file and its `.part`, the attempts of a call | `Get`, `GetNoCache`, `Download`, `Probe` | `internal/storage/http.go` |
| Writers | a connection, `known-hosts.json` | `Put`, `Move`, `Mkdir`, `Connect` | `internal/storage/ftp.go`, `sftp.go` |
| Devices | `local-overrides.json` | `Extract`, `Merge`, `Apply`, `StripLocal` | `internal/obs/devices.go` |
| Asset paths | none | `Tokenize`, `Expand`, `ForeignPaths`, `MissingAssets` | `internal/obs/assets.go` |
| Collection files | the scenes folder, `backups/` | `Load`, `Save`, `Backup`, `CollectionFile` | `internal/obs/collection.go`, `paths.go` |
| Canvas | `basic.ini` of the OBS profile | `ReadCanvas`, `ApplyCanvas` | `internal/obs/profile.go` |
| Configuration | `config.json`, `publisher.json` | `Load`, `Save` | `internal/config/config.go` |
| Manifest | `manifest.json` | `Parse`, `Find`, `Marshal` | `internal/manifest/manifest.go` |
| Dock | the publication intent and its message | `handleState`, `handleIntent`, `PublishRequested` | `internal/dock` |
| Launcher | none | `Run` | `internal/launcher` |

How they interact. `run` calls `Receive`, then serves the dock while OBS runs,
then calls `CaptureDevices`, `HasLocalChanges` and `Publish`, in one goroutine;
only the dock's handlers run beside it. `Receive` reads the manifest once and
keeps it, downloads assets one by one, then the scenes, then records the version.
`Publish` overwrites assets and scenes in place and only then replaces the
manifest, by a rename. Everything hard about the program comes from agents of
*different machines* doing this at the same time without a lock, and from
sessions that end half-way.

What makes each part correct:

- **Reception**: what is recorded as version N is version N, scenes and assets,
  whatever was published, interrupted or cached during the downloads; a refusal
  passes with time; a failed session does not lie to the next one.
- **Publication**: a version replaces the one its author started from; what the
  manifest lists can be downloaded, the assets that were not sent included; the
  archive of N is N.
- **HTTP reader**: the local file is old or new, never half of it; a hosting that
  limits its rate cannot hold the start-up for long.
- **Devices**: identifiers stay on their machine and come back to it.
- **Dock**: the last intent of the user is the one that is applied.
- **Collection files**: what a reception overwrites can be found again in the
  newest backups; the collection that was written is the one that is found again.
- **Asset paths**: the machines of a team show the same file, each of its folder.
- **Canvas**: the machines have one canvas, and lose nothing else of a profile.

`PROJECT.json` lists every component with its status and, under `hazards`, what
in this code is hard to test, at its line, with the properties that cover it.

## Modules

| Module | Contents | State |
|---|---|---|
| `RegieState` | constants, variables and types shared by the next three | - |
| `Reception` | `Engine.Receive` | machine |
| `Publication` | `Engine.Publish`, `archive`, both `Move` | hosting, machine |
| `Regie` | the team: sessions of all machines, crashes; properties | all |
| `Promise` | abstract: a list of versions and what each machine adopted | - |
| `MCRegie` | small instances of `Regie` | - |
| `RegieProofs` | proofs about `Regie`, with any number of publishers | - |
| `SinglePublisherProofs` | proofs about `Regie` with one publisher; EXTENDS `RegieProofs` | - |
| `HttpReader` | `do`, `tenter`, `retryAfter`, `Download` | a file, a call |
| `Fetch` | abstract: a download is all or nothing | - |
| `HttpReaderProofs` | proofs about `HttpReader` | - |
| `Devices` | the device settings over sessions of several machines | machines, hosting |
| `MCDevices` | a small instance of `Devices` | - |
| `DevicesProofs` | proofs about `Devices` | - |
| `Backups` | `Backup`, `pruneBackups`: names to the second, a clock that goes back | `backups/` |
| `Disk` | the scenes folder over sessions: receptions, OBS, publications; EXTENDS `Backups` | one machine |
| `MCDisk` | a small instance of `Disk` | - |
| `DiskProofs` | proofs about `Disk` and `Backups` | - |
| `AssetPaths` | `Tokenize`, `Expand`, `ForeignPaths` as operators | - |
| `BasicIni` | `ReadCanvas`, `ApplyCanvas`, `iniSetSection` as operators | - |
| `Sharing` | a team that shares paths and canvas; EXTENDS the two above | machines, hosting |
| `MCSharing` | a small instance of `Sharing` | - |
| `SharingProofs` | proofs about `AssetPaths`, `BasicIni` and `Sharing` | - |
| `Dock` | the dock's page, its handlers, the intent the session reads | page, server |
| `DockProofs` | proofs about `Dock` | - |

`Regie` EXTENDS `Reception` and `Publication`, which share `RegieState`; it is
shown to implement `Promise`, and `HttpReader` to implement `Fetch`. `Reception`
relies on that second refinement: its `Download` replaces a local file by a
complete answer in one step, and its failure leaves the file.

### State and actions of Regie

| Variable | In the code |
|---|---|
| `manifest`, `staged` | `manifest.json` and `manifest.json.tmp` online |
| `onlineColl`, `onlineAsset` | `scenes/collection.json` and `assets/...` online |
| `archive` | `versions/vN/` |
| `coll`, `asset` | the collection OBS loads and the assets folder |
| `disk` / `cfg` | `config.json`, on disk / as `Engine.Cfg` holds it |
| `pc` | where the agent stands in `run`, `Receive`, `Publish` |
| `seen` | the manifest read (`m` in `Receive`, `remote` in `Publish`) |
| `todo`, `cur`, `plan` | the rest of the asset loop, its current file, the inventory |
| `published` | history: every whole manifest that got online |
| `faults` | bound |

An action is one exchange with the hosting or one durable write, with all the
code around it up to the next one. A `Put` over a file that members download is
two actions, because FTP and SFTP truncate the file and fill it; the file holds
`Torn` in between. So is that of `manifest.json.tmp` (`BeginStage`, `EndStage`):
no agent reads it, but two publishers write one file, and either may rename what
the other is writing. Half a manifest (`TornManifest`) is then online, which
`manifest.Parse` refuses, so that receptions and publications fail until it is
completed or replaced. Two uploads of one file at the same time count as one
after the other. What fails without a choice of the code (a request, a write, the
process) is `Stop`, `ReceiveFails`, `RecordFails` or `ArchiveFails`; a digest
that does not match is no fault but the outcome of `RejectAsset` or
`RejectScenes`.

Data is abstracted to what the digests tell apart. A collection is represented
by its published form (tokens instead of folders, no devices), which is what
`LocalHash` hashes, and a value stands for its digest. `Variants[s]` says what
`s` may become on a machine when its devices are put in: itself, or, because
`"default"` is kept by `StripLocal` and replaced by `Apply`, another value.
`Refs[s]` are the assets `s` refers to.

### HttpReader and Devices

`HttpReader` counts time in seconds and follows one agent through `MaxCalls`
downloads of one file: the attempts, the pause after each refusal (the
`Retry-After` under a minute, else 2, 4, 8), the copy to `.part` and the rename,
with a loss of the connection, a cancellation, a directory or file that cannot be
made or renamed, or a crash wherever it may happen.

`Devices` follows the settings of `localKeys`: the user adds, removes and points
sources at devices, `CaptureDevices` runs first when OBS closes, a publication
takes devices out, a reception puts the recorded ones in. `chosen` is history.
Its `Receive` and `Publish` are one step each: what may go wrong between their
exchanges is the subject of `Regie`.

### Disk

| Variable | In the code |
|---|---|
| `folder` | the files of `basic/scenes`: the name inside each, its scenes |
| `backups` / `log` | the files of `backups/` / history: every backup written |
| `applied` | `applied_version`, `applied_hash` of `config.json` |
| `target` | `collectionPath` in `Receive` |
| `seen` | history: that lookup was not misled |
| `online` | the manifest and its collection |
| `team` | history: the file and collection that were recorded last |

`Disk` takes `Receive` apart where `Regie` does not: `collectionPath`
(`CollectionPath`), `Backup` (`BackUp`, `PruneBackups`), `SaveCollection`, the
digest of the file that `collectionPath` gives afterwards (`Record`), with a stop
after each. Every call of `collectionPath` is a lookup of its own, and any of them
may miss the file: `CollectionFile` skips a file that it cannot read or parse and
fails when it cannot list the folder (paths.go:79-97), and `collectionPath` takes
both for a collection that is not there (pipeline.go:61-66). The files that a lookup
skips are a set chosen at each (`unread`); a lookup is not misled (`Sees`) when it
skips none and one file at most has the name. A collection is its name and its scenes; its file is a number, in the
order of `os.ReadDir`. OBS edits, renames, creates, duplicates and removes
collections, in files of its choice; other machines publish under any name. One
`Publish` is one step: `Regie` is about its exchanges. The clock gives any of
`Times` at each backup, so it repeats a second or goes back.

### AssetPaths, BasicIni and Sharing

A text is a sequence of pieces: separators, drives, folders, the token, and what
may follow the name of a folder (`"2"` in `Assets2`). `Lower` gives the small
letters of a piece. `basic.ini` is a sequence of lines, each a heading, a key with
its value or another line; `SectionOf` follows the sections as the reader and the
writer do.

`Sharing` puts both between machines: OBS shows a path as its user typed it and
writes its video page, a publication tokenises the path and reads the canvas, a
reception expands the one and applies the other, or stops between the two. The
overlay of the scenes stands for all their texts, and for the digest.

### Dock

`Dock` follows one session: what the user enters, the delayed and the immediate
`sendIntent`, the refreshes that are suspended while `sending` is up, `render`
which spares the field that has the focus, and the handlers under their lock.
Requests under way are sets, so they are handled and answered in any order. When
OBS ends, requests may be cut, and `PublishRequested` reads what is there; `Regie`
takes any outcome of it (`CloseObs`).

## Runs

| Run | Instance | Shows |
|---|---|---|
| `faults` | a publisher and a member, 2 failures or crashes anywhere, a device variant, 2 versions | `TypeOK`, `UpToDateMeansSame`, `PublishesOnItsBase`, `KeepsPromise` |
| `receptions` | two publishers over SFTP, edits during publications, stale caches | `AppliesWholeVersion` |
| `converge` | a publisher and a member, 2 scenes that show 1 asset, one failure, fairness | `MembersConverge`; while nothing failed: `PublishedIsServed`, `ArchiveIsFaithful`, `RejectionsAreTransient` |
| `disk` | one machine, 2 collections in 2 files, 2 backups of which 1 is kept, failures anywhere | `TypeOK`, `NewestAreKept`, `OverwrittenIsSaved`, `EditsAreSeen`, `OneReplaced` |
| `sharing` | two publishers, Windows and Linux, 3 versions | `SameOverlay`, `SameCanvas`, `ProfileIsKept` |
| `http` | two calls, five kinds of `Retry-After`, crashes, fairness | `TypeOK`, `PatienceBounded`, `AtomicDownload`, `CallReturns` |
| `dock` | 3 edits, 2 refreshes under way, with and without a publisher, fairness | `NeverUninvited`, `DockSettles` |
| `devices` | a publisher with two devices, a member with one | `TypeOK`, `DevicesStayHome`, `OwnDeviceComesBack` |

- **AppliesWholeVersion** is the guarantee of the program, and it holds without
  its assumption of a single publisher: since scenes and assets are tested
  against one manifest, no interleaving of uploads, edits, caches and crashes
  leaves a mixture under a version number. The run exercises it where everything
  else breaks, but without crashes and with one intact content of the asset
  (`MaxFaults` 0, `c1` and `Torn`): crashes, and an old asset that is intact, are
  covered by the theorem `WholeVersion`.
- **RejectionsAreTransient** says that the price, a refused reception, is paid
  only while a publication changes the files. It needs that publications are not
  interrupted (see below).
- **UpToDateMeansSame** is what the shortcut of `Receive` relies on
  (receive.go:36): equal numbers mean equal scenes, also when `config.json` was
  not saved after a publication or a reception.
- **PublishesOnItsBase** is what the version check of `Publish` is for, from the
  comparison (publish.go:83) to the rename a whole upload later. It needs a
  single publisher, which the project's README.md (line 106) supposes.
- **KeepsPromise** ties the above together as a refinement: the list of versions
  only grows, and no machine records something else than a version, or an older
  one than it had.
- **MembersConverge**: whatever was refused or failed, a member ends with the
  scenes that are online, once what is online fits its manifest.

- **NeverUninvited**: copies of the intent travel between page and server in both
  directions; none of them is ever true without a tick of the user.
- **DockSettles**: once the form is left alone it shows what the session will be
  told, so what a user sees is what will happen. It does not say that this is what
  he chose last: see below.
- **DevicesStayHome**, **OwnDeviceComesBack**: the four functions of devices.go,
  which treat `"default"`, `""` and absence differently, agree over sessions of
  several machines.

- **OverwrittenIsSaved**, **NewestAreKept**: the backup is the only net under a
  reception that overwrites unpublished scenes (receive.go:36 goes on at the same
  version, and publish.go:86 advises to relaunch). Whatever fails afterwards, and
  whatever other collection shares the folder, the copy is there and whole, as
  long as no backup has a name later than the last one's: behind a clock that was
  set back the copy is pruned at once, before the scenes are overwritten.
- **EditsAreSeen**, **OneReplaced**: a collection is looked up by the name inside its
  file. Over any sequence of renames, copies and removals in OBS and of lookups that
  failed, the file that is hashed is the one that was received, and a reception
  replaces the collection of the configured name and no other, unless there is
  none: then it may replace the one that has the file name `sanitize` gives, of
  which a copy is in the backups. Both suppose that the lookups they rest on were
  not misled: those of the reception that was recorded and of the comparison for
  the first, that of the reception for the second. What a misled one does is the
  run `unread`. `EditsAreSeen`, and the part of `OneReplaced` that says that no
  second collection of the name appears, suppose that the others publish under
  that name.
- **SameOverlay**, **SameCanvas**: two machines that recorded the version online and
  changed nothing show the same file of their folders, on one canvas, through any
  number of publications of either: what one has expanded the other tokenises
  again. What stays absolute was reported by `ForeignPaths`.
- **ProfileIsKept**: `iniSetSection` never moves, drops or overwrites a line of
  another section or another key of [Video].

### Disagreements with the documents

Each of these runs checks one property that a document, a comment or a test
states, and TLC finds a behaviour of the code that violates it; the quotations
are under `findings` in `PROJECT.json`.

| Run | Property | Behaviour found |
|---|---|---|
| `restarted` | `EmptyMeansNever` | a crash between removal and rename in `sftpWriter.Move` leaves no manifest; the next publication starts again at version 1 |
| `stale_asset` | `CompletedIsServed` | after an interrupted upload and a return to the former asset, the differential skips the file and the new version cannot be received |
| `asset_only` | `NothingToPublishIsTrue` | an edited asset alone is never published |
| `unread` | `FirstLaunchOnly` | a lookup that cannot read the team's file takes it for absent; the reception writes a second collection of that name |

Others were met while reading or modelling and have no run: a member who
receives during a publication fails on a digest although the manifest has not
changed, because the files of its version are overwritten in place
(publish.go:156, against README.md:98, "les autres postes voient la version
précédente"; `RejectionsAreTransient` says how far it goes); when the collection
was published under another name than the configured one, the file that was
received is not found again, the digest recorded is empty and a member's edits
are never seen (pipeline.go:64, against 110, "la seule question qui compte"), and a
lookup that fails when the version is recorded has the same effect (pipeline.go:92);
with two publishers a member may meet half a manifest (publish.go:183, against
178, "ne doit jamais tomber sur un manifeste à moitié écrit"); a source put back on
the default device gets the former one at the next reception, since `Merge` keeps
the record of what `Extract` skips (devices.go:131);
a file of a folder beside the assets folder, whose name begins like it, is
tokenised and not reported (assets.go:27, against 51, "les chemins absolus qui
échappent au dossier d'assets"), and a `file://` address is neither (assets.go:90);
a canvas that was changed alone is never published (publish.go:65) and a rate
with another `FPSType` than 0 is published as `FPSCommon` (profile.go:41); the
prefix is compared in small letters and cut by its own length, which differ for a
few letters (assets.go:31); a reception that
fails on a digest has replaced, and then deletes, an asset the local scenes use
(receive.go:74, against the comment at 58: "la session reste utilisable"); a
state of the dock that was read before an intent and arrives after it unticks
the box as soon as the focus has moved to the message, and the message then sends
the intent back (page.go:120); a message whose field is left within 400 ms may be
replaced by a refresh before it was sent (page.go:121); a third refusal is followed by a
pause although no attempt is left (http.go:113, against the comment at 145); a
`Retry-After` over a minute is ignored rather than ending the call (http.go:196,
against 189); choosing a device on a source that was on `"default"` changes the
digest of the collection (devices.go:150, against receive_test.go:363); and the
publication after an interrupted one archives what the latter had uploaded as
the version before (publish.go:220).

### Bounds

- `MaxVersion` 2 in `Regie`: a version and the one that archives it. The
  differential needs two. The archive of a later version is the same step with
  another number.
- `converge`: the three safety properties are about the behaviours in which
  nothing has failed (`faults = 0`), with every state of them in the run; an
  interrupted publication breaks each, see below.
- `disk`: `Keep` 1 for 10, so that pruning happens at the second backup; two
  seconds give two backups in one, in order and in reverse; two files and two
  names, any of which a lookup may miss, and a `Sanitize` that gives both names one file; `MaxScenes` 3 is what
  was there, what another machine published and an edit of it. Other numbers are
  covered by the proofs.
- `sharing`: three versions let a path go to the other machine and back. The paths
  are in the folder written in other letters and separators, beside it and
  elsewhere; a profile without [Video], one with it in the middle and a key
  of the same name elsewhere, and none.
- `MaxFaults` 0, 1 or 2: two let a failed reception follow a failed publication.
- One asset: the loops treat assets independently, and a version with one asset
  and its scenes is already a pair that can be mixed up. Contents `c1`, `c2` and
  `Torn` give an old, a new and an incomplete file. Other numbers are covered by
  the proofs.
- Two machines: a reader and a writer, or two of each. Readers do not interact.
  In `receptions` both publish and play the same part, so permutations of the two
  are taken as one (`MCSymmetry`); the property is an invariant.
- `MaxEdits` 3 and `MaxPolls` 2 in `Dock`: a tick, a message and a change of mind,
  with an old and a new state under way.
- `Room`, a guard of `Publish`, stops at `MaxVersion`; `MaxCalls` bounds the
  downloads of `HttpReader`, whose runs therefore stop (`CHECK_DEADLOCK FALSE`).

Assumptions of the model: one agent per machine (the dock's port stops a second
one); OBS alone edits the collection and not while the agent runs without it;
assets are not edited during a reception, nor the one file that is being sent;
OBS itself makes one collection of each name; digests are injective; a rename on a
disk is atomic. `Regie`, `Sharing` and `Devices` suppose that the collection is
found: lookups that are misled are the subject of `Disk` alone.

### Fairness

`FairSpec` of `Regie` is weak fairness of a member's next step of `Launch`,
`Receive` or `CloseObs`: members use the tool again and again, OBS is closed some
day, and every exchange ends, which the HTTP client's five-minute limit (http.go)
gives. Nothing is assumed of publishers, who may stop anywhere, of edits or of
failures. `MembersConverge` is therefore conditional on a hosting that stays
consistent from some point on. In `HttpReader`, weak fairness of `Step`
says that a request ends and a pause ends; nothing says that the hosting answers
well. In `Dock`, a timer fires and the requests of the page to the local server
are handled and answered while OBS is open; nothing says that OBS closes.

## Proofs

All for every value of the constants, under the ASSUMEs of the modules, which
state what the constants are and, for devices, that machines have no device in
common.

- `RegieProofs!TypeCorrect`: `Spec => []TypeOK`. The strengthening `CurOK` says
  that an agent that verifies or sends a file knows which one; one lemma for
  `Finish`, one for each half of `Session`.
- `RegieProofs!WholeVersion`: `Spec => []AppliesWholeVersion`. The digest tests
  compare with `seen`, so the invariant says what `seen` is: `ReceptionInv` adds
  that the manifest online and the one a reception keeps are in `published`, that
  every asset it has finished with is on the disk as listed, and that at
  `record` the scenes are a variant of the listed ones. It needs nothing about
  the files online, which is why any number of publishers, caches and
  interruptions are covered.
- `HttpReaderProofs!BoundedPatience`: three minutes at most. `PauseInv` says
  that the pauses made so far are at most a minute per attempt; `DelayBound`
  bounds each.
- `HttpReaderProofs!DownloadIsAtomic`: `HttpReader` implements `Fetch`.
  `PartInv` says that `.part` is the whole body when it is renamed.
- `DockProofs!AlwaysInvited`: `DockInv` says of every copy of the intent, on the
  page, under way in either direction, at the server and in the session, that the
  box was ticked if it asks for a publication.
- `DiskProofs!BackupsStay`, `NothingLost`, `EditsSeen`, `ReplacesOne`,
  `DiskTyped`: for every `Keep`, clock, set of files and naming. `WriteSaves`,
  `PruneSpares` and `PruneKeeps` are about `Backup` and `pruneBackups` alone: a
  backup is in the folder after it was written, and what has fewer than `Keep`
  later names stays. `Inv` adds to them that a reception whose lookup was not misled
  is about the one file with the configured name, if there is one, until the
  scenes are written (`Receiving`), that the copy of that file is the last entry of the log and in the
  folder until the scenes are overwritten (`Saving`), and that what was recorded last
  is where `team` says with the digest in `applied` (`Team`). `PathFound` and
  `PathIsFile` give what `collectionPath` returns, from `LeastExists` (the first
  file of the folder with the name), `FolderHolds` what a change of
  one file does; then one lemma per action.
- `HttpReaderProofs!ReaderTyped`, `DevicesProofs!DevicesTyped`: the types, from the
  same invariants as below and above.
- `DevicesProofs!DevicesNeverLeave`, `DeviceReturns`: for any number of sources
  and settings. One lemma for each function of devices.go (`StripRemoves`,
  `InjectRestores`, `MergeRecords`); `DevicesInv` adds that a machine records
  only its own devices and that what it had at the last capture is on record.

### One publisher

`SinglePublisherProofs` is about what two publishers, or one cut at the wrong
place, do break. Its theorems have two hypotheses. `OneWriter` is the assumption of
the project's README.md (line 106, "un seul publieur"). `MovesAreWhole` excludes the
stop of the process between the two halves of `sftpWriter.Move`, and nothing
else: it is the crash of the run `restarted`, after which the hosting looks as if
nothing had ever been published. Every other crash and failure is covered; over
FTP, where the rename is one command, it says nothing (`FtpMovesAreWhole`).

- `UpToDateSame`, `ReplacesItsBase`, `FirstIsFirst`, `PromiseKept`: from
  `PublisherInv`. Versions are numbered without gap (`Numbered`) and the manifest
  online is the last one published, or the one being renamed (`OnlineIsLast`).
  `PublicationOK` says that from the reading of the manifest to the rename the
  publisher works on the last version, that it is the one its machine had
  recorded, and that what is staged is the next one. `RecordOK` says that what a
  machine recorded is a version with a digest of its scenes, and not a later one
  than the reception under way. `FirstIsFirst` is the property that `restarted`
  violates, under the hypothesis that excludes its crash.
- `ServedAsPublished`: from `ScenesInv` (the collection online is that of the
  manifest, or of the publication that has sent it) and `AssetsInv` (what a
  publication does not send is online already, what it has sent is there, and
  what it is to send is on its disk as in the inventory). The last part needs that
  nobody saves an asset between the inventory and its upload, hence `~LiveEdits`:
  otherwise the inventory lists a content that is never sent.
- `ArchivesAreFaithful`: `ArchiveInv` follows both halves of `archive`, which
  archives what it downloads. Hence `~Caches`: an old answer would be archived.
- `RejectionsTransient`: `VerifyInv` says that a file that was downloaded is intact
  if the manifest is still the one that was read and nobody is writing;
  `NeverAgain` says that a publication which ends in between has put another
  manifest online, since its version is a new one. Both hypotheses are needed, for
  the same reasons.

The last three hold, as the properties say, as long as no publication was
interrupted; the run `stale_asset` shows what happens then.

### Paths and profiles

`SharingProofs` proves what functions on sequences of any length return. The
induction is made through the least counterexample: `LeastNumber` is
well-foundedness of the order of the naturals (`WFMin`), and `Climb` goes up an
interval with it. `KeptByLoop` and `Flattened` describe the two loops.

- `EncodersAreKept`: for any profiles that are sequences of lines
  (`ProfilesAreLines`). `SetSectionRewrites` says what `iniSetSection` makes of a
  file: its lines, some with another value, and new lines put in at one place,
  none of them a heading unless the section is missing. `SectionsStay` says that
  this leaves every line in its section, `KeptInsert` that filtering then gives
  the same, `OwnLinesStay` puts them together.
- `CanvasIsShared`: `CanvasWritten` says that what `ApplyCanvas` writes is what
  `ReadCanvas` reads. It needs that no profile has two lines for a key of the
  canvas in [Video] (`CanvasesAreSet`): the writer replaces the first and adds
  nothing, while the reader takes the last, so such a file would keep its old
  canvas. OBS writes each key once. `CanvasInv` adds that this stays so
  (`OnceInv`), that versions only grow (`VersionsInv`), and that whoever
  is in step with a complete canvas has a complete one (`ValidInv`): an incomplete
  canvas is not applied.
- `OverlayIsShared`: `RoundTrip` says that `Tokenize` undoes `Expand` on every
  machine, for what a machine of the team can have published. `OverlayInv` says
  that each path shown is in the folder of its machine, or in that of nobody, and
  that who is in step would publish what is online. The hypothesis
  `PathsAreTexts` says what users type: a folder that is not empty, no token typed
  by hand, no second separator at the end, no path in the folder of another
  machine, and no absolute path that `ressembleÀUnChemin` does not take for one (`file://`, a
  case of the list above). A path in the folder of another machine cannot be
  shared: it is tokenised there and not here. `HasFolder` is the text prefix of
  the code, so that a sibling folder with a longer name is covered.

The hypotheses hold in the instance of the run `sharing`.

### What is not proved

Every invariant and every action property of the passing runs is stated by a
theorem. `MembersConverge`, `CallReturns` and `DockSettles` are only model-checked:
liveness under fairness is out of the prover's reach.

## Not modelled

The first-launch wizard (console input), the launcher (starts a process), the
layout of the dock, JSON encoding, logging, `FindPaths`, `Probe`, and the vendored
FTP, SFTP and SSH clients, seen only through what `Put` and `Move` do with them.
The connection of the writers and `known-hosts.json` (sftp.go:122), which is
rewritten in place: every later connection fails on a file that was cut. In
`Sharing` one text stands for all of a collection and one size for the four of a
canvas; in `Folded` small letters are as long as capitals.

## Plan

1. Done: reception, publication and sessions with their promise; HTTP reader;
   devices; dock; collection files and backups; paths and canvas.
2. Left to model: `KnownHosts`, the first contact with an SFTP server and the
   crash while its file is rewritten; the shutdown of the dock after two seconds
   and the state read while `Publish` writes `Cfg`.
3. Left to prove, with what is modelled next: that an SFTP connection trusts the
   key it met first.
