------------------------------ MODULE Devices ------------------------------
(***************************************************************************)
(* The settings that name a device of one machine (internal/obs/devices.go *)
(* and Engine.CaptureDevices): removed from what is published, recorded    *)
(* when OBS closes, put back into what is received.                        *)
(***************************************************************************)
EXTENDS Naturals

CONSTANTS
  Machines,
  Publishers,
  Sources,    \* names of the hardware sources
  Keys,       \* the settings of a source that name a device
  Own,        \* Own[m]: the devices of machine m
  Default,    \* "default", which names no device
  Empty,      \* ""
  Unset,      \* the setting is not there
  Gone        \* the source is not in the collection

ASSUME DevicesAssumption ==
  /\ Publishers \subseteq Machines
  /\ \A m \in Machines : {Default, Empty, Unset} \cap Own[m] = {}
  /\ \A m, n \in Machines : m # n => Own[m] \cap Own[n] = {}
  /\ Default # Unset /\ Default # Empty /\ Empty # Unset

VARIABLES
  team,       \* the collection online
  local,      \* local[m]: the collection OBS loads on m
  overrides,  \* local-overrides.json of m
  chosen,     \* history: what m had for each setting when last recorded
  pc          \* idle, obs (OBS runs), closed, captured

vars == <<team, local, overrides, chosen, pc>>

AllUnset    == [k \in Keys |-> Unset]
Values(m)   == Own[m] \cup {Default, Empty, Unset}
Collection(V) == [Sources -> [Keys -> V] \cup {Gone}]
AllDevices  == UNION {Own[m] : m \in Machines}
AllValues   == AllDevices \cup {Default, Empty, Unset}

TypeOK ==
  /\ team \in Collection(AllValues)
  /\ local \in [Machines -> Collection(AllValues)]
  /\ overrides \in [Machines -> [Sources -> [Keys -> AllDevices \cup {Unset}]]]
  /\ chosen \in [Machines -> [Sources -> [Keys -> AllValues]]]
  /\ pc \in [Machines -> {"idle", "obs", "closed", "captured"}]

-----------------------------------------------------------------------------

IsPortable(v) == v = Default

\* Mistake: every value that is there is recorded.
OnlyMissing(v) == v = Unset

\* Nothing to record: the setting is missing, empty or portable.
IsEmpty(v) == v \in {Unset, Empty, Default}

Present(c) == {s \in Sources : c[s] # Gone}

\* Mistake: what is published keeps its devices.
KeepsAll(c) == c

\* StripLocal: a value that names a device is removed.
Strip(c) ==
  [s \in Sources |->
     IF c[s] = Gone THEN Gone
     ELSE [k \in Keys |-> IF IsPortable(c[s][k]) THEN c[s][k] ELSE Unset]]

\* Apply: what this machine recorded, else a portable value, else nothing.
Inject(c, mine) ==
  [s \in Sources |->
     IF c[s] = Gone THEN Gone
     ELSE [k \in Keys |-> IF mine[s][k] # Unset THEN mine[s][k]
                           ELSE IF IsPortable(c[s][k]) THEN c[s][k] ELSE Unset]]

\* Extract, for one source.
Captured(settings) ==
  [k \in Keys |-> IF IsEmpty(settings[k]) THEN Unset ELSE settings[k]]

\* Mistake: the record is replaced by what OBS has now.
ForgetsAbsent(mine, c) ==
  [s \in Sources |-> IF c[s] = Gone THEN AllUnset ELSE Captured(c[s])]

\* Merge(overrides, Extract(c)): a source that has something to record
\* replaces its record, every other record stays.
Merge(mine, c) ==
  [s \in Sources |->
     IF c[s] # Gone /\ Captured(c[s]) # AllUnset THEN Captured(c[s])
     ELSE mine[s]]

Init ==
  /\ team = [s \in Sources |-> Gone]
  /\ local = [m \in Machines |-> [s \in Sources |-> Gone]]
  /\ overrides = [m \in Machines |-> [s \in Sources |-> AllUnset]]
  /\ chosen = overrides
  /\ pc = [m \in Machines |-> "idle"]

-----------------------------------------------------------------------------

\* Receive writes the scenes of the team with the devices of this machine.
Receive(m) ==
  /\ pc[m] = "idle"
  /\ local' = [local EXCEPT ![m] = Inject(team, overrides[m])]
  /\ pc'    = [pc EXCEPT ![m] = "obs"]
  /\ UNCHANGED <<team, overrides, chosen>>

\* Nothing to receive, or an error: OBS starts with what is there.
Keep(m) ==
  /\ pc[m] = "idle"
  /\ pc' = [pc EXCEPT ![m] = "obs"]
  /\ UNCHANGED <<team, local, overrides, chosen>>

\* The user adds a source, on no device yet, or removes it.
EditSource(m) ==
  /\ pc[m] = "obs"
  /\ \E s \in Sources, v \in {Gone, AllUnset} :
       /\ (v = Gone) # (local[m][s] = Gone)
       /\ local' = [local EXCEPT ![m][s] = v]
  /\ UNCHANGED <<team, overrides, chosen, pc>>

PickDevice(m) ==
  /\ pc[m] = "obs"
  /\ \E s \in Present(local[m]), k \in Keys, v \in Own[m] \cup {Default, Empty} :
       local' = [local EXCEPT ![m][s][k] = v]
  /\ UNCHANGED <<team, overrides, chosen, pc>>

Close(m) ==
  /\ pc[m] = "obs"
  /\ pc' = [pc EXCEPT ![m] = "closed"]
  /\ UNCHANGED <<team, local, overrides, chosen>>

\* CaptureDevices, first thing after OBS.
Capture(m) ==
  /\ pc[m] = "closed"
  /\ overrides' = [overrides EXCEPT ![m] = Merge(@, local[m])]
  /\ chosen' = [chosen EXCEPT ![m] =
       [s \in Sources |-> IF local[m][s] = Gone THEN @[s] ELSE local[m][s]]]
  /\ pc' = [pc EXCEPT ![m] = "captured"]
  /\ UNCHANGED <<team, local>>

\* The collection or local-overrides.json could not be read or written: the
\* session goes on without it.
CaptureFails(m) ==
  /\ pc[m] = "closed"
  /\ pc' = [pc EXCEPT ![m] = "captured"]
  /\ UNCHANGED <<team, local, overrides, chosen>>

\* The payload of Publish has no device in it.
Publish(m) ==
  /\ pc[m] = "captured" /\ m \in Publishers
  /\ team' = Strip(local[m])
  /\ pc'   = [pc EXCEPT ![m] = "idle"]
  /\ UNCHANGED <<local, overrides, chosen>>

\* The session ends without a publication, or the agent is killed.
Quit(m) ==
  /\ pc[m] # "idle"
  /\ pc' = [pc EXCEPT ![m] = "idle"]
  /\ UNCHANGED <<team, local, overrides, chosen>>

Next == \E m \in Machines :
  \/ Receive(m) \/ Keep(m) \/ EditSource(m) \/ PickDevice(m) \/ Close(m)
  \/ Capture(m) \/ CaptureFails(m) \/ Publish(m) \/ Quit(m)

Spec == Init /\ [][Next]_vars

-----------------------------------------------------------------------------

\* No machine ever holds, and the hosting never serves, a device of another
\* machine: README, "Webcam, micro, capture d'ecran ou de fenetre: local".
DevicesStayHome ==
  /\ \A s \in Present(team), k \in Keys : team[s][k] \notin AllDevices
  /\ \A m \in Machines : \A s \in Present(local[m]), k \in Keys :
       local[m][s][k] \in Values(m)

\* A device recorded once comes back with every reception, also when the source
\* left the collection in between, unless the source has another one since.
OwnDeviceComesBack ==
  [][\A m \in Machines : Receive(m) =>
       \A s \in Present(team), k \in Keys :
         chosen[m][s][k] \in Own[m] => local'[m][s][k] = chosen[m][s][k]]_vars

=============================================================================
