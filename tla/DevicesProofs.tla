--------------------------- MODULE DevicesProofs ---------------------------
(***************************************************************************)
(* Proofs about Devices: devices stay on their machine and come back, for  *)
(* any team, any sources and any number of settings.                       *)
(***************************************************************************)
EXTENDS Devices, TLAPS

\* What a machine records are its own devices: Extract takes them from its
\* own collection, which has no others.
RecordsAreOwn ==
  overrides \in [Machines -> [Sources -> [Keys -> AllDevices \cup {Unset}]]]
  /\ \A m \in Machines, s \in Sources, k \in Keys :
       overrides[m][s][k] \in Own[m] \cup {Unset}

\* A device that was in the collection when OBS closed is on record.
RecordsAreKept ==
  \A m \in Machines, s \in Sources, k \in Keys :
    chosen[m][s][k] \in Own[m] => overrides[m][s][k] = chosen[m][s][k]

DevicesInv == TypeOK /\ RecordsAreOwn /\ DevicesStayHome /\ RecordsAreKept

(* The four functions of devices.go *)

\* StripLocal leaves no device, whatever the collection has.
LEMMA StripRemoves ==
  ASSUME NEW c \in Collection(AllValues)
  PROVE  /\ Strip(c) \in Collection(AllValues)
         /\ \A s \in Present(Strip(c)), k \in Keys :
              Strip(c)[s][k] \notin AllDevices
<1> DEFINE R(s) == [k \in Keys |-> IF IsPortable(c[s][k]) THEN c[s][k] ELSE Unset]
<1>1. {Default, Unset} \cap AllDevices = {}
  BY DevicesAssumption DEF AllDevices
<1>2. ASSUME NEW s \in Sources
      PROVE  /\ R(s) \in [Keys -> AllValues]
             /\ \A k \in Keys : R(s)[k] \in {Default, Unset}
  BY DEF AllValues, IsPortable
<1>3. \A s \in Sources : Strip(c)[s] = IF c[s] = Gone THEN Gone ELSE R(s)
  BY DEF Strip
<1>4. Strip(c) \in Collection(AllValues)
  <2> HIDE DEF R
  <2>1. Strip(c) = [s \in Sources |-> Strip(c)[s]]
    BY DEF Strip
  <2>2. \A s \in Sources : Strip(c)[s] \in [Keys -> AllValues] \cup {Gone}
    BY <1>2, <1>3
  <2> QED BY <2>1, <2>2 DEF Collection
<1>5. ASSUME NEW s \in Present(Strip(c)), NEW k \in Keys
      PROVE  Strip(c)[s][k] \notin AllDevices
  <2> HIDE DEF R
  <2>1. s \in Sources /\ Strip(c)[s] = R(s)
    BY <1>3 DEF Present
  <2> QED BY <2>1, <1>1, <1>2
<1> QED BY <1>4, <1>5

\* Apply puts the record of the machine in place, and a collection without
\* devices gets none but those of the record.
LEMMA InjectRestores ==
  ASSUME NEW c \in Collection(AllValues),
         NEW D \in SUBSET AllDevices,
         NEW mine \in [Sources -> [Keys -> AllDevices \cup {Unset}]],
         \A s \in Sources, k \in Keys : mine[s][k] \in D \cup {Unset}
  PROVE  /\ Inject(c, mine) \in Collection(AllValues)
         /\ \A s \in Present(Inject(c, mine)), k \in Keys :
              Inject(c, mine)[s][k] \in D \cup {Default, Empty, Unset}
         /\ \A s \in Present(c), k \in Keys :
              mine[s][k] # Unset => Inject(c, mine)[s][k] = mine[s][k]
<1> DEFINE R(s) == [k \in Keys |-> IF mine[s][k] # Unset THEN mine[s][k]
                           ELSE IF IsPortable(c[s][k]) THEN c[s][k] ELSE Unset]
<1>1. ASSUME NEW s \in Sources
      PROVE  /\ R(s) \in [Keys -> AllValues]
             /\ \A k \in Keys : R(s)[k] \in D \cup {Default, Empty, Unset}
             /\ \A k \in Keys : mine[s][k] # Unset => R(s)[k] = mine[s][k]
  BY DEF AllValues, IsPortable
<1>2. \A s \in Sources : Inject(c, mine)[s] = IF c[s] = Gone THEN Gone ELSE R(s)
  BY DEF Inject
<1> HIDE DEF R
<1>3. Inject(c, mine) \in Collection(AllValues)
  <2>1. Inject(c, mine) = [s \in Sources |-> Inject(c, mine)[s]]
    BY DEF Inject
  <2>2. \A s \in Sources : Inject(c, mine)[s] \in [Keys -> AllValues] \cup {Gone}
    BY <1>1, <1>2
  <2> QED BY <2>1, <2>2 DEF Collection
<1>4. ASSUME NEW s \in Present(Inject(c, mine)), NEW k \in Keys
      PROVE  Inject(c, mine)[s][k] \in D \cup {Default, Empty, Unset}
  <2>1. s \in Sources /\ Inject(c, mine)[s] = R(s)
    BY <1>2 DEF Present
  <2> QED BY <2>1, <1>1
<1>5. ASSUME NEW s \in Present(c), NEW k \in Keys, mine[s][k] # Unset
      PROVE  Inject(c, mine)[s][k] = mine[s][k]
  <2>1. s \in Sources /\ Inject(c, mine)[s] = R(s)
    BY <1>2 DEF Present
  <2> QED BY <2>1, <1>1, <1>5
<1> QED BY <1>3, <1>4, <1>5

\* Merge and Extract: what goes into the record are devices of the
\* collection, all of them, and what was there before.
LEMMA MergeRecords ==
  ASSUME NEW D \in SUBSET AllDevices,
         NEW c \in Collection(AllValues),
         \A s \in Present(c), k \in Keys : c[s][k] \in D \cup {Default, Empty, Unset},
         NEW mine \in [Sources -> [Keys -> AllDevices \cup {Unset}]],
         \A s \in Sources, k \in Keys : mine[s][k] \in D \cup {Unset}
  PROVE  /\ Merge(mine, c) \in [Sources -> [Keys -> AllDevices \cup {Unset}]]
         /\ \A s \in Sources, k \in Keys : Merge(mine, c)[s][k] \in D \cup {Unset}
         /\ \A s \in Present(c), k \in Keys :
              c[s][k] \in D => Merge(mine, c)[s][k] = c[s][k]
         /\ \A s \in Sources : c[s] = Gone => Merge(mine, c)[s] = mine[s]
<1>1. {Default, Empty, Unset} \cap D = {}
  BY DevicesAssumption DEF AllDevices
<1>2. ASSUME NEW s \in Present(c)
      PROVE  /\ Captured(c[s]) \in [Keys -> AllDevices \cup {Unset}]
             /\ \A k \in Keys : Captured(c[s])[k] \in D \cup {Unset}
             /\ \A k \in Keys : c[s][k] \in D => Captured(c[s])[k] = c[s][k]
  BY <1>1 DEF Captured, IsEmpty
<1>3. ASSUME NEW s \in Present(c), NEW k \in Keys, c[s][k] \in D
      PROVE  Captured(c[s]) # AllUnset
  BY <1>1, <1>2, <1>3 DEF AllUnset
<1>4. \A s \in Sources :
        Merge(mine, c)[s] = IF c[s] # Gone /\ Captured(c[s]) # AllUnset
                            THEN Captured(c[s]) ELSE mine[s]
  BY DEF Merge
<1>5. Merge(mine, c) = [s \in Sources |-> Merge(mine, c)[s]]
  BY DEF Merge
<1>6. ASSUME NEW s \in Sources
      PROVE  /\ Merge(mine, c)[s] \in [Keys -> AllDevices \cup {Unset}]
             /\ \A k \in Keys : Merge(mine, c)[s][k] \in D \cup {Unset}
  <2>1. CASE c[s] # Gone /\ Captured(c[s]) # AllUnset
    BY <2>1, <1>2, <1>4 DEF Present
  <2>2. CASE ~(c[s] # Gone /\ Captured(c[s]) # AllUnset)
    BY <2>2, <1>4
  <2> QED BY <2>1, <2>2
<1>7. ASSUME NEW s \in Present(c), NEW k \in Keys, c[s][k] \in D
      PROVE  Merge(mine, c)[s][k] = c[s][k]
  BY <1>2, <1>3, <1>4, <1>7 DEF Present
<1> QED BY <1>4, <1>5, <1>6, <1>7

(* The sessions *)

LEMMA DevicesInit == Init => DevicesInv
<1> SUFFICES ASSUME Init PROVE DevicesInv
  OBVIOUS
<1>1. [s \in Sources |-> Gone] \in Collection(AllValues)
  BY DEF Collection
<1>2. AllUnset \in [Keys -> {Unset}] /\ \A k \in Keys : AllUnset[k] = Unset
  BY DEF AllUnset
<1>3. TypeOK
  BY <1>1, <1>2 DEF Init, TypeOK, AllValues
<1>4. RecordsAreOwn
  BY <1>2 DEF Init, RecordsAreOwn
<1>5. DevicesStayHome
  BY DEF Init, DevicesStayHome, Present
<1>6. RecordsAreKept
  BY <1>2 DEF Init, RecordsAreKept
<1> QED BY <1>3, <1>4, <1>5, <1>6 DEF DevicesInv

\* The devices of a machine are devices, and name none of the other values.
LEMMA OwnDevices ==
  ASSUME NEW m \in Machines
  PROVE  /\ Own[m] \in SUBSET AllDevices
         /\ {Default, Empty, Unset} \cap Own[m] = {}
  BY DevicesAssumption DEF AllDevices

LEMMA ReceiveDevices ==
  ASSUME DevicesInv, NEW m \in Machines, Receive(m)
  PROVE  DevicesInv'
<1> USE DEF DevicesInv
<1> DEFINE new == Inject(team, overrides[m])
<1>1. /\ team \in Collection(AllValues)
      /\ overrides[m] \in [Sources -> [Keys -> AllDevices \cup {Unset}]]
      /\ \A s \in Sources, k \in Keys : overrides[m][s][k] \in Own[m] \cup {Unset}
  BY DEF TypeOK, RecordsAreOwn
<1>2. /\ new \in Collection(AllValues)
      /\ \A s \in Present(new), k \in Keys : new[s][k] \in Own[m] \cup {Default, Empty, Unset}
  BY <1>1, OwnDevices, InjectRestores
<1>3. /\ local' = [local EXCEPT ![m] = new]
      /\ pc' = [pc EXCEPT ![m] = "obs"]
      /\ UNCHANGED <<team, overrides, chosen>>
  BY DEF Receive
<1> HIDE DEF new
<1>4. TypeOK'
  BY <1>2, <1>3 DEF TypeOK
<1>5. RecordsAreOwn' /\ RecordsAreKept'
  BY <1>3 DEF RecordsAreOwn, RecordsAreKept
<1>6. DevicesStayHome'
  BY <1>2, <1>3 DEF TypeOK, DevicesStayHome, Values
<1> QED BY <1>4, <1>5, <1>6

LEMMA EditDevices ==
  ASSUME DevicesInv, NEW m \in Machines, EditSource(m) \/ PickDevice(m)
  PROVE  DevicesInv'
<1> USE DEF DevicesInv
<1>1. UNCHANGED <<team, overrides, chosen, pc>>
  BY DEF EditSource, PickDevice
<1>2. RecordsAreOwn' /\ RecordsAreKept'
  BY <1>1 DEF RecordsAreOwn, RecordsAreKept
<1>3. local[m] \in Collection(AllValues)
  BY DEF TypeOK
<1>4. PICK new \in Collection(AllValues) :
        /\ local' = [local EXCEPT ![m] = new]
        /\ \A s \in Present(new), k \in Keys : new[s][k] \in Values(m)
  <2>1. CASE EditSource(m)
    <3>1. PICK s \in Sources, v \in {Gone, AllUnset} :
            local' = [local EXCEPT ![m][s] = v]
      BY <2>1 DEF EditSource
    <3> DEFINE new == [local[m] EXCEPT ![s] = v]
    <3>2. local' = [local EXCEPT ![m] = new]
      BY <3>1
    <3>3. AllUnset \in [Keys -> AllValues] /\ \A k \in Keys : AllUnset[k] \in Values(m)
      BY DEF AllUnset, AllValues, Values
    <3>4. new \in Collection(AllValues)
      BY <1>3, <3>1, <3>3 DEF Collection
    <3>5. \A t \in Present(new), k \in Keys : new[t][k] \in Values(m)
      BY <1>3, <3>1, <3>3 DEF Collection, Present, DevicesStayHome
    <3> QED BY <3>2, <3>4, <3>5
  <2>2. CASE PickDevice(m)
    <3>1. PICK s \in Present(local[m]), k \in Keys, v \in Own[m] \cup {Default, Empty} :
            local' = [local EXCEPT ![m][s][k] = v]
      BY <2>2 DEF PickDevice
    <3> DEFINE row == [local[m][s] EXCEPT ![k] = v]
               new == [local[m] EXCEPT ![s] = row]
    <3>2. local' = [local EXCEPT ![m] = new]
      BY <3>1
    <3>3. v \in AllValues /\ v \in Values(m)
      BY <3>1, OwnDevices DEF AllValues, Values
    <3>4. local[m][s] \in [Keys -> AllValues]
      BY <1>3, <3>1 DEF Collection, Present
    <3>5. row \in [Keys -> AllValues] /\ \A j \in Keys : row[j] \in Values(m)
      BY <3>1, <3>3, <3>4 DEF DevicesStayHome
    <3> HIDE DEF row
    <3>6. new \in Collection(AllValues)
      BY <1>3, <3>1, <3>5 DEF Collection, Present
    <3>7. \A t \in Present(new), j \in Keys : new[t][j] \in Values(m)
      BY <1>3, <3>1, <3>5 DEF Collection, Present, DevicesStayHome
    <3> QED BY <3>2, <3>6, <3>7
  <2> QED BY <2>1, <2>2
<1>5. TypeOK'
  BY <1>1, <1>4 DEF TypeOK
<1>6. DevicesStayHome'
  BY <1>1, <1>4 DEF TypeOK, DevicesStayHome, Values
<1> QED BY <1>2, <1>5, <1>6

LEMMA CaptureDevices ==
  ASSUME DevicesInv, NEW m \in Machines, Capture(m)
  PROVE  DevicesInv'
<1> USE DEF DevicesInv
<1> DEFINE mine == overrides[m]
           new  == Merge(mine, local[m])
           pick == [s \in Sources |-> IF local[m][s] = Gone THEN chosen[m][s]
                                      ELSE local[m][s]]
<1>1. /\ local[m] \in Collection(AllValues)
      /\ mine \in [Sources -> [Keys -> AllDevices \cup {Unset}]]
      /\ \A s \in Sources, k \in Keys : mine[s][k] \in Own[m] \cup {Unset}
      /\ \A s \in Present(local[m]), k \in Keys :
           local[m][s][k] \in Own[m] \cup {Default, Empty, Unset}
  BY DEF TypeOK, RecordsAreOwn, DevicesStayHome, Values
<1>2. /\ new \in [Sources -> [Keys -> AllDevices \cup {Unset}]]
      /\ \A s \in Sources, k \in Keys : new[s][k] \in Own[m] \cup {Unset}
      /\ \A s \in Present(local[m]), k \in Keys :
           local[m][s][k] \in Own[m] => new[s][k] = local[m][s][k]
      /\ \A s \in Sources : local[m][s] = Gone => new[s] = mine[s]
  <2> DEFINE D == Own[m]
             c == local[m]
  <2>1. D \in SUBSET AllDevices
    BY OwnDevices
  <2>2. c \in Collection(AllValues)
    BY <1>1
  <2>3. \A s \in Present(c), k \in Keys : c[s][k] \in D \cup {Default, Empty, Unset}
    BY <1>1
  <2>4. \A s \in Sources, k \in Keys : mine[s][k] \in D \cup {Unset}
    BY <1>1
  <2>5. mine \in [Sources -> [Keys -> AllDevices \cup {Unset}]]
    BY <1>1
  <2> HIDE DEF D, c, mine, new, pick
  <2>6. /\ Merge(mine, c) \in [Sources -> [Keys -> AllDevices \cup {Unset}]]
        /\ \A s \in Sources, k \in Keys : Merge(mine, c)[s][k] \in D \cup {Unset}
        /\ \A s \in Present(c), k \in Keys :
             c[s][k] \in D => Merge(mine, c)[s][k] = c[s][k]
        /\ \A s \in Sources : c[s] = Gone => Merge(mine, c)[s] = mine[s]
    BY <2>1, <2>2, <2>3, <2>4, <2>5, MergeRecords
  <2> QED BY <2>6 DEF D, c, new
<1>3. pick \in [Sources -> [Keys -> AllValues]]
  BY <1>1 DEF TypeOK, Collection
<1>4. /\ overrides' = [overrides EXCEPT ![m] = new]
      /\ chosen' = [chosen EXCEPT ![m] = pick]
      /\ pc' = [pc EXCEPT ![m] = "captured"]
      /\ UNCHANGED <<team, local>>
  BY DEF Capture
<1>5. \A s \in Sources, k \in Keys :
        pick[s][k] \in Own[m] => new[s][k] = pick[s][k]
  BY <1>2 DEF Present, RecordsAreKept
<1> HIDE DEF new, pick
<1>6. TypeOK'
  BY <1>2, <1>3, <1>4 DEF TypeOK
<1>7. RecordsAreOwn'
  BY <1>2, <1>4 DEF RecordsAreOwn
<1>8. DevicesStayHome'
  BY <1>4 DEF DevicesStayHome
<1>9. RecordsAreKept'
  BY <1>4, <1>5 DEF TypeOK, RecordsAreKept
<1> QED BY <1>6, <1>7, <1>8, <1>9

LEMMA PublishDevices ==
  ASSUME DevicesInv, NEW m \in Machines, Publish(m)
  PROVE  DevicesInv'
<1> USE DEF DevicesInv
<1> DEFINE new == Strip(local[m])
<1>1. /\ new \in Collection(AllValues)
      /\ \A s \in Present(new), k \in Keys : new[s][k] \notin AllDevices
  BY StripRemoves DEF TypeOK
<1>2. /\ team' = new
      /\ pc' = [pc EXCEPT ![m] = "idle"]
      /\ UNCHANGED <<local, overrides, chosen>>
  BY DEF Publish
<1> HIDE DEF new
<1>3. TypeOK'
  BY <1>1, <1>2 DEF TypeOK
<1>4. DevicesStayHome'
  BY <1>1, <1>2 DEF DevicesStayHome
<1> QED BY <1>2, <1>3, <1>4 DEF RecordsAreOwn, RecordsAreKept

LEMMA DevicesInductive == DevicesInv /\ [Next]_vars => DevicesInv'
<1> SUFFICES ASSUME DevicesInv, [Next]_vars PROVE DevicesInv'
  OBVIOUS
<1>1. CASE UNCHANGED vars
  BY <1>1 DEF vars, DevicesInv, TypeOK, RecordsAreOwn, DevicesStayHome, RecordsAreKept
<1>2. ASSUME NEW m \in Machines,
             Keep(m) \/ Close(m) \/ CaptureFails(m) \/ Quit(m)
      PROVE  DevicesInv'
  <2>1. /\ \E p \in {"idle", "obs", "closed", "captured"} : pc' = [pc EXCEPT ![m] = p]
        /\ UNCHANGED <<team, local, overrides, chosen>>
    BY <1>2 DEF Keep, Close, CaptureFails, Quit
  <2>2. TypeOK'
    BY <2>1 DEF DevicesInv, TypeOK
  <2> QED
    BY <2>1, <2>2 DEF DevicesInv, RecordsAreOwn, DevicesStayHome, RecordsAreKept
<1> QED
  BY <1>1, <1>2, ReceiveDevices, EditDevices, CaptureDevices, PublishDevices DEF Next

LEMMA DevicesInvariant == Spec => []DevicesInv
<1> QED BY DevicesInit, DevicesInductive, PTL DEF Spec

-----------------------------------------------------------------------------

\* Collections, records and history keep their types: overrides holds devices
\* alone, never a default or an empty setting.
THEOREM DevicesTyped == Spec => []TypeOK
<1>1. DevicesInv => TypeOK
  BY DEF DevicesInv
<1> QED BY <1>1, DevicesInvariant, PTL

\* No device identifier is ever served by the hosting or found on another
\* machine, whatever the users pick and whatever fails.
THEOREM DevicesNeverLeave == Spec => []DevicesStayHome
<1>1. DevicesInv => DevicesStayHome
  BY DEF DevicesInv
<1> QED BY <1>1, DevicesInvariant, PTL

\* Every reception puts back the devices that were on record.
LEMMA ReceptionRestores ==
  ASSUME DevicesInv, [Next]_vars
  PROVE  [\A m \in Machines : Receive(m) =>
            \A s \in Present(team), k \in Keys :
              chosen[m][s][k] \in Own[m] => local'[m][s][k] = chosen[m][s][k]]_vars
<1> SUFFICES ASSUME NEW m \in Machines, Receive(m),
                    NEW s \in Present(team), NEW k \in Keys,
                    chosen[m][s][k] \in Own[m]
             PROVE  local'[m][s][k] = chosen[m][s][k]
  OBVIOUS
<1>1. /\ team \in Collection(AllValues)
      /\ overrides[m] \in [Sources -> [Keys -> AllDevices \cup {Unset}]]
      /\ \A t \in Sources, j \in Keys : overrides[m][t][j] \in Own[m] \cup {Unset}
  BY DEF DevicesInv, TypeOK, RecordsAreOwn
<1>2. overrides[m][s][k] = chosen[m][s][k] /\ overrides[m][s][k] # Unset
  BY OwnDevices DEF DevicesInv, RecordsAreKept, Present
<1>3. Inject(team, overrides[m])[s][k] = overrides[m][s][k]
  <2> DEFINE D == Own[m]
             mine == overrides[m]
  <2>1. D \in SUBSET AllDevices /\ mine[s][k] # Unset
    BY <1>2, OwnDevices
  <2>2. /\ mine \in [Sources -> [Keys -> AllDevices \cup {Unset}]]
        /\ \A t \in Sources, j \in Keys : mine[t][j] \in D \cup {Unset}
    BY <1>1
  <2> HIDE DEF D, mine
  <2> SUFFICES Inject(team, mine)[s][k] = mine[s][k]
    BY DEF mine
  <2> QED BY <1>1, <2>1, <2>2, InjectRestores
<1> QED BY <1>2, <1>3 DEF Receive, DevicesInv, TypeOK

\* A device recorded once comes back with every reception, through removals of
\* the source, receptions, publications and failed captures.
THEOREM DeviceReturns == Spec => OwnDeviceComesBack
<1>1. Spec => [][Next]_vars
  BY DEF Spec
<1> QED BY <1>1, DevicesInvariant, ReceptionRestores, PTL DEF OwnDeviceComesBack

=============================================================================
