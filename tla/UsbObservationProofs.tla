------------------------- MODULE UsbObservationProofs -------------------------
(***************************************************************************)
(* Proofs about UsbObservation, for any letters, volumes and names and for *)
(* any limits of the lists.                                                *)
(*                                                                         *)
(* The baseline of the observer is compared with the events a reader of    *)
(* the summary has: the latest event of a file, if there is one, and the   *)
(* files of the scan a device appeared in otherwise, agree with the last   *)
(* scan, because an event is reported exactly for what differs between two *)
(* scans.  That needs one drive to a letter, since files are compared by   *)
(* their letter.                                                           *)
(***************************************************************************)
EXTENDS UsbObservation, TLAPS

\* A partial function is a function on a part of the set.
LEMMA PartialIs ==
  ASSUME NEW S, NEW T, NEW f
  PROVE  f \in PartialFunctions(S, T) <=> \E D \in SUBSET S : f \in [D -> T]
  BY DEF PartialFunctions

\* The empty function is a partial one.
LEMMA PartialEmpty ==
  ASSUME NEW S, NEW T
  PROVE  <<>> \in PartialFunctions(S, T) /\ DOMAIN <<>> = {}
<1>1. <<>> \in [{} -> T]
  OBVIOUS
<1> QED BY <1>1, PartialIs

-----------------------------------------------------------------------------
\* The drives.

\* A volume and files on it make a drive.
LEMMA DriveIs ==
  ASSUME NEW v \in Volumes, NEW fs \in SUBSET Names
  PROVE  [volume |-> v, files |-> fs] \in Drives
<1>1. [volume |-> v, files |-> fs] \in {[volume |-> v, files |-> x] : x \in SUBSET Names}
  OBVIOUS
<1> QED BY <1>1 DEF Drives

\* A drive is plugged in, pulled out or changed: the drives keep their type.
LEMMA WorldKept ==
  ASSUME mounted \in PartialFunctions(Letters, Drives), NEW l \in Letters, NEW new,
         \/ \E drive \in Drives :
              new = [k \in DOMAIN mounted \cup {l} |-> IF k = l THEN drive ELSE mounted[k]]
         \/ new = [k \in DOMAIN mounted \ {l} |-> mounted[k]]
         \/ \E n \in Names :
              /\ l \in DOMAIN mounted
              /\ new = [mounted EXCEPT ![l].files = IF n \in @ THEN @ \ {n} ELSE @ \cup {n}]
  PROVE  new \in PartialFunctions(Letters, Drives)
<1>1. PICK D \in SUBSET Letters : mounted \in [D -> Drives]
  BY PartialIs
<1>2. \A k \in D : mounted[k].volume \in Volumes /\ mounted[k].files \in SUBSET Names
  BY <1>1 DEF Drives
<1>3. ASSUME NEW drive \in Drives,
             new = [k \in DOMAIN mounted \cup {l} |-> IF k = l THEN drive ELSE mounted[k]]
      PROVE  new \in PartialFunctions(Letters, Drives)
  <2>1. D \cup {l} \in SUBSET Letters /\ new \in [D \cup {l} -> Drives]
    BY <1>1, <1>3
  <2> QED BY <2>1, PartialIs
<1>4. CASE new = [k \in DOMAIN mounted \ {l} |-> mounted[k]]
  <2>1. D \ {l} \in SUBSET Letters /\ new \in [D \ {l} -> Drives]
    BY <1>1, <1>4
  <2> QED BY <2>1, PartialIs
<1>5. ASSUME NEW n \in Names, l \in DOMAIN mounted,
             new = [mounted EXCEPT ![l].files = IF n \in @ THEN @ \ {n} ELSE @ \cup {n}]
      PROVE  new \in PartialFunctions(Letters, Drives)
  <2>1. \A k \in D : mounted[k] = [volume |-> mounted[k].volume, files |-> mounted[k].files]
    BY <1>1 DEF Drives
  <2> DEFINE fs == IF n \in mounted[l].files THEN mounted[l].files \ {n} ELSE mounted[l].files \cup {n}
  <2>2. fs \in SUBSET Names
    BY <1>1, <1>2, <1>5
  <2>3. new = [mounted EXCEPT ![l] = [volume |-> mounted[l].volume, files |-> fs]]
    <3>1. new = [mounted EXCEPT ![l] = [mounted[l] EXCEPT !.files = fs]]
      BY <1>5
    <3>2. mounted[l] = [volume |-> mounted[l].volume, files |-> mounted[l].files]
      BY <1>1, <1>5, <2>1
    <3> HIDE DEF fs
    <3>3. [mounted[l] EXCEPT !.files = fs] = [volume |-> mounted[l].volume, files |-> fs]
      BY <3>2
    <3> QED BY <3>1, <3>3
  <2>4. [volume |-> mounted[l].volume, files |-> fs] \in Drives
    <3>1. mounted[l].volume \in Volumes
      BY <1>1, <1>2, <1>5
    <3> HIDE DEF fs
    <3> QED BY <2>2, <3>1, DriveIs
  <2>5. new \in [D -> Drives]
    BY <1>1, <2>3, <2>4
  <2> QED BY <2>5, PartialIs
<1> QED BY <1>3, <1>4, <1>5

-----------------------------------------------------------------------------
\* A scan and its observation.

\* What the first elements of a list are: some of it.
LEMMA CutIsPart ==
  ASSUME NEW S, NEW limit, NEW part \in Cut(S, limit)
  PROVE  part \subseteq S
  BY DEF Cut, kSubset

\* A scan finds mounted drives, one to a letter, and files on them.
LEMMA ScanIs ==
  ASSUME mounted \in PartialFunctions(Letters, Drives), NEW scan \in Scans
  PROVE  /\ scan.devices \subseteq Devices /\ scan.files \subseteq Files
         /\ \A d, e \in scan.devices : d.letter = e.letter => d = e
         /\ \A f \in scan.files : f.device \in scan.devices
         /\ scan.truncated \in BOOLEAN
<1>1. PICK D \in SUBSET Letters : mounted \in [D -> Drives]
  BY PartialIs
<1>2. PICK ls \in {D, {}} : \E readable \in SUBSET FilesOn(ls) : scan \in ScansOf(ls, readable)
  BY <1>1 DEF Scans
<1>3. PICK readable \in SUBSET FilesOn(ls) : scan \in ScansOf(ls, readable)
  BY <1>2
<1>4. PICK fs \in Cut(readable, ScanLimit) :
        scan = [devices |-> {Device(l) : l \in ls}, files |-> fs,
                truncated |-> Cardinality(readable) > ScanLimit]
  BY <1>3 DEF ScansOf
<1>5. fs \subseteq FilesOn(ls)
  BY <1>4, CutIsPart
<1>6. /\ scan.devices = {Device(l) : l \in ls} /\ scan.files \subseteq FilesOn(ls)
      /\ scan.truncated \in BOOLEAN
  BY <1>4, <1>5
<1>7. \A l \in ls : /\ Device(l) \in Devices /\ Device(l).letter = l
                    /\ mounted[l].files \subseteq Names
  BY <1>1, <1>2 DEF Device, Devices, Drives
<1>8. \A f \in FilesOn(ls) : f \in Files /\ \E l \in ls : f.device = Device(l)
  BY <1>7 DEF FilesOn, Files
<1> QED BY <1>6, <1>7, <1>8

\* What ScanIs says of a scan, by name.
GoodScan(scan) ==
  /\ scan.devices \subseteq Devices /\ scan.files \subseteq Files
  /\ \A d, e \in scan.devices : d.letter = e.letter => d = e
  /\ \A f \in scan.files : f.device \in scan.devices
  /\ scan.truncated \in BOOLEAN

\* Files are compared by letter and name, which tells the files of one scan apart.
LEMMA SameKey ==
  ASSUME NEW f \in Files, NEW g \in Files, f.device.letter = g.device.letter => f.device = g.device
  PROVE  Key(f) = Key(g) <=> f = g
  BY DEF Key, Files

\* The events are those of the files of a drive that is there in both scans, and
\* that only one of them has.
LEMMA EventsAre ==
  ASSUME ScanInv, files \subseteq Files, devices \subseteq Devices, NEW scan, GoodScan(scan)
  PROVE  /\ FileEvents(scan) \subseteq Events
         /\ \A e \in FileEvents(scan) : e.file \in files <=> e.operation # "added"
         /\ \A e \in FileEvents(scan) : e.file \in scan.files <=> e.operation = "added"
         /\ \A d \in devices \cap scan.devices, n \in Names :
              (File(d, n) \in files <=> File(d, n) \notin scan.files) =>
                \E e \in FileEvents(scan) : e.file = File(d, n)
<1>1. \A e \in FileEvents(scan) :
        \/ e = [operation |-> "added", file |-> e.file] /\ e.file \in Added(scan)
        \/ e = [operation |-> "deleted", file |-> e.file] /\ e.file \in Deleted(scan)
  BY DEF FileEvents
<1>2. \A f \in Added(scan) : f \in scan.files /\ f \notin files
  BY DEF Added, Keys
<1>3. \A f \in Deleted(scan) : f \in files /\ f \notin scan.files
  BY DEF Deleted, Keys
<1>4. FileEvents(scan) \subseteq Events
  BY <1>1, <1>2, <1>3 DEF Events, GoodScan
<1>5. \A e \in FileEvents(scan) : /\ e.file \in files <=> e.operation # "added"
                                  /\ e.file \in scan.files <=> e.operation = "added"
  BY <1>1, <1>2, <1>3
<1>6. ASSUME NEW d \in devices \cap scan.devices, NEW n \in Names,
             File(d, n) \in files <=> File(d, n) \notin scan.files
      PROVE  \E e \in FileEvents(scan) : e.file = File(d, n)
  <2> DEFINE f == File(d, n)
  <2>1. f \in Files /\ f.device = d /\ baseline
    BY DEF File, Files, ScanInv
  <2>2. \A g \in files : Key(f) = Key(g) <=> f = g
    <3> TAKE g \in files
    <3>1. g \in Files /\ g.device \in devices
      BY DEF ScanInv
    <3>2. f.device.letter = g.device.letter => f.device = g.device
      BY <2>1, <3>1 DEF ScanInv
    <3> QED BY <2>1, <3>1, <3>2, SameKey
  <2>3. \A g \in scan.files : Key(f) = Key(g) <=> f = g
    <3> TAKE g \in scan.files
    <3>1. g \in Files /\ g.device \in scan.devices
      BY DEF GoodScan
    <3>2. f.device.letter = g.device.letter => f.device = g.device
      BY <2>1, <3>1 DEF GoodScan
    <3> QED BY <2>1, <3>1, <3>2, SameKey
  <2> HIDE DEF f
  <2>4. CASE f \in files
    <3>1. f \in Deleted(scan)
      <4>1. f \notin scan.files /\ d \in scan.devices
        BY <1>6, <2>4 DEF f
      <4>2. Key(f) \notin Keys(scan.files)
        BY <2>3, <4>1 DEF Keys
      <4> QED BY <2>1, <2>4, <4>1, <4>2 DEF Deleted
    <3>2. [operation |-> "deleted", file |-> f] \in FileEvents(scan)
      BY <2>1, <3>1 DEF FileEvents
    <3> QED BY <3>2 DEF f
  <2>5. CASE f \notin files
    <3>1. f \in scan.files
      BY <1>6, <2>5 DEF f
    <3>2. f \in Added(scan)
      BY <2>1, <2>2, <2>5, <3>1 DEF Added, Keys
    <3>3. [operation |-> "added", file |-> f] \in FileEvents(scan)
      BY <2>1, <3>2 DEF FileEvents
    <3> QED BY <3>3 DEF f
  <2> QED BY <2>4, <2>5
<1> QED BY <1>4, <1>5, <1>6

\* An observation is flagged unless it has every device and every event.
LEMMA ObservationIs ==
  ASSUME ScanInv, files \subseteq Files, devices \subseteq Devices, NEW scan, GoodScan(scan),
         NEW observation \in Observe(scan)
  PROVE  /\ observation \in Observations
         /\ ~observation.truncated => /\ observation.devices = DeviceList(scan)
                                      /\ observation.events = FileEvents(scan)
<1>1. PICK ds \in Cut(DeviceList(scan), DeviceLimit), es \in Cut(FileEvents(scan), EventLimit) :
        observation = [devices |-> ds, events |-> es,
                       truncated |-> scan.truncated \/ ds # DeviceList(scan) \/ es # FileEvents(scan)]
  BY DEF Observe
<1>2. ds \subseteq DeviceList(scan) /\ es \subseteq FileEvents(scan)
  BY <1>1, CutIsPart
<1>3. DeviceList(scan) \subseteq [device : Devices, connected : BOOLEAN]
  <2>1. scan.devices \subseteq Devices
    BY DEF GoodScan
  <2> DEFINE Entries == [device : Devices, connected : BOOLEAN]
  <2>2. \A d \in Devices : /\ [device |-> d, connected |-> TRUE] \in Entries
                           /\ [device |-> d, connected |-> FALSE] \in Entries
    OBVIOUS
  <2> HIDE DEF Entries
  <2>3. \A e \in DeviceList(scan) : \E d \in Devices :
          e = [device |-> d, connected |-> TRUE] \/ e = [device |-> d, connected |-> FALSE]
    BY <2>1 DEF DeviceList
  <2>4. DeviceList(scan) \subseteq Entries
    BY <2>2, <2>3
  <2> QED BY <2>4 DEF Entries
<1>4. FileEvents(scan) \subseteq Events
  BY EventsAre
<1> QED BY <1>1, <1>2, <1>3, <1>4 DEF Observations

-----------------------------------------------------------------------------
\* What one more observation changes for a reader.

\* The events of a file after an observation, in any list of observations.
On(rec, from, f) ==
  {x \in (DOMAIN rec) \X Events : x[2] \in rec[x[1]].events /\ x[1] > from /\ x[2].file = f}

\* The observations with an entry of a device, in any list of observations.
With(rec, d) == {i \in DOMAIN rec : \E e \in rec[i].devices : e.device = d}

\* What SummaryShowsDevices says of one device, by its last entry.
Shown(rec, d, now) ==
  \/ With(rec, d) = {} /\ d \notin now
  \/ \E i \in With(rec, d) :
       /\ \A j \in With(rec, d) : j <= i
       /\ [device |-> d, connected |-> TRUE] \in rec[i].devices <=> d \in now

\* The readings of the state are those of the recorded observations.
LEMMA Readings ==
  /\ \A d, n : EventsOn(d, n) = On(recorded, start[d].at, File(d, n))
  /\ \A d : Occurrences(d) = With(recorded, d)
  /\ LastSeenInv <=> \A d \in Devices \ forgotten : Shown(recorded, d, devices)
  BY DEF EventsOn, SummaryFileEvents, On, File, Occurrences, With, LastSeenInv, Shown

\* What an appended observation is to the list.
LEMMA Appended ==
  ASSUME NEW rec \in Seq(Observations), NEW o \in Observations
  PROVE  LET more == Append(rec, o)
         IN  /\ more \in Seq(Observations) /\ Len(more) = Len(rec) + 1 /\ Len(rec) \in Nat
             /\ DOMAIN rec = 1..Len(rec) /\ DOMAIN more = 1..Len(rec) + 1
             /\ \A i \in 1..Len(rec) : more[i] = rec[i]
             /\ more[Len(rec) + 1] = o
  OBVIOUS

\* The events of a file after one more observation.
LEMMA AppendedEvents ==
  ASSUME NEW rec \in Seq(Observations), NEW o \in Observations,
         NEW from \in Nat, from <= Len(rec), NEW f
  PROVE  /\ \A x \in On(Append(rec, o), from, f) :
              \/ x \in On(rec, from, f)
              \/ x[1] = Len(rec) + 1 /\ x = <<x[1], x[2]>> /\ x[2] \in o.events /\ x[2].file = f
         /\ On(rec, from, f) \subseteq On(Append(rec, o), from, f)
         /\ \A e \in o.events : e.file = f => <<Len(rec) + 1, e>> \in On(Append(rec, o), from, f)
         /\ \A x \in On(rec, from, f) : x[1] \in 1..Len(rec)
<1> DEFINE more == Append(rec, o)
           k == Len(rec) + 1
<1>1. /\ Len(rec) \in Nat /\ DOMAIN rec = 1..Len(rec) /\ DOMAIN more = 1..k
      /\ \A i \in 1..Len(rec) : more[i] = rec[i]
      /\ more[k] = o /\ o.events \subseteq Events
  BY Appended DEF Observations
<1> HIDE DEF more
<1>2. ASSUME NEW x \in On(more, from, f)
      PROVE  \/ x \in On(rec, from, f)
             \/ x[1] = k /\ x = <<x[1], x[2]>> /\ x[2] \in o.events /\ x[2].file = f
  <2>1. /\ x \in (1..k) \X Events /\ x[1] \in 1..k /\ x = <<x[1], x[2]>> /\ x[2] \in Events
        /\ x[2] \in more[x[1]].events /\ x[1] > from /\ x[2].file = f
    BY <1>1 DEF On
  <2>2. CASE x[1] = k
    BY <1>1, <2>1, <2>2
  <2>3. CASE x[1] # k
    <3>1. x[1] \in 1..Len(rec) /\ x \in (DOMAIN rec) \X Events
      BY <1>1, <2>1, <2>3
    <3> QED BY <1>1, <2>1, <3>1 DEF On
  <2> QED BY <2>2, <2>3
<1>3. \A x \in On(rec, from, f) : x[1] \in 1..Len(rec)
  BY <1>1 DEF On
<1>4. ASSUME NEW x \in On(rec, from, f)
      PROVE  x \in On(more, from, f)
  <2>1. /\ x \in (1..Len(rec)) \X Events /\ x[1] \in 1..Len(rec)
        /\ x[2] \in rec[x[1]].events /\ x[1] > from /\ x[2].file = f
    BY <1>1 DEF On
  <2>2. x \in (1..k) \X Events
    BY <1>1, <2>1
  <2> QED BY <1>1, <2>1, <2>2 DEF On
<1>5. ASSUME NEW e \in o.events, e.file = f
      PROVE  <<k, e>> \in On(more, from, f)
  BY <1>1, <1>5 DEF On
<1> QED BY <1>2, <1>3, <1>4, <1>5 DEF more

\* An observation with every event explains the files of its scan, if those before
\* it explained the files of the last one.
LEMMA AppendedExplains ==
  ASSUME NEW rec \in Seq(Observations), NEW o \in Observations,
         NEW from \in Nat, from <= Len(rec), NEW f, NEW before, NEW old, NEW now,
         Explain(On(rec, from, f), f, before, old),
         \A e \in o.events : e.file \in now <=> e.operation = "added",
         (f \in old <=> f \notin now) => \E e \in o.events : e.file = f
  PROVE  Explain(On(Append(rec, o), from, f), f, before, now)
<1> DEFINE E == On(rec, from, f)
           more == On(Append(rec, o), from, f)
           k == Len(rec) + 1
<1>1. /\ \A x \in more : \/ x \in E
                         \/ x[1] = k /\ x = <<x[1], x[2]>> /\ x[2] \in o.events /\ x[2].file = f
      /\ E \subseteq more /\ \A e \in o.events : e.file = f => <<k, e>> \in more
      /\ \A x \in E : x[1] \in 1..Len(rec)
  BY AppendedEvents
<1>2. Len(rec) \in Nat
  BY Appended
<1>3. \A e \in o.events : e = [operation |-> e.operation, file |-> e.file]
                         /\ e.operation \in {"added", "deleted"}
  BY DEF Observations, Events
<1> HIDE DEF E, more
<1>4. CASE \E e \in o.events : e.file = f
  <2>1. PICK e \in o.events : e.file = f
    BY <1>4
  <2>2. \A x \in o.events : x.file = f => x = e
    BY <1>3, <2>1
  <2> DEFINE x == <<k, e>>
  <2>3. x \in more /\ x[1] = k /\ x[2] = e
    BY <1>1, <2>1
  <2>4. \A y \in more : y[1] <= x[1] /\ (y[1] = x[1] => y = x)
    <3> TAKE y \in more
    <3>1. CASE y \in E
      BY <1>1, <1>2, <2>3, <3>1
    <3>2. CASE y[1] = k /\ y = <<y[1], y[2]>> /\ y[2] \in o.events /\ y[2].file = f
      BY <1>2, <2>2, <3>2
    <3> QED BY <1>1, <3>1, <3>2
  <2>5. x[2].operation = "added" <=> f \in now
    BY <2>1, <2>3
  <2> HIDE DEF x
  <2> QED BY <2>3, <2>4, <2>5 DEF Explain, more
<1>5. CASE ~\E e \in o.events : e.file = f
  <2>1. more = E
    BY <1>1, <1>5
  <2>2. f \in old <=> f \in now
    BY <1>5
  <2> QED BY <2>1, <2>2 DEF Explain, E, more
<1> QED BY <1>4, <1>5

\* An observation with every device shows those of its scan.
LEMMA AppendedShows ==
  ASSUME NEW rec \in Seq(Observations), NEW o \in Observations,
         NEW old, NEW now, NEW d, d \in now \/ Shown(rec, d, old),
         o.devices = {[device |-> e, connected |-> TRUE] : e \in now}
                       \cup {[device |-> e, connected |-> FALSE] : e \in old \ now}
  PROVE  Shown(Append(rec, o), d, now)
<1> DEFINE more == Append(rec, o)
           k == Len(rec) + 1
<1>1. /\ Len(rec) \in Nat /\ DOMAIN rec = 1..Len(rec) /\ DOMAIN more = 1..k
      /\ \A i \in 1..Len(rec) : more[i] = rec[i]
      /\ more[k] = o
  BY Appended
<1> HIDE DEF more
<1>2. \A e \in o.devices : e.device \in now \cup old
  OBVIOUS
<1>3. [device |-> d, connected |-> TRUE] \in o.devices <=> d \in now
  OBVIOUS
<1>4. CASE d \in now \cup old
  <2>1. \E e \in o.devices : e.device = d
    <3>1. \/ [device |-> d, connected |-> TRUE] \in o.devices
          \/ [device |-> d, connected |-> FALSE] \in o.devices
      BY <1>4
    <3> QED BY <3>1
  <2>2. k \in With(more, d) /\ \A j \in With(more, d) : j <= k
    BY <1>1, <2>1 DEF With
  <2> QED BY <1>1, <1>3, <2>2 DEF Shown, more
<1>5. CASE d \notin now \cup old
  <2>1. With(more, d) = With(rec, d) /\ \A i \in With(rec, d) : more[i] = rec[i]
    BY <1>1, <1>2, <1>5 DEF With
  <2> QED BY <1>5, <2>1 DEF Shown, more
<1> QED BY <1>4, <1>5

-----------------------------------------------------------------------------
\* The invariant.

\* Nothing is mounted, scanned or recorded when the system starts.
LEMMA UsbStart == Init => UsbInv
<1> SUFFICES ASSUME Init
             PROVE  UsbInv
  OBVIOUS
<1>1. TypeOK /\ DOMAIN start = devices
  <2>1. mounted \in PartialFunctions(Letters, Drives)
    BY PartialEmpty DEF Init
  <2>2. /\ start \in PartialFunctions(Devices, [at : 0..MaxScans, names : SUBSET Names])
        /\ DOMAIN start = devices
    BY PartialEmpty DEF Init
  <2>3. changes \in 0..MaxChanges /\ recorded \in Seq(Observations)
    BY UsbAssumption DEF Init
  <2> QED BY <2>1, <2>2, <2>3 DEF Init, TypeOK
<1>2. ScanInv
  BY DEF Init, ScanInv
<1>3. ReplayInv
  BY DEF Init, ReplayInv
<1>4. LastSeenInv
  BY PartialEmpty DEF Init, LastSeenInv, Occurrences
<1> QED BY <1>1, <1>2, <1>3, <1>4 DEF UsbInv

\* The invariant says nothing of the drives but their type.
LEMMA UnseenKeeps ==
  ASSUME UsbInv, UNCHANGED <<files, devices, baseline, recorded, start, unreported, forgotten>>,
         TypeOK', DOMAIN start' = devices'
  PROVE  UsbInv'
<1>1. ScanInv'
  BY DEF UsbInv, ScanInv
<1>2. NothingCut' => NothingCut
  BY DEF NothingCut
<1>3. ReplayInv => ReplayInv'
  BY DEF ReplayInv, Explain, EventsOn, SummaryFileEvents
<1>4. LastSeenInv => LastSeenInv'
  BY DEF LastSeenInv, Occurrences
<1> QED BY <1>1, <1>2, <1>3, <1>4 DEF UsbInv

\* What happens to the drives changes nothing the agent knows.
LEMMA DrivesKeep ==
  ASSUME UsbInv, NEW l \in Letters,
         \/ \E drive \in Drives : Plug(l, drive)
         \/ Unplug(l)
         \/ \E n \in Names : Touch(l, n)
  PROVE  UsbInv'
<1>1. UNCHANGED <<files, devices, baseline, recorded, start, unreported, forgotten>>
  BY DEF Plug, Unplug, Touch, observer, history
<1>2. mounted' \in PartialFunctions(Letters, Drives)
  <2>1. mounted \in PartialFunctions(Letters, Drives)
    BY DEF UsbInv, TypeOK
  <2>2. \/ \E drive \in Drives :
               mounted' = [k \in DOMAIN mounted \cup {l} |-> IF k = l THEN drive ELSE mounted[k]]
        \/ mounted' = [k \in DOMAIN mounted \ {l} |-> mounted[k]]
        \/ \E n \in Names :
             /\ l \in DOMAIN mounted
             /\ mounted' = [mounted EXCEPT ![l].files = IF n \in @ THEN @ \ {n} ELSE @ \cup {n}]
    BY DEF Plug, Unplug, Touch, Change
  <2> QED BY <2>1, <2>2, WorldKept
<1>3. changes' \in 0..MaxChanges
  BY UsbAssumption DEF UsbInv, TypeOK, Plug, Unplug, Touch, Change
<1>4. TypeOK' /\ DOMAIN start' = devices'
  BY <1>1, <1>2, <1>3 DEF UsbInv, TypeOK
<1> QED BY <1>1, <1>4, UnseenKeeps

\* A new process knows no drive; the devices it does not know of are forgotten.
LEMMA RestartKeeps ==
  ASSUME UsbInv, Restart
  PROVE  UsbInv'
<1>1. TypeOK' /\ DOMAIN start' = devices'
  BY PartialEmpty DEF UsbInv, TypeOK, Restart, world
<1>2. ScanInv' /\ ReplayInv'
  BY DEF Restart, ScanInv, ReplayInv
<1>3. NothingCut' => LastSeenInv'
  BY DEF UsbInv, Restart, NothingCut, LastSeenInv, Occurrences
<1> QED BY <1>1, <1>2, <1>3 DEF UsbInv

\* An observation, recorded or not.
LEMMA UsbKeeps ==
  ASSUME UsbInv, Usb
  PROVE  UsbInv'
<1>1. PICK scan \in Scans : \E observation \in Observe(scan), done \in BOOLEAN :
        /\ SetBaseline(scan)
        /\ recorded' = IF done THEN Append(recorded, observation) ELSE recorded
        /\ SetHistory(scan, done)
  BY DEF Usb
<1>2. PICK o \in Observe(scan), done \in BOOLEAN :
        /\ SetBaseline(scan)
        /\ recorded' = IF done THEN Append(recorded, o) ELSE recorded
        /\ SetHistory(scan, done)
  BY <1>1
<1>3. GoodScan(scan)
  BY ScanIs DEF UsbInv, TypeOK, GoodScan
<1>4. /\ ScanInv /\ files \subseteq Files /\ devices \subseteq Devices
      /\ recorded \in Seq(Observations) /\ DOMAIN start = devices
  BY DEF UsbInv, TypeOK
<1>5. /\ o \in Observations
      /\ ~o.truncated => o.devices = DeviceList(scan) /\ o.events = FileEvents(scan)
  BY <1>3, <1>4, ObservationIs
<1>6. /\ FileEvents(scan) \subseteq Events
      /\ \A e \in FileEvents(scan) : e.file \in files <=> e.operation # "added"
      /\ \A e \in FileEvents(scan) : e.file \in scan.files <=> e.operation = "added"
      /\ \A d \in devices \cap scan.devices, n \in Names :
           (File(d, n) \in files <=> File(d, n) \notin scan.files) =>
             \E e \in FileEvents(scan) : e.file = File(d, n)
  BY <1>3, <1>4, EventsAre
<1>7. files' = scan.files /\ devices' = scan.devices /\ baseline'
  BY <1>2 DEF SetBaseline
<1> DEFINE k == Len(recorded')
           appeared == scan.devices \ devices
           touched == {e.file.device : e \in FileEvents(scan)}
           found(d) == [at |-> k, names |-> {f.name : f \in {g \in scan.files : g.device = d}}]
<1>8. /\ start' = [d \in scan.devices |-> IF d \in appeared THEN found(d) ELSE start[d]]
      /\ unreported' = (unreported \cup (IF done THEN {} ELSE touched)) \ appeared
      /\ forgotten' = IF done THEN forgotten \ scan.devices
                      ELSE forgotten \cup scan.devices \cup devices
  BY <1>2 DEF SetHistory
<1>9. /\ Len(recorded) \in Nat /\ k \in Nat /\ Len(recorded) <= k /\ k <= MaxScans
      /\ recorded' \in Seq(Observations)
  <2>1. Len(recorded) < MaxScans /\ MaxScans \in Nat
    BY UsbAssumption DEF Usb
  <2> QED BY <1>2, <1>4, <1>5, <2>1, Appended
<1> HIDE DEF k, found
<1>10. /\ \A d \in devices : start[d] \in [at : 0..MaxScans, names : SUBSET Names]
       /\ \A d \in devices : start[d].at \in Nat /\ start[d].at <= Len(recorded)
  <2>1. start \in [devices -> [at : 0..MaxScans, names : SUBSET Names]]
    BY <1>4, PartialIs DEF UsbInv, TypeOK
  <2> QED BY <1>4, <2>1, UsbAssumption DEF ScanInv
<1>11. \A d \in scan.devices : found(d) \in [at : 0..MaxScans, names : SUBSET Names]
                                /\ found(d).at = k
  <2> TAKE d \in scan.devices
  <2> DEFINE names == {f.name : f \in {g \in scan.files : g.device = d}}
  <2>1. names \subseteq Names
    BY <1>3 DEF GoodScan, Files
  <2>2. k \in 0..MaxScans
    BY <1>9, UsbAssumption
  <2> HIDE DEF names
  <2>3. found(d) = [at |-> k, names |-> names]
    BY DEF found, names
  <2> QED BY <2>1, <2>2, <2>3
<1>12. TypeOK' /\ DOMAIN start' = devices'
  <2>1. /\ start' \in [scan.devices -> [at : 0..MaxScans, names : SUBSET Names]]
        /\ DOMAIN start' = scan.devices
    BY <1>8, <1>10, <1>11
  <2>2. scan.devices \in SUBSET Devices /\ scan.files \subseteq Files
    BY <1>3 DEF GoodScan
  <2>3. start' \in PartialFunctions(Devices, [at : 0..MaxScans, names : SUBSET Names])
    BY <2>1, <2>2, PartialIs
  <2>4. touched \subseteq Devices
    BY <1>6 DEF Events, Files
  <2>5. unreported' \subseteq Devices /\ forgotten' \subseteq Devices
    BY <1>8, <2>2, <2>4 DEF UsbInv, TypeOK
  <2>6. mounted' \in PartialFunctions(Letters, Drives) /\ changes' \in 0..MaxChanges
    BY DEF UsbInv, TypeOK, Usb, world
  <2> QED BY <1>7, <1>9, <2>1, <2>2, <2>3, <2>5, <2>6 DEF TypeOK
<1>13. \A d \in scan.devices :
         /\ d \in devices => start'[d] = start[d]
         /\ d \notin devices => start'[d] = found(d)
  BY <1>8
<1>14. ScanInv'
  <2>1. \A d \in scan.devices : start'[d].at <= k
    BY <1>9, <1>10, <1>11, <1>13
  <2> QED BY <1>3, <1>7, <2>1 DEF ScanInv, GoodScan, k
<1>15. ASSUME NothingCut'
       PROVE  /\ NothingCut
              /\ done => o.devices = DeviceList(scan) /\ o.events = FileEvents(scan)
  <2>1. CASE ~done
    BY <1>2, <1>15, <2>1 DEF NothingCut
  <2>2. CASE done
    <3>1. recorded' = Append(recorded, o)
      BY <1>2, <2>2
    <3>2. \A i \in 1..Len(recorded) + 1 : ~Append(recorded, o)[i].truncated
      BY <1>4, <1>5, <1>15, <3>1, Appended DEF NothingCut
    <3>3. NothingCut /\ ~o.truncated
      BY <1>4, <1>5, <1>9, <3>2, Appended DEF NothingCut
    <3> QED BY <1>5, <3>3
  <2> QED BY <2>1, <2>2
<1>16. NothingCut' => ReplayInv'
  <2> SUFFICES ASSUME NothingCut', NEW d \in scan.devices, d \notin unreported', NEW n \in Names
               PROVE  Explain(On(recorded', start'[d].at, File(d, n)), File(d, n), start'[d].names, scan.files)
    BY <1>7 DEF ReplayInv, EventsOn, SummaryFileEvents, On, File
  <2>1. CASE d \notin devices
    <3>1. start'[d] = found(d)
      BY <1>13, <2>1
    <3>2. On(recorded', start'[d].at, File(d, n)) = {}
      <4>1. DOMAIN recorded' = 1..k /\ start'[d].at = k
        BY <1>9, <1>11, <3>1 DEF k
      <4> QED BY <1>9, <4>1 DEF On
    <3>3. start'[d].names = {f.name : f \in {g \in scan.files : g.device = d}}
      BY <3>1 DEF found
    <3>4. File(d, n).name \in start'[d].names <=> File(d, n) \in scan.files
      <4>1. \A g \in scan.files : g.device = d /\ g.name = n => g = File(d, n)
        BY <1>3 DEF GoodScan, Files, File
      <4>2. File(d, n).name = n /\ File(d, n).device = d
        BY DEF File
      <4> QED BY <3>3, <4>1, <4>2
    <3> QED BY <3>2, <3>4 DEF Explain
  <2>2. CASE d \in devices
    <3>1. start'[d] = start[d] /\ d \notin unreported /\ (~done => d \notin touched)
      BY <1>8, <1>13, <2>2
    <3> HIDE DEF touched
    <3>2. Explain(On(recorded, start[d].at, File(d, n)), File(d, n), start[d].names, files)
      BY <1>15, <2>2, <3>1, Readings DEF UsbInv, ReplayInv
    <3>3. (File(d, n) \in files <=> File(d, n) \notin scan.files) =>
            \E e \in FileEvents(scan) : e.file = File(d, n)
      <4>1. d \in devices \cap scan.devices
        BY <2>2
      <4> QED BY <1>6, <4>1, Zenon
    <3>4. CASE done
      <4>1. o.events = FileEvents(scan)
        BY <1>15, <3>4
      <4>2. \A e \in o.events : e.file \in scan.files <=> e.operation = "added"
        BY <1>6, <4>1
      <4>3. recorded' = Append(recorded, o)
        BY <1>2, <3>4
      <4>4. start[d].at \in Nat /\ start[d].at <= Len(recorded)
        BY <1>10, <2>2
      <4>5. Explain(On(Append(recorded, o), start[d].at, File(d, n)), File(d, n), start[d].names, scan.files)
        BY <1>4, <1>5, <3>2, <3>3, <4>1, <4>2, <4>4, AppendedExplains
      <4> QED BY <3>1, <4>3, <4>5
    <3>5. CASE ~done
      <4>1. \A e \in FileEvents(scan) : e.file # File(d, n)
        <5>1. \A e \in FileEvents(scan) : e.file.device \in touched
          BY DEF touched
        <5>2. File(d, n).device = d
          BY DEF File
        <5> QED BY <3>1, <3>5, <5>1, <5>2
      <4>2. File(d, n) \in files <=> File(d, n) \in scan.files
        BY <3>3, <4>1
      <4> QED BY <1>2, <3>1, <3>2, <3>5, <4>2 DEF Explain
    <3> QED BY <3>4, <3>5
  <2> QED BY <2>1, <2>2
<1>17. NothingCut' => LastSeenInv'
  <2> SUFFICES ASSUME NothingCut', NEW d \in Devices, d \notin forgotten'
               PROVE  Shown(recorded', d, scan.devices)
    BY <1>7 DEF LastSeenInv, Occurrences, With, Shown
  <2>1. LastSeenInv
    BY <1>15 DEF UsbInv
  <2>2. CASE done
    <3>1. d \in scan.devices \/ d \notin forgotten
      BY <1>8, <2>2
    <3>2. d \in scan.devices \/ Shown(recorded, d, devices)
      BY <2>1, <3>1, Readings
    <3>3. o.devices = DeviceList(scan)
      BY <1>15, <2>2
    <3> QED BY <1>2, <1>4, <1>5, <2>2, <3>2, <3>3, AppendedShows DEF DeviceList
  <2>3. CASE ~done
    <3>1. d \notin forgotten /\ d \notin devices /\ d \notin scan.devices
      BY <1>8, <2>3
    <3>2. Shown(recorded, d, devices)
      BY <2>1, <3>1, Readings
    <3> QED BY <1>2, <2>3, <3>1, <3>2 DEF Shown
  <2> QED BY <2>2, <2>3
<1> QED BY <1>12, <1>14, <1>15, <1>16, <1>17 DEF UsbInv

\* Every step keeps the invariant.
LEMMA UsbStep == UsbInv /\ [Next]_vars => UsbInv'
<1> SUFFICES ASSUME UsbInv, [Next]_vars
             PROVE  UsbInv'
  OBVIOUS
<1>1. CASE UNCHANGED vars
  <2>1. TypeOK' /\ DOMAIN start' = devices'
    BY <1>1 DEF UsbInv, TypeOK, vars, world, observer, history
  <2> QED BY <1>1, <2>1, UnseenKeeps DEF vars, world, observer, history
<1> QED BY <1>1, DrivesKeep, UsbKeeps, RestartKeeps DEF Next

-----------------------------------------------------------------------------
\* The last scan has one drive to a letter; for every device of it, replaying the
\* recorded events gives its files, and its last entry is the right one, unless
\* something was cut, could not be recorded or was lost with its process.
THEOREM UsbAlways == Spec => []UsbInv
  BY UsbStart, UsbStep, PTL DEF Spec

\* What the observer saw of a drive is explained by the summary or the summary is
\* flagged (ObserveUSB, aggregateUSB).
THEOREM FilesExplained == Spec => []SummaryExplainsFiles
<1>1. UsbInv => SummaryExplainsFiles
  <2> SUFFICES ASSUME UsbInv, ~SummaryTruncated, NEW d \in devices, d \notin unreported
               PROVE  {f.name : f \in {g \in files : g.device = d}} = Replayed(d)
    BY DEF SummaryExplainsFiles
  <2>1. /\ ReplayInv /\ files \subseteq Files /\ DOMAIN recorded \subseteq Nat
    BY DEF UsbInv, TypeOK, SummaryTruncated, NothingCut
  <2>2. ASSUME NEW n \in Names
        PROVE  n \in Replayed(d) <=> File(d, n) \in files
    <3> DEFINE E == EventsOn(d, n)
               last == CHOOSE x \in E : \A y \in E : y[1] <= x[1]
    <3>1. Explain(E, File(d, n), start[d].names, files)
      BY <2>1 DEF ReplayInv
    <3>2. \A x \in E : x[1] \in Nat
      BY <2>1 DEF EventsOn, SummaryFileEvents
    <3>3. n \in Replayed(d) <=> IF E = {} THEN n \in start[d].names ELSE last[2].operation = "added"
      BY DEF Replayed
    <3> HIDE DEF E
    <3>4. CASE E = {} /\ (File(d, n).name \in start[d].names <=> File(d, n) \in files)
      BY <3>3, <3>4 DEF File
    <3>5. ASSUME NEW x \in E, \A y \in E : y[1] <= x[1] /\ (y[1] = x[1] => y = x),
                 x[2].operation = "added" <=> File(d, n) \in files
          PROVE  n \in Replayed(d) <=> File(d, n) \in files
      <4>1. last \in E /\ \A y \in E : y[1] <= last[1]
        BY <3>5
      <4> HIDE DEF last
      <4>2. last[1] = x[1]
        BY <3>2, <3>5, <4>1
      <4>3. last = x
        BY <3>5, <4>1, <4>2
      <4> QED BY <3>3, <3>5, <4>3
    <3> QED BY <3>1, <3>4, <3>5 DEF Explain
  <2>3. \A n : n \in Replayed(d) => n \in Names
    BY DEF Replayed
  <2>4. \A n : n \in {f.name : f \in {g \in files : g.device = d}} <=> n \in Names /\ File(d, n) \in files
    <3>1. \A g \in files : g = File(g.device, g.name) /\ g.name \in Names
      BY <2>1 DEF Files, File
    <3>2. \A n : File(d, n).device = d /\ File(d, n).name = n
      BY DEF File
    <3> QED BY <3>1, <3>2
  <2> QED BY <2>2, <2>3, <2>4
<1> QED BY <1>1, UsbAlways, PTL

\* The greatest of some numbers is the only one that none exceeds.
LEMMA LatestIs ==
  ASSUME NEW S \in SUBSET Nat, NEW i \in S, \A j \in S : j <= i
  PROVE  Max(S) = i
<1>1. Max(S) \in S /\ \A j \in S : Max(S) >= j
  BY DEF Max
<1>2. Max(S) \in Nat /\ i \in Nat /\ Max(S) >= i /\ Max(S) <= i
  BY <1>1
<1> HIDE DEF Max
<1> QED BY <1>2

\* A summary that is not flagged shows the devices of the last scan as connected and
\* no others, but for those it forgot (ObserveUSB, aggregateUSB).
THEOREM DevicesShown == Spec => []SummaryShowsDevices
<1>1. UsbInv => SummaryShowsDevices
  <2> SUFFICES ASSUME UsbInv, ~SummaryTruncated, NEW d \in Devices, d \notin forgotten
               PROVE  d \in devices <=> [device |-> d, connected |-> TRUE] \in SummaryDevices
    BY DEF SummaryShowsDevices
  <2> DEFINE S == Occurrences(d)
             entry == [device |-> d, connected |-> TRUE]
  <2>1. LastSeenInv /\ DOMAIN recorded \subseteq Nat
    BY DEF UsbInv, TypeOK, SummaryTruncated, NothingCut
  <2>2. entry \in SummaryDevices <=> S # {} /\ entry \in recorded[Max(S)].devices
    <3>1. entry.device = d
      OBVIOUS
    <3>2. \A i \in DOMAIN recorded : entry \in recorded[i].devices => i \in S
      BY <3>1 DEF Occurrences
    <3>3. entry \in SummaryDevices <=>
            (\E i \in DOMAIN recorded : entry \in recorded[i].devices) /\ entry \in recorded[Max(S)].devices
      BY <3>1 DEF SummaryDevices
    <3>4. S # {} => Max(S) \in S
      <4> SUFFICES ASSUME S # {}
                   PROVE  Max(S) \in S
        OBVIOUS
      <4>1. PICK i \in S : \A j \in S : j <= i
        BY <2>1 DEF LastSeenInv
      <4>2. S \in SUBSET Nat
        BY <2>1 DEF Occurrences
      <4> HIDE DEF S
      <4> QED BY <4>1, <4>2, LatestIs
    <3>5. S \subseteq DOMAIN recorded
      BY DEF Occurrences
    <3> HIDE DEF S, entry
    <3> QED BY <3>2, <3>3, <3>4, <3>5
  <2>3. CASE S = {} /\ d \notin devices
    BY <2>2, <2>3
  <2>4. ASSUME NEW i \in S, \A j \in S : j <= i, entry \in recorded[i].devices <=> d \in devices
        PROVE  d \in devices <=> entry \in SummaryDevices
    <3>1. S \subseteq Nat
      BY <2>1 DEF Occurrences
    <3> HIDE DEF S
    <3>2. Max(S) = i
      BY <2>4, <3>1, LatestIs
    <3> QED BY <2>2, <2>4, <3>2
  <2> QED BY <2>1, <2>3, <2>4 DEF LastSeenInv
<1> QED BY <1>1, UsbAlways, PTL
=============================================================================
