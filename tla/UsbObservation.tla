---------------------------- MODULE UsbObservation ----------------------------
(***************************************************************************)
(* The USB observations of a device and what the day's summary makes of    *)
(* them: ObserveUSB (internal/collector/usb.go), Runner.usb                *)
(* (internal/agent/runner.go), aggregateUSB (internal/store/activity.go).  *)
(*                                                                         *)
(* The observer keeps the files and the drives of its last scan in memory  *)
(* and reports the difference.  A scan, the list of events, the list of    *)
(* devices and the summary are bounded; what is cut off is only flagged.   *)
(* The baseline is replaced before the observation is recorded.            *)
(*                                                                         *)
(* A device is known by its drive letter and its label; devices without a  *)
(* drive have no files and are left out.  A scan that fails as a whole     *)
(* changes nothing.                                                        *)
(***************************************************************************)
EXTENDS Integers, Sequences, FiniteSets, FiniteSetsExt

CONSTANTS
  Letters, Volumes, Names,
  ScanLimit,       \* maxUSBFilesPerScan
  EventLimit,      \* maxUSBEventsPerObservation
  DeviceLimit,     \* devices of an observation, and of a summary
  SummaryEvents,   \* file events of a summary
  MaxScans, MaxChanges  \* bounds

ASSUME UsbAssumption ==
  /\ ScanLimit \in Nat /\ EventLimit \in Nat /\ DeviceLimit \in Nat /\ SummaryEvents \in Nat
  /\ MaxScans \in Nat /\ MaxChanges \in Nat

VARIABLES
  mounted,    \* the removable drives: by letter, the volume and the files on it
  changes,    \* what happened to the drives so far
  files,      \* OSObserver.usbFiles
  devices,    \* OSObserver.usbDevices
  baseline,   \* OSObserver.hasUSBBaseline
  recorded,   \* the usb-observation rows of system_events, oldest first
  start,      \* history: of each device of the last scan, what was on it when it appeared
  unreported, \* history: devices with events in an observation that was not recorded
  forgotten   \* history: devices whose state was in memory only when it was lost

world == <<mounted, changes>>
observer == <<files, devices, baseline>>
history == <<start, unreported, forgotten>>
vars == <<world, observer, recorded, history>>

Devices == [letter : Letters, volume : Volumes]
Files == [device : Devices, name : Names]
Drives == {[volume |-> v, files |-> fs] : v \in Volumes, fs \in SUBSET Names}
PartialFunctions(S, T) == UNION {[D -> T] : D \in SUBSET S}

Events == [operation : {"added", "deleted"}, file : Files]
Observations ==
  [devices : SUBSET [device : Devices, connected : BOOLEAN], events : SUBSET Events, truncated : BOOLEAN]

TypeOK ==
  /\ mounted \in PartialFunctions(Letters, Drives) /\ changes \in 0..MaxChanges
  /\ files \subseteq Files /\ devices \subseteq Devices /\ baseline \in BOOLEAN
  /\ recorded \in Seq(Observations)
  /\ start \in PartialFunctions(Devices, [at : 0..MaxScans, names : SUBSET Names])
  /\ unreported \subseteq Devices /\ forgotten \subseteq Devices

Init ==
  /\ mounted = <<>> /\ changes = 0
  /\ files = {} /\ devices = {} /\ baseline = FALSE
  /\ recorded = <<>>
  /\ start = <<>> /\ unreported = {} /\ forgotten = {}

-----------------------------------------------------------------------------
(***************************************************************************)
(* The drives.  A volume may be changed elsewhere while it is unplugged.   *)
(***************************************************************************)
Change(new) == mounted' = new /\ changes < MaxChanges /\ changes' = changes + 1

Plug(l, drive) ==
  /\ l \notin DOMAIN mounted
  /\ \A k \in DOMAIN mounted : mounted[k].volume # drive.volume
  /\ Change([k \in DOMAIN mounted \cup {l} |-> IF k = l THEN drive ELSE mounted[k]])
  /\ UNCHANGED <<observer, recorded, history>>

Unplug(l) ==
  /\ l \in DOMAIN mounted
  /\ Change([k \in DOMAIN mounted \ {l} |-> mounted[k]])
  /\ UNCHANGED <<observer, recorded, history>>

\* The user creates a file, or deletes it.
Touch(l, n) ==
  /\ l \in DOMAIN mounted
  /\ Change([mounted EXCEPT ![l].files = IF n \in @ THEN @ \ {n} ELSE @ \cup {n}])
  /\ UNCHANGED <<observer, recorded, history>>

-----------------------------------------------------------------------------
Device(l) == [letter |-> l, volume |-> mounted[l].volume]

FilesOn(ls) == UNION {{[device |-> Device(l), name |-> n] : n \in mounted[l].files} : l \in ls}

Key(f) == <<f.device.letter, f.name>>
Keys(fs) == {Key(f) : f \in fs}

\* The first elements of a list cut to its limit; which they are depends on names.
Cut(S, limit) == kSubset(IF Cardinality(S) > limit THEN limit ELSE Cardinality(S), S)

(***************************************************************************)
(* windowsUSBScript: errors of the queries are silent, so the drives may   *)
(* come back empty and directories may be missing.  Files are listed up to *)
(* the limit.                                                              *)
(***************************************************************************)
ScansOf(ls, readable) ==
  {[devices |-> {Device(l) : l \in ls}, files |-> fs, truncated |-> Cardinality(readable) > ScanLimit] :
     fs \in Cut(readable, ScanLimit)}

Scans == UNION {UNION {ScansOf(ls, readable) : readable \in SUBSET FilesOn(ls)} : ls \in {DOMAIN mounted, {}}}

\* A file is added if the letter had a drive at the last scan, and deleted if the
\* letter has one now.
Added(scan) ==
  {f \in scan.files : Key(f) \notin Keys(files) /\ \E d \in devices : d.letter = f.device.letter}

Deleted(scan) ==
  {f \in files : Key(f) \notin Keys(scan.files) /\ \E d \in scan.devices : d.letter = f.device.letter}

FileEvents(scan) ==
  IF baseline
  THEN {[operation |-> "added", file |-> f] : f \in Added(scan)}
         \cup {[operation |-> "deleted", file |-> f] : f \in Deleted(scan)}
  ELSE {}

\* Mutant: only the devices of the scan are listed.
DevicesSeen(scan) == {[device |-> d, connected |-> TRUE] : d \in scan.devices}

\* The devices of the scan and those that are gone since the last one.
DeviceList(scan) ==
  {[device |-> d, connected |-> TRUE] : d \in scan.devices}
    \cup {[device |-> d, connected |-> FALSE] : d \in devices \ scan.devices}

\* Mutant: a cut list of events is not flagged.
ObserveUnflagged(scan) ==
  {[devices |-> ds, events |-> es, truncated |-> scan.truncated \/ ds # DeviceList(scan)] :
     ds \in Cut(DeviceList(scan), DeviceLimit), es \in Cut(FileEvents(scan), EventLimit)}

\* The observations ObserveUSB may make of a scan.
Observe(scan) ==
  {[devices |-> ds, events |-> es,
    truncated |-> scan.truncated \/ ds # DeviceList(scan) \/ es # FileEvents(scan)] :
     ds \in Cut(DeviceList(scan), DeviceLimit), es \in Cut(FileEvents(scan), EventLimit)}

SetBaseline(scan) == files' = scan.files /\ devices' = scan.devices /\ baseline' = TRUE

\* What a reader of the observations knows of the drives of a scan.
SetHistory(scan, done) ==
  LET appeared == scan.devices \ devices
      touched == {e.file.device : e \in FileEvents(scan)}
  IN  /\ start' = [d \in scan.devices |->
                     IF d \in appeared
                     THEN [at |-> Len(recorded'), names |-> {f.name : f \in {g \in scan.files : g.device = d}}]
                     ELSE start[d]]
      /\ unreported' = (unreported \cup (IF done THEN {} ELSE touched)) \ appeared
      /\ forgotten' = IF done THEN forgotten \ scan.devices
                      ELSE forgotten \cup scan.devices \cup devices

\* Runner.usb: the baseline has moved on when the observation cannot be recorded.
Usb ==
  /\ Len(recorded) < MaxScans
  /\ \E scan \in Scans : \E observation \in Observe(scan), done \in BOOLEAN :
       /\ SetBaseline(scan)
       /\ recorded' = IF done THEN Append(recorded, observation) ELSE recorded
       /\ SetHistory(scan, done)
  /\ UNCHANGED world

\* A new process starts without a baseline.
Restart ==
  /\ baseline
  /\ files' = {} /\ devices' = {} /\ baseline' = FALSE
  /\ forgotten' = forgotten \cup devices
  /\ start' = <<>> /\ unreported' = {}
  /\ UNCHANGED <<world, recorded>>

Next ==
  \/ \E l \in Letters :
       \/ \E drive \in Drives : Plug(l, drive)
       \/ Unplug(l)
       \/ \E n \in Names : Touch(l, n)
  \/ Usb \/ Restart

Spec == Init /\ [][Next]_vars

-----------------------------------------------------------------------------
(***************************************************************************)
(* aggregateUSB, on the observations of one day: of each device the entry  *)
(* of the last observation that has one, every file event, and a flag.     *)
(***************************************************************************)
Occurrences(d) == {i \in DOMAIN recorded : \E e \in recorded[i].devices : e.device = d}

SummaryDevices ==
  {e \in UNION {recorded[i].devices : i \in DOMAIN recorded} :
     e \in recorded[Max(Occurrences(e.device))].devices}

SummaryFileEvents ==
  {x \in (DOMAIN recorded) \X Events : x[2] \in recorded[x[1]].events}

SummaryTruncated ==
  \/ \E i \in DOMAIN recorded : recorded[i].truncated
  \/ Cardinality(SummaryDevices) > DeviceLimit
  \/ Cardinality(SummaryFileEvents) > SummaryEvents

(***************************************************************************)
(* Properties.                                                             *)
(***************************************************************************)

EventsOn(d, n) ==
  {x \in SummaryFileEvents : x[1] > start[d].at /\ x[2].file = [device |-> d, name |-> n]}

\* The names a reader of the summary finds on a device, from what was on it when
\* it appeared and the events since.
Replayed(d) ==
  {n \in Names :
     IF EventsOn(d, n) = {} THEN n \in start[d].names
     ELSE LET last == CHOOSE x \in EventsOn(d, n) : \A y \in EventsOn(d, n) : y[1] <= x[1]
          IN  last[2].operation = "added"}

\* A change the observer has seen is in the summary or the summary is flagged as
\* truncated: replaying the events gives the files of the last scan, through
\* unplugged and exchanged drives, directories that could not be read, drives
\* that were not listed and restarts.  The exception is an observation with events
\* that could not be recorded: its changes are in no later observation and nothing
\* flags them (ObserveUSB replaces the baseline first, aggregateUSB).
SummaryExplainsFiles ==
  ~SummaryTruncated => \A d \in devices \ unreported :
    {f.name : f \in {g \in files : g.device = d}} = Replayed(d)

\* Unless the summary is flagged, it shows the devices of the last scan as
\* connected and all others as gone, but for those last seen by a process that
\* ended or in an observation that was not recorded: they stay as they were.
SummaryShowsDevices ==
  ~SummaryTruncated => \A d \in Devices \ forgotten :
    d \in devices <=> [device |-> d, connected |-> TRUE] \in SummaryDevices

-----------------------------------------------------------------------------
(***************************************************************************)
(* The inductive invariant.                                                *)
(***************************************************************************)
File(d, n) == [device |-> d, name |-> n]

NothingCut == \A i \in DOMAIN recorded : ~recorded[i].truncated

\* The last scan: one drive to a letter, files on its drives only; what a reader
\* knows of the drives begins with an observation that is recorded.
ScanInv ==
  /\ \A d, e \in devices : d.letter = e.letter => d = e
  /\ \A f \in files : f.device \in devices
  /\ devices # {} => baseline
  /\ \A d \in devices : start[d].at <= Len(recorded)

\* The latest event of a file, the only one of its observation, says whether it is
\* there now; without events it is there if it was there before.
Explain(events, f, before, now) ==
  \/ events = {} /\ (f.name \in before <=> f \in now)
  \/ \E x \in events :
       /\ \A y \in events : y[1] <= x[1] /\ (y[1] = x[1] => y = x)
       /\ x[2].operation = "added" <=> f \in now

ReplayInv ==
  \A d \in devices \ unreported, n \in Names :
    Explain(EventsOn(d, n), File(d, n), start[d].names, files)

\* The last observation with an entry of a device says whether it is connected.
LastSeenInv ==
  \A d \in Devices \ forgotten :
    \/ Occurrences(d) = {} /\ d \notin devices
    \/ \E i \in Occurrences(d) :
         /\ \A j \in Occurrences(d) : j <= i
         /\ [device |-> d, connected |-> TRUE] \in recorded[i].devices <=> d \in devices

UsbInv == TypeOK /\ DOMAIN start = devices /\ ScanInv /\ (NothingCut => ReplayInv /\ LastSeenInv)
=============================================================================
