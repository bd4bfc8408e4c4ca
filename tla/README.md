# Formal models of the Activity Watch agent

The repository holds an ERP client written in Flutter (`lib/`, 260,000 lines of
screens, models and REST calls), SQL dumps of the server, and a background
service written in Go, `activity-watch-agent/`. The service is where the
repository's own hard logic is: it records what happens on a device in an
encrypted database, for weeks if it must, and delivers it to the ERP server at a
logout, through lost answers, failing statements, stops, crashes and restarts.
The models are of that service; of the client and the server they hold what the
service meets.

## 1. The system

### 1.1 Components

| Component | State it keeps | Operations | What makes it correct |
|---|---|---|---|
| Outbox and upload (`internal/store/store.go`, `internal/syncer`) | rows of `sync_outbox`: status, next attempt, attempts, last error | record, claim a batch, mark synced / retry / failed, recover at a start, re-queue, purge | no record is lost, claimed twice or reopened; the server gets each record in the end |
| Retry schedule (same files) | timestamps as text, attempt counts | back-off, Retry-After, selection in time order | a retry is neither put off for ever nor taken early; the oldest comes first |
| Logout control (`internal/control`) | marker file, server's flag, pending acknowledgement | signal, consume, acknowledge | uploads happen at a logout only; a web logout is answered, and not before what was on the device had its first attempt |
| Runner (`internal/agent`) | sampler memory, check-in memory, whether collection is active | one goroutine: heartbeat, control, sample, inventory, USB, summary, shutdown | its handlers keep the store's promises in every order of ticks |
| Sessions and segments (`internal/store/activity.go`) | session rows, activity and application segments, the memory of the open ones | start / finalize a session, record an observation, extend, summarise | time is counted once, only when witnessed, in the right session |
| Attendance (`internal/attendance`) | a file of queued days, the runner's memory of today | check in, check out | the first moment of each day reaches the server, across restarts |
| Pairing (`internal/pairing`) | bundle, candidate, credential and configuration files | apply a bundle | the device never loses the credential the server accepts |
| Provisioning (`internal/provision`) | database and key file | create both, or neither | a key opens the database beside it; nothing is overwritten |
| Service host and commands (`cmd/`) | process life; the files of an installation | start, stop with a deadline; bootstrap, provision, pair | a stop ends the runner before the database closes; commands that run at once leave a usable device |
| Configuration (`internal/config`) | one file | load, create | a later command finds none or a whole one, which lasts unless its writer takes it back |
| USB observation (`internal/collector/usb.go`) | files and drives of the last scan | observe | the summary explains what is on the drives, or is flagged as cut |
| Collectors (`internal/collector`) | none | sample | - |
| Flutter client: master-data cache, API cache, session, request guards (`lib/helper`, `lib/core/api`, `lib/service/app`) | cached lists, responses in flight, token | load, refresh, invalidate, log in, refresh the token, log out | a late answer never overwrites a newer one; nothing of the last user survives a logout |

The rest is configuration, key reading, packaging, screens, typed models, REST
methods, platform runners and SQL dumps. `PROJECT.json` lists every part with
its status.

### 1.2 Interactions

* One goroutine, `Runner.Run`, runs every handler of the service in turn. It
  reads tickers, which drop ticks that nobody receives, so a handler may get a tick
  that fired long before. Interleaving comes from outside that goroutine: the
  service manager cancels its context, other processes (the desktop client, the
  command line) touch the same files, the server receives requests that were
  given up, the machine sleeps.
* Handlers call the store, one SQL transaction at a time; a transaction may fail,
  and some memory of the store is changed before it commits.
* `consumeControl` is the only caller of `Flush`; it records the logout, closes
  the session, drains the outbox and acknowledges the web request.
* `bootstrap`, `provision` and `pair` are processes of their own that create files
  the service reads at its start, and two of them ask the service manager to start it.

### 1.3 What is hard here

Crashes between two writes; answers lost after the server has acted; statements
that fail after a request succeeded; state kept beside a transaction; text that is
compared as time; ticks delivered late; two ways to ask for a logout; several
processes creating the same files; a stop with a deadline against a goroutine that
notices it late; lists that are cut while the baseline they came from moves on.
`PROJECT.json`, `hazards`, lists each at its line with the properties that cover it, and says so where none does yet.

## 2. Modules

| Module | Models | Checked by |
|---|---|---|
| `Delivery` | what the outbox promises: the server stores only what a device holds, a device closes only what the server stores | `Outbox!ImplementsDelivery` |
| `Outbox` | `sync_outbox` and `Flush`, start-up repairs, stop, crash | `MCOutbox` |
| `RetrySchedule` | the timestamps and the order of claims | `MCRetrySchedule` |
| `LogoutFlow` (extends `Outbox`) | both controls and `consumeControl` | `MCLogoutFlow` |
| `Activity` | `device_sessions`, segments, the sampler, sleep inference | through `DailySummary` |
| `DailySummary` (extends `Activity`) | `PrepareDailySummary`: totals, revisions, local days | `MCDailySummary` |
| `UsbObservation` | `ObserveUSB`, the baseline, `aggregateUSB` | `MCUsbObservation` |
| `Provisioning` | `create` and the checks before it, several processes | through `Installation` |
| `Installation` (extends `Provisioning`) | `bootstrap` and `provision` with the configuration, the activated service and its start | `MCInstallation` |
| `ServiceStop` | `serviceProgram.Start` and `Stop`, `Run`'s reaction, `shutdown`, `Close` | itself |
| `Pairing` | `Apply`, the server's token exchange, service starts | `MCPairing` |
| `Attendance` | `reportAttendance`, `CheckIn`, the pending file | `MCAttendance` |
| `LogoutFlowProofs` (with the outbox), `RetryScheduleProofs`, `ActivityProofs` (with the summaries), `UsbObservationProofs`, `InstallationProofs` (with provisioning), `ServiceStopProofs`, `PairingProofs`, `AttendanceProofs` | theorems | the proof system |

**Outbox.** `status`, `due` and `unauthorized` are the row: its `sync_status`,
whether `next_attempt_at_utc` has come, and whether `last_error` names a 401 or
403. `call`, `batch` and `answer` are `Flush`'s locals: claimed, request out,
answer in. `accepted` is what the server stored, `abandoned` what a timed-out
request may still deliver. One action per statement, because each can fail or be
the last one before a crash; the statements inside one SQL transaction are one
action. The order of rows in a claim is abstracted to "rows never tried come
first"; `RetrySchedule` has the rest. Sync is assumed to be enabled: disabled, `Flush`
returns at once.

**RetrySchedule.** A timestamp is a second and a tenth; `TextRank` orders them as
SQLite compares the RFC3339Nano text, in which `…05Z` sorts after `…05.9Z`.
`Delay` is the minimum of the cap, the doubling back-off and a parsed
`Retry-After`, which may have overflowed. Jitter is the constant factor 1 the
service is built with.

**LogoutFlow.** `step` is the line of `consumeControl` that runs next. The server's
flag is external and is raised by `WebLogout`. `CombinedLogoutControl` is
`ConsumeMarker`, `ConsumeFlag`, `ConsumeNothing` and the variable `ackServer`. A step of
`flushPending` is a step of the outbox inside `InDrain`. An acknowledgement that was given up,
after its ten seconds or at a stop, may reach the server later, in the loop, in a pass by file or
during a newer web request (`lateAck`, `LateAcknowledgement`); the server cannot tell what it
answers. `covered` remembers what was on the device when it was sent, and `overtaken` that the
flag was last lowered this way.

**Activity.** Rows of the three tables are records with a start, an end and a state.
What `StartSession` and the writers keep outside the database, the ids of the open
rows, is a variable of its own, because it survives a rolled-back transaction.
Time is a small integer; a summary extends the open rows at any time between
samples. The sampler's memory, and a tick that has fired and is not received, are
variables. Whether the clock Go subtracts times by goes on while the machine is suspended
depends on the system, so each suspension may move it or not; `drift` is what it has missed,
and a tick carries both clocks. The wall clock is set back in `RetrySchedule` only.
`StartSession` closes the open sessions of the current local user (`activity.go:106`); the
device has one enrolled user throughout, so that a session which a crash left open under an
earlier device id, before a new pairing, is not in the model. The code would leave that one open.

**DailySummary.** A summary is two transactions: `Activity` extends the open segments,
`WriteRevision` counts and queues. `Seconds` clips each segment to the day and rounds it to
whole seconds for itself, as the query does; a reading of the clock stands for a time of finer
units (`Moment`), which need not lie on a second. `Run`'s three callers (the summary tick, a
logout, the shutdown) are the disjuncts of `DayNext`; a result says at which statement one
stopped. A later total may be smaller in two ways. A segment that was split after a summary is
rounded twice, which loses a second at most: each revision remembers how many `segments` there
were, and `Loss` is the number opened since. And a crash after a late sample may find less
time in the rows than was reported; `takenBack` remembers that.

**UsbObservation.** The real drives are `mounted`; `files`, `devices`, `baseline` are the
observer's memory; `recorded` the rows of `system_events` of one day. A scan may come back
without drives or with any part of the files, because the script silences its errors.
Every list the code cuts is a choice of the elements that remain, because which
come first depends on names. A device is its letter and its volume.

**Installation.** `stage` is the line of the command, `Provisioning`'s `pc` the line of
`create` inside stage "storage". The configuration is created empty under its
final name, then written and closed. It may be torn, and when the write or the `Close` fails it
is removed, also when it is whole by then and another command has loaded it (`Encode`, `Close`,
`DropConfig`); `withdrew` remembers who took back a file that others could use. The service is
one start, asked for by a command or by the service manager at any time; it reads the configuration, the
key and the database one after the other.

**ServiceStop.** Time is counted in units of the slack's scale, and a step that is due is
taken before time goes on. `host` is the service program, `runner` the goroutine. Of the
two transactions of `shutdown` that encrypt, the summary's begins before it encrypts and
the event's after, which decides whether a closed database stops them.
The other writes of the runner are in `Outbox` and `Activity`.

**Attendance.** A moment is an integer and `Day` its local day. `queue` is the map
`CheckIn` works on. Loading and saving, sending and removing are separate actions;
a save writes a temporary file and renames it, so it is atomic and may fail. The
server inserts a record for the employee and the day, or ignores the request. The
device and the server are assumed to agree on the local day.

**Provisioning.** A file is named after the process that made it, so "the key opens
the database" is equality. Every `os.Link` and `os.Remove` is an action.
`unlinked` remembers a removal that failed.

**Pairing.** Every file that `Apply` replaces atomically is a variable. The server
accepts a token for one credential, and for that one again until it expires, an external
assumption that `docs/SPECIFICATIONS.md:1501` states. An exchange takes effect when it is sent or
never; that one given up after the client's 20 seconds (`pairing.go:73`) arrives after a newer
pairing with another credential is left out, a second assumption. It takes an employee who
completes two more pairings meanwhile, since a repeated attempt sends the same candidate. If, as
`docs/ARCHITECTURE.md:644` suggests, the token is kept in the device's row, a newer one
replaces it and the late request is refused. A new credential is any that is known nowhere.

## 3. Runs and bounds

| Run | Shows | Bounds |
|---|---|---|
| `outbox` | nothing lost, claims owned, closed rows stay closed, `Delivery` implemented; every row is settled unless one that cannot be decoded waits | 3 rows, one of them undecodable once it is queued, batches of 2: a batch can be partial, full, and compete with a row outside it |
| `retry_schedule` | delays bounded; text order wrong by less than a second; order kept, also when the clock is set back | 2 rows, three and a half seconds of two ticks, a cap of two seconds, one step back, attempts up to the cap of the exponent in miniature, a duration of five bits that the longest Retry-After overflows |
| `logout` | where uploads happen, what an acknowledgement says when it lowers the flag, who sends one, that web logouts are answered unless a row cannot be decoded | 2 rows, of which one cannot be decoded, in batches of 1; any number of logouts of either kind, stops and crashes, and acknowledgements that arrive late. The theorems of section 4 have any number of rows |
| `logout_drain` (violated) | the flag goes down while a row waits for its retry | 2 rows: one is enough to wait while the pass ends |
| `summary` | sessions, segments, the witnessed time, the growth of a day's revisions | 4 readings of the clock (`MaxTime` 3) over a midnight, 2 sessions, 4 segments, one failing transaction, crashes; 7 units to a sample interval and 3 to a second, so that the readings lie differently between two seconds, and 18 to a day, so that midnight falls inside an interval |
| `summary_midnight`, `activity_commit` (violated) | see section 6 | the same modules with 5 readings of the clock, each with the failures its case needs |
| `usb` | the summary explains the files and shows the drives, or is flagged | 1 letter, 2 volumes, so that a drive can be exchanged under its letter; 2 files; lists cut at 1; 3 scans, 3 changes |
| `installation` | one pair of files that belongs together; activated starts find it and the configuration unless one was taken back; no race breaks the device | 3 commands: two race while a third sees what is left |
| `service_stop` | a stop returns; quiet stops finalise; the cleared key is used after slow polls only | a shutdown timeout of 4 units, a slack of 1, polls up to 5: half of the default 8, 2 and 10 seconds, where a poll may last as long as Stop waits |
| `pairing` | the credential is never lost; pairing succeeds | 2 bundles, 4 credentials: a second bundle after a failed first, and a spare credential |
| `attendance` | first moments kept, days in order, everything queued is recorded, and today if the service stays up | 3 days of 2 moments: a day between two others, a second moment in each |

Deadlock is not checked in runs whose clock, requests, scans or processes end at a bound.
Symmetry is used on rows, volumes and processes, in runs without liveness only.

### Fairness

Weak fairness stands for what the code does by itself (a start begins with its
repairs, the select loop serves its tickers, the server's flag is polled), strong
fairness for what succeeds only sometimes: an exchange that is tried at every
logout, a mark, a save, a check-in sent at every heartbeat, a bundle that is
opened again. No fairness is assumed of crashes, stops, failures
or late arrivals, except that
`outbox` has the service restarted now and then: a row whose mark failed
is released by nothing else. `pairing` assumes the employee does not give
up and that the last token does not run out; both are conditions in the property or in
`Fairness`. In `service_stop` time passes (strong fairness of `Tick`, which is disabled
while a step is due), statements return and polls end; nothing makes the `select` of `Run`
prefer the cancellation to its next ticker, and a stop returns all the same, by its timer.

## 4. Theorems

They hold for every value of the constants.

* **Outbox.** `OutboxInv` joins the type, `NothingLost` and `ClaimsAreOwned` with
  what they need: a batch is claimed, an idle call has no batch, a successful
  answer means the server has the whole batch, and the server knows no row that was
  not recorded. Without the third, `MarkSynced` could close a row the server never
  stored; without the first, a mark could move a row of another call. `TypeStep`,
  `StartStep`, `StopStep`, `FlushStep` and `InvStep` prove it step by step.
  `ClosedStaysClosed` follows from it, and `OutboxImplementsDelivery` maps each
  step to a step of `Delivery` or a stutter. `UndecodableRowsBlock` also needs that the table
  is finite (`TableIsFinite`): a claim that takes as many rows as are ready takes all of them.
* **RetrySchedule.** `ScheduleInv` is the type with `DeferralBounded`, which `markRetry` keeps
  because the exponent never passes its cap. The properties of claims rest on one lemma about
  texts, `TextOrder`: a time whose text is not after another's is less than a second after it,
  at every resolution of the clock. That `Claim` and `Backoff` choose what they say they choose
  is the least-number principle (`LeastNumber`, `GreatestNumber`). `PowerAssumption`, that powers
  of two are positive, is arithmetic the provers lack; TLC evaluates it in `retry_schedule`.
* **LogoutFlow.** `LogoutKeepsOutbox` shows that a logout is a use of the outbox, so
  all of the above carries over. `LogoutInv` adds that only a running service is in a pass,
  that calls happen in the drain only and nothing is recorded during it, and that an
  acknowledgement is pending only in a pass the server started. `LateAckInv` says of an
  acknowledgement on its way that every row of its time has had its first attempt, which no
  later step undoes. From these follow that uploads need a logout, that an acknowledgement, early
  or late, waits for the first attempts of its time, and that none is sent but by a pass of the
  server's. That it answers the request it was sent for is not true (section 6).
* **Activity.** `ActivityInv` has three parts, each inductive on the ones before it. `TimeInv`:
  a tick is of this process and not after now. `StoreInv`, which holds whatever fails: the
  memory refers to rows of its own session or to a row that was rolled back, and no row is of a
  session not yet begun; `OneOpenSession` and `ClosedSessionsFrozen` follow. `CleanState`, as
  long as no transaction failed: the remembered row is the last one and began by the last
  sample, the rows of a session lie one after the other (`OrderInv`) without a hole before the
  remembered one (`CoverInv`), the rows of an application are active rows (`ForegroundInv`), and
  active time, but for the last interval of a segment, lies between two samples that the
  monotonic clock put no more than `SleepGap` apart (`WitnessInv`). None of them says where the
  remembered row ends, because a summary moves its end past the next sample and that sample may
  move it back; `WitnessInv` therefore counts it up to the last sample only. `ActiveWitnessed`
  holds whatever the monotonic clock does in a suspension; what it then means is in section 6.
  What each writer does to the two tables, for each statement that may fail, is in the first
  part of `ActivityProofs`.
* **DailySummary.** `SummariesImplementActivity` carries all of that over. `RevisionInv` says that
  the row of a day holds its latest revision and, while nothing failed and nothing was
  taken back, no more than the next summary will find there (`Upcoming`) but for a second for
  each segment opened since (`Loss`): totals could shrink at any later sample without the second
  half, since a sample moves the open row's end. Seconds are pairs of a segment and a second of
  it, so that "no less" is shown by inclusion, or, where a new row takes over time of the old, by
  an injection into the old pairs with one more for the new row (`OpenedFinds`, `Worth`): a
  sum of two rounded parts is at most one less than the rounded whole (`ClipCut`, `RoundedIs`).
* **UsbObservation.** `UsbInv` says that the last scan has one drive to a letter and no file
  without its drive (`ScanInv`), that the latest event of a file, or what was there at the start, says
  whether the last scan had it (`ReplayInv`), and that the last entry of a device says whether it was
  connected (`LastSeenInv`); the last two only while nothing was cut. Without the first, a file of an
  exchanged drive would pass for one of its predecessor, since files are compared by letter. No
  limit and no set need be finite.
* **Provisioning.** `ProvisioningInv` says that a process finds what it has published
  until it withdraws it, and that no key of its own exists before it links one. With
  any number of processes, a key is never in place without its database, nothing
  published is replaced, success is lasting, and half a pair comes from a crash or a
  failing removal.
* **Installation.** `InstallationImplementsProvisioning` carries these over to the
  commands. `InstallInv` adds where each stage is in `create` (`StageInv`), that the
  configuration has one writer and, once others went on with it, lasts while nobody took
  a file back (`ConfigInv`), and what the service
  and a command that found both files know in the same case (`ServiceInv`).
  From it follow that a start a command asked for finds its files, and, with
  `HalfOnlyByACrash`, that no race of commands that end leaves the device unusable.
* **ServiceStop.** `StopInv` relates the two clocks: a shutdown that began within the slack
  has written for at least the time since the cancellation less the slack, so its own
  timeout ends its writes before Stop's does (`TimesInv`); `ShutdownInv` says what a shutdown
  in which nothing has failed has behind it. Without the first, a row could be encrypted with
  the cleared key after a shutdown that began in time; no relation between the three timeouts
  is assumed.
* **Pairing.** `PairingInv` lists what each step of `Apply` knows about the four
  files. The assumption `OneCommand` (nobody opens a bundle while another command
  runs) is part of each theorem; nothing in the code enforces it, and with two
  commands the candidate of one can be overwritten by the other.
* **Attendance.** `AttendanceInv` says that what was queued is in the file or with the
  server, that both hold the first queued moment (`FileInv`), and that a request under way has
  no queued day before it that the server lacks (`TransitInv`); without the last, a late
  request could overtake. From it follow that first moments are kept, days are recorded in
  order, the runner stops reporting only recorded days, and a queued day leaves the file only
  when the server has it, for any length of the day.

Every invariant and every action property of the passing runs is stated by a theorem. Only
model-checked are the liveness properties (`EventuallySettled`, `WebLogoutAnswered`,
`StopReturns`, `EventuallyPaired`, `EventuallyRecorded`, `TodayIsRecorded`), since liveness under
fairness is beyond the proof system used, and the three violations, which are counterexamples. What the external
server does is an assumption in either case. The assumptions a theorem rests on are those of its
module's constants, and `OneCommand` where it names it.

## 5. Plan

Done: the outbox, its schedule, logouts, sessions, segments and summaries, USB observations,
provisioning and installation, the stop, pairing, attendance; theorems about all of them. Next:

1. An abstract specification of what a check-in promises, as `Delivery` is for the outbox, and
   `Attendance` shown to implement it.
2. Inventory snapshots as a further handler of `Activity`: the latest one of processes is read
   by the daily summary, for its background applications (`activity.go:559`).
3. The Flutter client's master-data cache, API cache and login session: each `await` a step;
   a late answer after an invalidation, a logout or a newer request.

The runs are kept few: a module that extends another joins its run.

## 6. Where the code and its documents differ

Shown by runs:

* `logout_drain`: the comment at `server_control.go:50` promises that the flag is
  cleared after the complete outbox is drained; rows whose retry is not due remain.
* `summary_midnight`: `docs/activity-watch-go-service.md:132` promises that cross-midnight
  segments are apportioned to the correct date; what lies between the last summary of a
  day and midnight is in no summary.
* `activity_commit`: the id of the open segment is set before the commit; after a failed
  commit, observations extend a row that does not exist.

Stated by the models, without a run of their own:

* A payload that cannot be decrypted is said to be quarantined
  (`docs/ACTIVITY_WATCH_LOCAL_DATABASE_STRUCTURE.md:697`); it stays pending and blocks the
  rows selected with it. `UndecodableBlocksUploads`, which is proved, says what the code does.
* The flag is said to be cleared only after a drain that succeeded, and to stay when the
  acknowledgement fails (`docs/ARCHITECTURE.md:713`, `docs/SPECIFICATIONS.md:1819`). An
  acknowledgement that the agent gave up on may reach the server after a newer web logout
  has raised the flag again; it lowers the newer flag, and what was recorded since waits for
  the next logout (`overtaken`).
* The recovery of a crash is said never to count uncertain time as active
  (`docs/ACTIVITY_WATCH_LOCAL_DATABASE_STRUCTURE.md:633`). Suspended time is uncertain as well: where
  Go's monotonic clock stops in a suspension, on Linux and macOS, `Runner.sample` sees no
  gap, and all of it counts as the state before. `ActiveTimeIsWitnessed` therefore measures by
  that clock, which is all the code can tell.
* Totals are said to come from mutually exclusive states. Within a session they do
  (`SessionTimeCountedOnce`); after a logout, a tick of before it can start a segment that
  overlaps the ended session.
* A sample tick handled after a summary moves the open segment's end back behind what was
  reported; a crash then leaves less time than the last revision says (`takenBack`).
* A start that is cancelled returns a context error, which Stop does not report, and leaves its
  session open until the next start (`QuietStopFinalises` excepts it).
* A drive exchanged under its letter between two scans is reported as files deleted and added,
  although nobody copied anything. An observation that could not be recorded takes its
  changes with it unflagged, and a device that was unplugged while no agent ran stays
  connected in the day's summary (`unreported`, `forgotten`).
* The hash of an inventory covers its capture time, so an unchanged inventory is stored
  again at each capture.

## 7. Not modelled

* Encryption, JSON, SQL text, HTTP details and time zones (except the local day); the
  loss of writes that were not synced to the disk, the pending file of the attendance
  among them.
* `CheckOut`, one request without state; inventory snapshots, rows that are written once, and what the
  daily summary reads of them, which does not enter its totals; USB ports and devices without a drive.
* The ranges `Validate` enforces, which appear as assumptions on constants.
* The collectors' system calls: `Activity` takes any sample they can report. The key
  reader, the random identifiers, the packaging scripts: input and output without state.
* The Flutter client, but for what the agent meets of it (a logout signalled, a bundle
  downloaded and opened). Its caches, its login session and its request guards are state
  machines of their own and are in section 5; the rest is screens and typed REST calls with
  no state that outlives them.
* The ERP server, whose code is in another repository: what the agent relies on is marked
  external in `PROJECT.json`.
