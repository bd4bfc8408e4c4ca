------------------------------ MODULE Activity ------------------------------
(***************************************************************************)
(* The sessions and segments a device records: Runner.sample, the summary  *)
(* tick, logout and shutdown of internal/agent/runner.go, and the session  *)
(* and segment writers of internal/store/activity.go.                      *)
(*                                                                         *)
(* One goroutine handles the ticks of several tickers, in any order when   *)
(* more than one is waiting; each ticker keeps one undelivered tick, with  *)
(* the time it fired at, and drops the others while the goroutine is busy. *)
(* The segment the store is writing is remembered in memory, outside the   *)
(* transactions that write it.                                             *)
(*                                                                         *)
(* The clock counts sample intervals.  The machine may be suspended; the   *)
(* wall clock goes on, the monotonic clock that Go subtracts times by may  *)
(* stop, as it does on Linux and macOS, or go on, as on Windows.  drift is *)
(* the wall time the monotonic clock has missed.  The wall clock is not    *)
(* set back here (RetrySchedule has that).                                 *)
(*                                                                         *)
(* The device is enrolled for one local user throughout.                   *)
(***************************************************************************)
EXTENDS Integers, Sequences, FiniteSets

CONSTANTS
  Observed,              \* states the observer reports
  SummaryEvery,          \* CollectionConfig.SummaryInterval, in sample intervals
  SleepGap,              \* a longer gap between samples is a sleep (3 in the code)
  MaxTime, MaxSegments, MaxSessions, MaxFailures  \* bounds

ASSUME ActivityAssumption ==
  /\ SummaryEvery \in Nat \ {0} /\ SleepGap \in Nat \ {0}
  /\ MaxTime \in Nat /\ MaxSegments \in Nat /\ MaxSessions \in Nat /\ MaxFailures \in Nat

VARIABLES
  clock, drift,
  sampleTick, summaryTick,  \* the undelivered tick of each ticker, or Never
  up,                       \* the service process is running
  lastSample,               \* Runner.lastSampleAt
  sessions,                 \* device_sessions
  activities, applications, \* activity_segments, application_segments
  memory,                   \* sessionID, activitySegmentID, ... of SQLCipherStore
  failures,                 \* failed transactions so far
  samples                   \* history: the times of the samples of this process

clockVars == <<clock, drift, sampleTick, summaryTick>>
tableVars == <<sessions, activities, applications>>
vars == <<clockVars, up, lastSample, tableVars, memory, failures, samples>>

Never == [wall |-> -1, drift |-> 0]
Now == [wall |-> clock, drift |-> drift]
Instants == [wall : -1..MaxTime, drift : 0..MaxTime]

None == 0       \* "" : no segment
RolledBack == -1  \* a segment id whose insert was rolled back

NoMemory == [session |-> None, activity |-> None, state |-> "none", application |-> None]

Segments == [session : 1..MaxSessions, state : Observed \cup {"sleeping"},
             from : 0..MaxTime, to : 0..MaxTime]

Memories == [session : 0..MaxSessions, activity : -1..MaxSegments,
             state : Observed \cup {"sleeping", "none"}, application : -1..MaxSegments]

Sessions == [open : BOOLEAN, to : 0..MaxTime]

TypeOK ==
  /\ clock \in 0..MaxTime /\ drift \in 0..MaxTime
  /\ sampleTick \in Instants /\ summaryTick \in Instants /\ lastSample \in Instants
  /\ up \in BOOLEAN
  /\ sessions \in Seq(Sessions)
  /\ activities \in Seq(Segments) /\ applications \in Seq(Segments)
  /\ memory \in Memories
  /\ failures \in 0..MaxFailures
  /\ samples \in SUBSET Instants

Init ==
  /\ clock = 0 /\ drift = 0
  /\ sampleTick = Never /\ summaryTick = Never
  /\ up = FALSE
  /\ lastSample = Never
  /\ sessions = <<>> /\ activities = <<>> /\ applications = <<>>
  /\ memory = NoMemory
  /\ failures = 0
  /\ samples = {}

-----------------------------------------------------------------------------
(***************************************************************************)
(* The segment writer, as functions on what it reads and writes:           *)
(* s = [activities, applications, memory].                                 *)
(***************************************************************************)
Store == [activities |-> activities, applications |-> applications, memory |-> memory]

\* UPDATE ... SET ended_at_utc WHERE id = ?: no row is touched, and no error is
\* returned, when the row was never committed.
EndAt(table, id, at) ==
  IF id \in DOMAIN table THEN [table EXCEPT ![id].to = at] ELSE table

NewSegment(session, state, at) ==
  [session |-> session, state |-> state, from |-> at, to |-> at]

\* Mutant: the open segment is left where a summary extended it.
WriteActivityUnclosed(s, state, at) ==
  LET ended == EndAt(s.activities, s.memory.activity, at)
  IN  IF s.memory.activity # None /\ s.memory.state = state
      THEN [s EXCEPT !.activities = ended]
      ELSE [s EXCEPT !.activities = Append(@, NewSegment(s.memory.session, state, at)),
                     !.memory.activity = Len(ended) + 1, !.memory.state = state]

\* writeActivitySegment: the open segment is extended while the observation
\* stays the same, otherwise it is closed and a new one is inserted.
WriteActivity(s, state, at) ==
  LET m == s.memory
      ended == EndAt(s.activities, m.activity, at)
  IN  IF m.activity # None /\ m.state = state
      THEN [s EXCEPT !.activities = ended]
      ELSE [s EXCEPT !.activities = Append(ended, NewSegment(m.session, state, at)),
                     !.memory.activity = Len(ended) + 1, !.memory.state = state]

\* Mutant: the application is written without looking at the state.
CloseNoApplication(s, at) == s

\* writeApplicationSegment, with one application in the foreground whenever the
\* user is active and none otherwise.
CloseApplication(s, at) ==
  [s EXCEPT !.applications = EndAt(@, s.memory.application, at),
            !.memory.application = None]

Opens(s, state) == state = "active" /\ s.memory.application = None

WriteApplication(s, state, at) ==
  IF state # "active" THEN CloseApplication(s, at)
  ELSE IF Opens(s, state)
  THEN [s EXCEPT !.applications = Append(@, NewSegment(s.memory.session, state, at)),
                 !.memory.application = Len(s.applications) + 1]
  ELSE [s EXCEPT !.applications = EndAt(@, s.memory.application, at)]

\* The tables of s with the memory m of a transaction that did not commit: the
\* rows it inserted do not exist.
RollBack(s, m) ==
  [s EXCEPT !.memory =
     [m EXCEPT !.activity = IF @ > Len(s.activities) THEN RolledBack ELSE @,
               !.application = IF @ > Len(s.applications) THEN RolledBack ELSE @]]

\* RecordObservation: one transaction around both writers.  The tables go back
\* when it fails, the memory does not.
Failures == {"none", "begin", "closeApplication", "insertApplication", "commit"}

RecordObservation(s, state, at, failure) ==
  LET first  == WriteActivity(s, state, at)
      second == WriteApplication(first, state, at)
  IN  CASE failure = "none" -> second
        [] failure = "begin" -> s
        [] failure = "closeApplication" -> RollBack(s, first.memory)
        [] failure = "insertApplication" ->
             RollBack(s, IF Opens(s, state) THEN CloseApplication(first, at).memory ELSE first.memory)
        [] failure = "commit" -> RollBack(s, second.memory)

\* extendOpenSegments, the first of the two transactions of PrepareDailySummary.
Extend(s, at) ==
  [s EXCEPT !.activities = EndAt(@, s.memory.activity, at),
            !.applications = EndAt(@, s.memory.application, at)]

\* FinalizeSession: the session this process holds, finalized or not.
Finalized(table, id, at) == [table EXCEPT ![id] = [open |-> FALSE, to |-> at]]

\* Mutants: the earlier sessions are left open, or the segments in memory kept.
WithOneMoreSession(table, at) == Append(table, [open |-> TRUE, to |-> at])

MemoryKept(table) == [memory EXCEPT !.session = Len(table)]

\* StartSession: every session left open is closed as crash recovery (every one of
\* the local user, the only one here).
WithNewSession(table, at) ==
  Append([i \in DOMAIN table |-> IF table[i].open THEN [open |-> FALSE, to |-> at] ELSE table[i]],
         [open |-> TRUE, to |-> at])

FreshMemory(table) == [NoMemory EXCEPT !.session = Len(table)]

-----------------------------------------------------------------------------
SetStore(s) ==
  /\ activities' = s.activities /\ applications' = s.applications /\ memory' = s.memory

Fails(n) == failures' = failures + n /\ failures' <= MaxFailures

\* Time.Sub of two times read from the clock: the difference on the monotonic one.
Elapsed(earlier, later) == (later.wall - earlier.wall) - (later.drift - earlier.drift)

\* Mutant: the sample is recorded without looking at the gap.
SampleWithoutGap(s, last, t) ==
  \E state \in Observed :
    /\ SetStore(RecordObservation(s, state, t.wall, "none"))
    /\ lastSample' = t
    /\ samples' = samples \cup {t}
    /\ UNCHANGED failures

\* Runner.sample at time t, on the store s: a long gap since the last sample is
\* recorded as sleep from one interval after that sample.
SampleFrom(s, last, t) ==
  LET slept == last # Never /\ Elapsed(last, t) > SleepGap
  IN  \E state \in Observed, f \in Failures, g \in Failures :
        /\ ~slept => f = "none"
        /\ Fails(Cardinality({x \in {<<1, f>>, <<2, g>>} : x[2] # "none"}))
        /\ LET asleep == IF slept THEN RecordObservation(s, "sleeping", last.wall + 1, f) ELSE s
           IN  SetStore(RecordObservation(asleep, state, t.wall, g))
        /\ lastSample' = t
        /\ samples' = samples \cup {t}

Room == Len(activities) + 2 <= MaxSegments /\ Len(applications) + 1 <= MaxSegments

\* A sample interval passes; a ticker whose tick is still undelivered drops the
\* new one.
Tick ==
  /\ clock < MaxTime
  /\ clock' = clock + 1
  /\ sampleTick' = IF up /\ sampleTick = Never THEN [Now EXCEPT !.wall = clock + 1] ELSE sampleTick
  /\ summaryTick' = IF up /\ summaryTick = Never /\ (clock + 1) % SummaryEvery = 0
                    THEN [Now EXCEPT !.wall = clock + 1] ELSE summaryTick
  /\ UNCHANGED <<drift, up, lastSample, tableVars, memory, failures, samples>>

\* The machine is suspended for n intervals; the tickers may fire as it wakes.
Suspend(n) ==
  /\ up /\ clock + n <= MaxTime
  /\ clock' = clock + n
  /\ drift' \in {drift, drift + n}
  /\ LET woken == [wall |-> clock', drift |-> drift']
     IN  /\ sampleTick' = IF sampleTick = Never THEN woken ELSE sampleTick
         /\ summaryTick' \in IF summaryTick = Never THEN {Never, woken} ELSE {summaryTick}
  /\ UNCHANGED <<up, lastSample, tableVars, memory, failures, samples>>

\* Runner.Run: a session is started and the first sample taken at once; the
\* process ends if the session cannot be started.
Run ==
  /\ ~up /\ Len(sessions) < MaxSessions /\ Room
  /\ up' = TRUE
  /\ sessions' = WithNewSession(sessions, clock)
  /\ SampleFrom([Store EXCEPT !.memory = FreshMemory(sessions')], Never, Now)
  /\ UNCHANGED clockVars

Sample ==
  /\ up /\ sampleTick # Never /\ Room
  /\ SampleFrom(Store, lastSample, sampleTick)
  /\ sampleTick' = Never
  /\ UNCHANGED <<clock, drift, summaryTick, up, sessions>>

(***************************************************************************)
(* A summary first extends the open segments, then writes its revision; it *)
(* fails before, between or not at all.  DailySummary adds the revision.   *)
(***************************************************************************)
SummaryResults == {"failed", "extended", "done"}

SummaryStore(at, result) == IF result = "failed" THEN Store ELSE Extend(Store, at)

SummaryFailures(result) == IF result = "done" THEN 0 ELSE 1

\* PrepareDailySummary at a summary tick, for the time the tick fired at.
PrepareDailySummary(result) ==
  /\ up /\ summaryTick # Never
  /\ SetStore(SummaryStore(summaryTick.wall, result))
  /\ Fails(SummaryFailures(result))
  /\ summaryTick' = Never
  /\ UNCHANGED <<clock, drift, sampleTick, up, lastSample, sessions, samples>>

\* consumeControl: summary, FinalizeSession, StartSession, each returning early
\* when it fails.
Logout(result) ==
  /\ up /\ Len(sessions) < MaxSessions
  /\ LET summarised == SummaryStore(clock, result)
         closed == Finalized(sessions, memory.session, clock)
     IN  \/ SetStore(summarised) /\ Fails(1) /\ UNCHANGED sessions
         \/ result = "done" /\ SetStore(summarised) /\ Fails(1) /\ sessions' = closed
         \/ /\ result = "done"
            /\ sessions' = WithNewSession(closed, clock)
            /\ SetStore([summarised EXCEPT !.memory = FreshMemory(sessions')])
            /\ UNCHANGED failures
  /\ UNCHANGED <<clockVars, up, lastSample, samples>>

EndProcess ==
  /\ up' = FALSE
  /\ sampleTick' = Never /\ summaryTick' = Never /\ lastSample' = Never
  /\ memory' = NoMemory /\ samples' = {}
  /\ UNCHANGED <<clock, drift>>

\* shutdown: summary and FinalizeSession, the second even if the first fails.
Shutdown(result) ==
  /\ up
  /\ activities' = SummaryStore(clock, result).activities
  /\ applications' = SummaryStore(clock, result).applications
  /\ \/ sessions' = Finalized(sessions, memory.session, clock) /\ Fails(SummaryFailures(result))
     \/ UNCHANGED sessions /\ Fails(SummaryFailures(result) + 1)
  /\ EndProcess

Crash ==
  /\ up
  /\ EndProcess
  /\ UNCHANGED <<tableVars, failures>>

Next ==
  \/ Tick \/ \E n \in 1..SleepGap + 1 : Suspend(n)
  \/ Run \/ Sample \/ Crash
  \/ \E r \in SummaryResults : PrepareDailySummary(r) \/ Logout(r) \/ Shutdown(r)

Spec == Init /\ [][Next]_vars

-----------------------------------------------------------------------------
(***************************************************************************)
(* Properties.                                                             *)
(***************************************************************************)

Overlap(x, y) == x.from < y.to /\ y.from < x.to

\* Only the latest session may be open, however often the process crashed or a
\* logout stopped half-way (StartSession closes what it finds, FinalizeSession).
OneOpenSession == \A i \in DOMAIN sessions : sessions[i].open => i = Len(sessions)

\* While no transaction fails, no moment of a session is counted in two activity
\* segments, though ticks are handled late, summaries extend the open segment
\* past them and an inferred sleep closes it backwards in time
\* (writeActivitySegment, extendOpenSegments).
SessionTimeCountedOnce ==
  failures = 0 => \A i, j \in DOMAIN activities :
    activities[i].session = activities[j].session /\ i < j =>
      ~Overlap(activities[i], activities[j])

\* The segments of a session this process does not hold never change again,
\* whatever the memory of the store refers to (StartSession forgets it).
ClosedSessionsFrozen ==
  [][\A table \in {<<activities, activities'>>, <<applications, applications'>>} :
       \A i \in DOMAIN table[1] :
         table[1][i].session # memory.session => table[2][i] = table[1][i]]_vars

\* While no transaction fails, an application is in the foreground only while
\* the user is recorded as active: application totals never exceed active time
\* (RecordObservation and extendOpenSegments move both tables together).
ForegroundIsActive ==
  failures = 0 =>
    \A i \in DOMAIN applications : \A t \in applications[i].from .. applications[i].to - 1 :
      \E j \in DOMAIN activities :
        /\ activities[j].state = "active"
        /\ activities[j].session = applications[i].session
        /\ activities[j].from <= t /\ t < activities[j].to

\* When a sample has been recorded, every active moment of its session, but for the
\* last interval of a segment, lies between two samples that the monotonic clock says
\* were at most SleepGap apart: the machine was not silent for longer and taken as
\* active.  That is all that Runner.sample can tell: time suspended while this clock
\* stands still counts as active, as much as there is (the inferred sleep of
\* Runner.sample, which closes one interval after the sample before).
ActiveTimeIsWitnessed ==
  [][up /\ up' /\ lastSample' # lastSample /\ failures' = 0 =>
       \A i \in DOMAIN activities' :
         LET a == activities'[i]
         IN  a.session = memory'.session /\ a.state = "active" =>
               \A t \in a.from .. a.to - 2 : \E x, y \in samples' :
                 x.wall <= t /\ t < y.wall /\ Elapsed(x, y) <= SleepGap]_vars

\* When a sample has been recorded and no transaction has failed, every moment of
\* its session since its first segment is in a segment: late ticks, backdated
\* sleeps and extensions leave no hole (writeActivitySegment closes at the moment
\* it opens, Runner.sample records the sleep before the sample).
SampledTimeIsRecorded ==
  [][up /\ up' /\ samples' # samples /\ failures' = 0 =>
       LET own == {i \in DOMAIN activities' : activities'[i].session = memory'.session}
       IN  \A i \in own : \A t \in activities'[i].from .. lastSample'.wall - 1 :
             \E j \in own : activities'[j].from <= t /\ t < activities'[j].to]_vars

\* While activity stays the same the current segment stays open: the segment
\* the store extends is a row of the table.
OpenSegmentExists == memory.activity # RolledBack /\ memory.application # RolledBack

-----------------------------------------------------------------------------
(***************************************************************************)
(* The inductive invariant, on the clock and on a store s of the form of   *)
(* Store, because a sample writes the store twice.                         *)
(***************************************************************************)

\* A tick is delivered in the process it fired in, after the last sample.
ClockInv ==
  /\ drift <= clock
  /\ \A i \in {sampleTick, summaryTick, lastSample} :
       i = Never \/ (i.wall \in 0..clock /\ i.drift <= drift)
  /\ sampleTick # Never => lastSample.wall < sampleTick.wall /\ lastSample.drift <= sampleTick.drift
  /\ up <=> lastSample # Never
  /\ ~up => sampleTick = Never /\ summaryTick = Never
  /\ up => lastSample \in samples

\* The process holds the latest session.
SessionInv ==
  /\ OneOpenSession
  /\ Len(sessions) <= MaxSessions
  /\ IF up THEN Len(sessions) # 0 /\ memory.session = Len(sessions) ELSE memory = NoMemory
  /\ \A table \in {activities, applications} : \A i \in DOMAIN table : table[i].session <= Len(sessions)

\* The segments in memory are of the session in memory, if they exist.
MemoryInv(s) ==
  /\ s.memory.activity <= Len(s.activities) /\ s.memory.application <= Len(s.applications)
  /\ s.memory.activity \in DOMAIN s.activities =>
       s.activities[s.memory.activity].session = s.memory.session
  /\ s.memory.application \in DOMAIN s.applications =>
       s.applications[s.memory.application].session = s.memory.session

\* The rest holds while no transaction has failed.

\* The segment in memory is the last of its session, and began at the latest sample
\* or before; the segments of a session lie one after the other.
OrderInv(s, last) ==
  /\ \A i, j \in DOMAIN s.activities :
       i < j /\ s.activities[i].session = s.activities[j].session =>
         s.activities[i].to <= s.activities[j].from
  /\ IF s.memory.activity = None
     THEN \A i \in DOMAIN s.activities : s.activities[i].session # s.memory.session
     ELSE LET open == s.activities[s.memory.activity]
          IN  /\ s.memory.activity = Len(s.activities)
              /\ open.state = s.memory.state /\ open.from <= last

\* Every application segment is an active segment, the open one the open one.
ForegroundInv(s) ==
  /\ s.memory.application # None <=> s.memory.activity # None /\ s.memory.state = "active"
  /\ s.memory.application # None => s.memory.application \in DOMAIN s.applications
  /\ \A i \in DOMAIN s.applications :
       /\ s.applications[i].state = "active"
       /\ IF i = s.memory.application
          THEN s.applications[i] = s.activities[s.memory.activity]
          ELSE \E j \in DOMAIN s.activities \ {s.memory.activity} :
                 s.activities[j] = s.applications[i]

\* The closed segments of the session leave no hole before the open one.
CoverInv(s) ==
  s.memory.activity # None =>
    \A i \in DOMAIN s.activities :
      s.activities[i].session = s.memory.session =>
        \A t \in s.activities[i].from .. s.activities[s.memory.activity].from - 1 :
          \E j \in DOMAIN s.activities \ {s.memory.activity} :
            /\ s.activities[j].session = s.memory.session
            /\ s.activities[j].from <= t /\ t < s.activities[j].to

\* The active time of the session up to the last sample, or to the last interval of a
\* closed segment, lies between samples close to each other.
WitnessInv(s, last, seen) ==
  \A i \in DOMAIN s.activities :
    s.activities[i].session = s.memory.session /\ s.activities[i].state = "active" =>
      \A t \in s.activities[i].from ..
               (IF i = s.memory.activity THEN last ELSE s.activities[i].to - 1) - 1 :
        \E x, y \in seen : x.wall <= t /\ t < y.wall /\ Elapsed(x, y) <= SleepGap

CleanInv(s, last) == OrderInv(s, last) /\ ForegroundInv(s) /\ CoverInv(s)

ActivityInv ==
  /\ TypeOK /\ ClockInv /\ SessionInv /\ MemoryInv(Store)
  /\ failures = 0 => CleanInv(Store, lastSample.wall) /\ WitnessInv(Store, lastSample.wall, samples)
=============================================================================
