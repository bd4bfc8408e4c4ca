----------------------------- MODULE Attendance -----------------------------
(***************************************************************************)
(* The prompt attendance check-in: reportAttendance of the runner          *)
(* (internal/agent/runner.go) and CheckIn of the client                    *)
(* (internal/attendance/client.go).  The first moment the service runs on  *)
(* a local day is queued in a file before it is sent, and days leave the   *)
(* file when the server has accepted them.  Saving or sending may fail in  *)
(* every round, a request that was given up may still arrive, and the      *)
(* process may crash anywhere.                                             *)
(***************************************************************************)
EXTENDS Integers

CONSTANTS
  DayLength,  \* moments of a local day
  MaxTime,    \* bound: the last moment
  None

ASSUME AttendanceAssumption ==
  DayLength \in Nat \ {0} /\ MaxTime \in Nat /\ None \notin 0..MaxTime

VARIABLES
  now,
  pending,        \* the pending file: the queued moment of each day, or None
  queue,          \* the map CheckIn works on, as loaded and changed
  pc,             \* where CheckIn is: "idle", "send", "remove"
  checkedInDate,  \* of the runner
  pendingCheckIn, \* of the runner
  checkIn,        \* what the server recorded for each day, or None (external)
  inTransit,      \* requests that were given up and may still arrive (external)
  firstQueued     \* history: the first moment that was durably queued for a day

server == <<checkIn, inTransit>>
memory == <<checkedInDate, pendingCheckIn>>
vars == <<now, pending, queue, pc, memory, server, firstQueued>>

Time == 0..MaxTime
Day(t) == t \div DayLength
Days == 0..Day(MaxTime)
Moments == [Days -> Time \cup {None}]
Empty == [d \in Days |-> None]
Queued(q) == {d \in Days : q[d] # None}

TypeOK ==
  /\ now \in Time
  /\ pending \in Moments /\ queue \in Moments
  /\ pc \in {"idle", "send", "remove"}
  /\ checkedInDate \in Days \cup {None} /\ pendingCheckIn \in Time \cup {None}
  /\ checkIn \in Moments /\ inTransit \in SUBSET (Days \X Time)
  /\ firstQueued \in Moments

Init ==
  /\ now = 0
  /\ pending = Empty /\ queue = Empty /\ pc = "idle"
  /\ checkedInDate = None /\ pendingCheckIn = None
  /\ checkIn = Empty /\ inTransit = {} /\ firstQueued = Empty

-----------------------------------------------------------------------------
\* The server inserts a record for the employee and the day, or ignores it.
Received(d, t) ==
  checkIn' = IF checkIn[d] = None THEN [checkIn EXCEPT ![d] = t] ELSE checkIn

\* reportAttendance: the moment the runner reports for today.
FirstSeen ==
  IF pendingCheckIn # None /\ Day(pendingCheckIn) = Day(now) THEN pendingCheckIn ELSE now

\* Mutant: the moment of today's queued check-in is replaced.
WithLatest(q, t) == [q EXCEPT ![Day(t)] = t]

WithToday(q, t) == IF q[Day(t)] = None THEN [q EXCEPT ![Day(t)] = t] ELSE q

\* Mutant: the runner reports once, and not once a day.
ReportOnce ==
  /\ pc = "idle" /\ checkedInDate = None
  /\ pendingCheckIn' = FirstSeen
  /\ queue' = WithToday(pending, FirstSeen) /\ pending' = queue' /\ pc' = "send"
  /\ UNCHANGED <<now, checkedInDate, server, firstQueued>>

\* CheckIn loads the file and, unless today is in it already, saves it with today
\* (write to a temporary file, rename).  Loading or saving may fail.
ReportAttendance ==
  /\ pc = "idle" /\ checkedInDate # Day(now)
  /\ pendingCheckIn' = FirstSeen
  /\ \/ /\ queue' = WithToday(pending, FirstSeen)
        /\ pending' = queue'
        /\ firstQueued' = IF firstQueued[Day(now)] = None
                            THEN [firstQueued EXCEPT ![Day(now)] = queue'[Day(now)]]
                            ELSE firstQueued
        /\ pc' = "send"
     \/ UNCHANGED <<pending, queue, pc, firstQueued>>
  /\ UNCHANGED <<now, checkedInDate, server>>

\* The first queued day: CheckIn goes through the days in order.
First(d) == d \in Queued(queue) /\ \A e \in Queued(queue) : d <= e

\* Mutant: an error does not end the round for the other days.
SendAny(d) ==
  /\ pc = "send" /\ d \in Queued(queue)
  /\ \/ Received(d, queue[d])
     \/ UNCHANGED checkIn
  /\ queue' = [queue EXCEPT ![d] = None]
  /\ IF Queued(queue') = {} THEN pc' = "idle" ELSE UNCHANGED pc
  /\ UNCHANGED <<now, pending, memory, inTransit, firstQueued>>

\* Mutant: the day is taken out of the file before it is sent.
SendRemoved(d) ==
  /\ pc = "send" /\ First(d)
  /\ pending' = [pending EXCEPT ![d] = None]
  /\ \/ Received(d, queue[d]) /\ pc' = "remove"
     \/ pc' = "idle" /\ UNCHANGED checkIn
  /\ UNCHANGED <<now, queue, inTransit, memory, firstQueued>>

\* send: accepted; or an error, after which the server has the request, will
\* have it later, or refused it.
Send(d) ==
  /\ pc = "send" /\ First(d)
  /\ \/ Received(d, queue[d]) /\ pc' = "remove" /\ UNCHANGED inTransit
     \/ Received(d, queue[d]) /\ pc' = "idle" /\ UNCHANGED inTransit
     \/ inTransit' = inTransit \cup {<<d, queue[d]>>} /\ pc' = "idle" /\ UNCHANGED checkIn
     \/ pc' = "idle" /\ UNCHANGED server
  /\ UNCHANGED <<now, pending, queue, memory, firstQueued>>

\* Mutant: today counts as checked in once it is queued.
RemoveOrGiveUp(d) ==
  /\ pc \in {"send", "remove"} /\ First(d)
  /\ checkedInDate' = Day(pendingCheckIn) /\ pendingCheckIn' = None
  /\ pc' = "idle"
  /\ UNCHANGED <<now, pending, queue, server, firstQueued>>

\* The day is deleted and the file saved, or removed when it was the last one;
\* that may fail.  After the last day the runner notes that today is done.
Remove(d) ==
  /\ pc = "remove" /\ First(d)
  /\ queue' = [queue EXCEPT ![d] = None]
  /\ \/ /\ pending' = queue'
        /\ IF Queued(queue') # {}
             THEN pc' = "send" /\ UNCHANGED memory
             ELSE /\ pc' = "idle"
                  /\ checkedInDate' = Day(pendingCheckIn)
                  /\ pendingCheckIn' = None
     \/ pc' = "idle" /\ UNCHANGED <<pending, memory>>
  /\ UNCHANGED <<now, server, firstQueued>>

-----------------------------------------------------------------------------
\* The process ends anywhere and starts again.
Restart ==
  /\ pc' = "idle"
  /\ checkedInDate' = None /\ pendingCheckIn' = None
  /\ UNCHANGED <<now, pending, queue, server, firstQueued>>

Arrive(m) ==
  /\ Received(m[1], m[2])
  /\ inTransit' = inTransit \ {m}
  /\ UNCHANGED <<now, pending, queue, pc, memory, firstQueued>>

Tick ==
  /\ now < MaxTime
  /\ now' = now + 1
  /\ UNCHANGED <<pending, queue, pc, memory, server, firstQueued>>

Next ==
  \/ ReportAttendance \/ Restart \/ Tick
  \/ \E d \in Days : Send(d) \/ Remove(d)
  \/ \E m \in inTransit : Arrive(m)

Spec == Init /\ [][Next]_vars

\* Heartbeats keep coming, and the disk and the server work again and again.
Fairness ==
  /\ SF_vars(ReportAttendance /\ pc' = "send")
  /\ SF_vars(\E d \in Days : Send(d) /\ pc' = "remove")
  /\ SF_vars(\E d \in Days : Remove(d) /\ (pc' = "send" \/ checkedInDate' # checkedInDate))

FairSpec == Spec /\ Fairness

-----------------------------------------------------------------------------
(***************************************************************************)
(* Properties.                                                             *)
(***************************************************************************)

\* The recorded check-in of a day is the first moment that was durably queued for
\* it, across failures, restarts and late requests (client.go:38: "keeps the
\* original check-in time").
OriginalTimeKept == \A d \in Days : checkIn[d] \in {None, firstQueued[d]}

\* A queued day leaves the file only when the server has it, and is not altered.
QueuedUntilRecorded ==
  [][\A d \in Days : pending[d] # None /\ pending'[d] # pending[d] =>
        pending'[d] = None /\ checkIn[d] # None]_vars

\* The runner stops reporting a day only when the server has it.
CheckedInIsRecorded == checkedInDate # None => checkIn[checkedInDate] # None

\* Days are recorded in order: while a queued day has not reached the server, no
\* later one has (CheckIn returns at the first error), so one day the server
\* refuses for good keeps all later days back.
RecordedInOrder ==
  \A d, e \in Days : d < e /\ pending[d] # None /\ checkIn[e] # None => checkIn[d] # None

\* Every queued day is recorded in the end.
EventuallyRecorded == \A d \in Days : pending[d] # None ~> checkIn[d] # None

\* A day the service stays in is recorded in the end, whatever the runner
\* remembers of the days before: neither the day it noted as checked in nor the
\* moment it kept for one outlives that day (reportAttendance).
TodayIsRecorded == \A d \in Days : <>[](Day(now) = d) => <>(checkIn[d] # None)

\* The inductive invariant.  What was queued is in the file or with the server, and
\* what is in the file or under way is what was queued first; a request under way
\* has no queued day before it that the server lacks.
FileInv ==
  \A d \in Days :
    /\ checkIn[d] \in {None, firstQueued[d]}
    /\ firstQueued[d] # None => pending[d] # None \/ checkIn[d] # None
    /\ pending[d] # None => firstQueued[d] # None
    /\ pending[d] # None /\ checkIn[d] = None => pending[d] = firstQueued[d]
    /\ firstQueued[d] # None => d <= Day(now)

TransitInv ==
  \A m \in inTransit :
    /\ firstQueued[m[1]] # None
    /\ checkIn[m[1]] = None => m[2] = firstQueued[m[1]]
    /\ \A d \in Days : d < m[1] /\ pending[d] # None => checkIn[d] # None

RoundInv ==
  /\ pc # "idle" => queue = pending /\ pendingCheckIn # None
                      /\ firstQueued[Day(pendingCheckIn)] # None
  /\ pc = "remove" => \A d \in Days : First(d) => checkIn[d] # None

AttendanceInv ==
  TypeOK /\ CheckedInIsRecorded /\ RecordedInOrder /\ FileInv /\ TransitInv /\ RoundInv
=============================================================================
