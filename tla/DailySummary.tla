---------------------------- MODULE DailySummary ----------------------------
(***************************************************************************)
(* The daily summaries made of the segments of Activity: the totals of     *)
(* aggregateSummary and the revisions PrepareDailySummary writes and       *)
(* queues (internal/store/activity.go).  A summary is of the local day it  *)
(* is made on; segments are clipped to that day and each is rounded to     *)
(* whole seconds.  Every summary of the day replaces the row in            *)
(* daily_summaries and queues its content under the next revision, in one  *)
(* transaction.                                                            *)
(***************************************************************************)
EXTENDS Activity

CONSTANTS
  Moment,     \* the time each reading of the clock stands for, in units
  Second,     \* units of a second: a moment may lie between two seconds
  DayLength   \* units from one local midnight to the next

ASSUME SummaryAssumption ==
  /\ Moment \in [0..MaxTime -> Nat]
  /\ \A s, t \in 0..MaxTime : s < t => Moment[s] < Moment[t]
  /\ Second \in Nat \ {0} /\ DayLength \in Nat \ {0}

VARIABLES
  summaries,   \* daily_summaries: the latest revision of each day, and its totals
  queued,      \* the revisions in sync_outbox
  takenBack    \* history: a crash found less time in the segments than was reported

summaryVars == <<summaries, queued>>
dayVars == <<vars, summaryVars, takenBack>>

Day(t) == Moment[t] \div DayLength
Days == 0..Day(MaxTime)

\* What a summary reports, with, as history, how many segments there were then.
Totals == [revision : Nat, active : Nat, tracked : Nat, segments : Nat]
Revisions == [day : Days, revision : Nat, active : Nat, tracked : Nat, segments : Nat]

SummaryTypeOK ==
  /\ TypeOK
  /\ summaries \in [Days -> Totals]
  /\ queued \subseteq Revisions
  /\ takenBack \in BOOLEAN

DayInit ==
  /\ Init
  /\ summaries = [d \in Days |-> [revision |-> 0, active |-> 0, tracked |-> 0, segments |-> 0]]
  /\ queued = {}
  /\ takenBack = FALSE

-----------------------------------------------------------------------------
Least(a, b) == IF a <= b THEN a ELSE b
Most(a, b) == IF a <= b THEN b ELSE a

\* The part of a segment that lies in the day.
Within(row, d) ==
  Most(0, Least(Moment[row.to], (d + 1) * DayLength) - Most(Moment[row.from], d * DayLength))

\* ROUND: to the nearest second, half a second up.
Rounded(units) == (2 * units + Second) \div (2 * Second)

\* Mutant: only the segments of the latest session are counted.
SecondsOfSession(table, states, d) ==
  Cardinality(UNION {{i} \X (1..Rounded(Within(table[i], d))) :
    i \in {j \in DOMAIN table : table[j].state \in states /\ table[j].session = Len(sessions)}})

\* aggregateSummary: the sum over the segments, of whatever session, each rounded
\* for itself; counted as the pairs of a segment and a second of it.
Seconds(table, states, d) ==
  Cardinality(UNION {{i} \X (1..Rounded(Within(table[i], d))) :
    i \in {j \in DOMAIN table : table[j].state \in states}})

\* The second transaction of PrepareDailySummary, after the segments have been
\* extended: the row is replaced and its content queued.
WriteRevision(at) ==
  LET d == Day(at)
      row == summaries'[d]
  IN  /\ summaries' = [summaries EXCEPT ![d] =
                         [revision |-> @.revision + 1,
                          active |-> Seconds(activities', {"active"}, d),
                          tracked |-> Seconds(activities', Observed \cup {"sleeping"}, d),
                          segments |-> Len(activities')]]
      /\ queued' = queued \cup {[day |-> d, revision |-> row.revision, active |-> row.active,
                                 tracked |-> row.tracked, segments |-> row.segments]}

\* A summary that failed has written nothing, at whichever step it stopped.
Revise(result, at) ==
  IF result = "done" THEN WriteRevision(at) ELSE UNCHANGED summaryVars

Tracked(d) == Seconds(activities, Observed \cup {"sleeping"}, d)

\* What later summaries may find less of a day than its row holds, for the rounding.
Loss(d) == Len(activities) - summaries[d].segments

DayNext ==
  \/ /\ Tick \/ (\E n \in 1..SleepGap + 1 : Suspend(n)) \/ Run \/ Sample
     /\ UNCHANGED <<summaryVars, takenBack>>
  \/ \E r \in SummaryResults :
       /\ \/ PrepareDailySummary(r) /\ Revise(r, summaryTick.wall)
          \/ Logout(r) /\ Revise(r, clock)
          \/ Shutdown(r) /\ Revise(r, clock)
       /\ UNCHANGED takenBack
  \/ /\ Crash
     /\ takenBack' = (takenBack \/ \E d \in Days : Tracked(d) + Loss(d) < summaries[d].tracked)
     /\ UNCHANGED summaryVars

DaySpec == DayInit /\ [][DayNext]_dayVars

-----------------------------------------------------------------------------
(***************************************************************************)
(* Properties.                                                             *)
(***************************************************************************)

\* The server keeps the highest revision of a day.  While no transaction fails, it
\* reports no less time than an earlier one, but for a second at most for each
\* segment opened in between: a segment that is split, for a new state or a sleep,
\* is rounded twice.  Nothing else that was reported is taken back, though ticks come
\* late and sessions end, unless there was a crash right after a late sample had moved
\* the open segment back behind a summary (extendOpenSegments, aggregateSummary).
RevisionsGrow ==
  failures = 0 /\ ~takenBack => \A q, r \in queued :
    q.day = r.day /\ q.revision < r.revision =>
      q.tracked <= r.tracked + (r.segments - q.segments)

\* Cross-midnight segments are apportioned to the correct local date: once a later
\* day is summarised, what the segments say of an earlier day has been reported.
PastDaysComplete ==
  \A d, e \in Days : d < e /\ summaries[d].revision > 0 /\ summaries[e].revision > 0 =>
    summaries[d].tracked = Tracked(d)

-----------------------------------------------------------------------------
(***************************************************************************)
(* The inductive invariant behind RevisionsGrow.                           *)
(***************************************************************************)

\* No later summary is made for a time before this one.
NextSummary == IF summaryTick # Never THEN summaryTick.wall ELSE clock

\* What a summary made for that time finds of a day: the open segment is extended.
Upcoming(d) ==
  Seconds(EndAt(activities, memory.activity, NextSummary), Observed \cup {"sleeping"}, d)

\* The row of a day holds its latest revision and, while no transaction has failed,
\* no less than the earlier ones and no more than the next, rounding aside.
RevisionInv ==
  /\ SummaryTypeOK
  /\ \A q \in queued : q.revision <= summaries[q.day].revision
  /\ failures = 0 /\ ~takenBack =>
       /\ RevisionsGrow
       /\ \A q \in queued :
            q.tracked <= summaries[q.day].tracked + (summaries[q.day].segments - q.segments)
       /\ \A d \in Days : summaries[d].tracked <= Upcoming(d) + Loss(d)
=============================================================================
