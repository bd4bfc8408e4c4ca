-------------------------- MODULE AttendanceProofs --------------------------
(***************************************************************************)
(* Theorems about Attendance, for every length of the day, every bound of  *)
(* the time and every number of lost requests, crashes and failed saves.   *)
(***************************************************************************)
EXTENDS Attendance, TLAPS

-----------------------------------------------------------------------------
\* Days of moments.

LEMMA DivIsNat ==
  ASSUME NEW n \in Nat \ {0}, NEW s \in Nat
  PROVE  s \div n \in Nat
  BY SMTT(20)

LEMMA DivMonotonic ==
  ASSUME NEW n \in Nat \ {0}, NEW s \in Nat, NEW t \in Nat, s <= t
  PROVE  s \div n <= t \div n
<1>1. s = n * (s \div n) + (s % n) /\ 0 <= s % n /\ s % n < n
  BY SMTT(20)
<1>2. t = n * (t \div n) + (t % n) /\ 0 <= t % n /\ t % n < n
  BY SMTT(20)
<1>3. s \div n \in Int /\ t \div n \in Int /\ s % n \in Int /\ t % n \in Int
  BY SMTT(20)
<1>4. SUFFICES ASSUME t \div n + 1 <= s \div n PROVE FALSE
  BY <1>3
<1>5. n * (t \div n + 1) <= n * (s \div n)
  BY <1>3, <1>4
<1>6. n * (t \div n + 1) = n * (t \div n) + n
  BY <1>3
<1> QED BY <1>1, <1>2, <1>3, <1>5, <1>6

LEMMA DayType ==
  ASSUME NEW t \in Time
  PROVE  Day(t) \in Days
<1>1. DayLength \in Nat \ {0} /\ MaxTime \in Nat /\ t \in Nat /\ t <= MaxTime
  BY AttendanceAssumption DEF Time
<1>2. t \div DayLength \in Nat /\ MaxTime \div DayLength \in Nat
  BY <1>1, DivIsNat
<1>3. t \div DayLength <= MaxTime \div DayLength
  BY <1>1, DivMonotonic
<1> QED BY <1>2, <1>3 DEF Day, Days

LEMMA DaysAreIntegers ==
  /\ Days \subseteq Int
  /\ Time \subseteq Int
  /\ None \notin Time
<1>1. MaxTime \div DayLength \in Nat
  BY AttendanceAssumption, DivIsNat
<1> QED BY <1>1, AttendanceAssumption DEF Days, Day, Time

-----------------------------------------------------------------------------
USE DEF vars, server, memory

LEMMA AttendanceStart == Init => AttendanceInv
  BY AttendanceAssumption, DayType
     DEF Init, AttendanceInv, TypeOK, Moments, Empty, Time, CheckedInIsRecorded,
         RecordedInOrder, FileInv, TransitInv, RoundInv

\* The server's record after a request of day d arrived.
LEMMA ReceivedRecords ==
  ASSUME TypeOK, NEW d \in Days, NEW t \in Time, Received(d, t)
  PROVE  /\ checkIn' \in Moments
         /\ checkIn'[d] # None
         /\ \A e \in Days : checkIn[e] # None => checkIn'[e] = checkIn[e]
         /\ \A e \in Days : e # d => checkIn'[e] = checkIn[e]
         /\ checkIn[d] = None => checkIn'[d] = t
  BY DaysAreIntegers DEF Received, TypeOK, Moments

\* The first queued day may be recorded: a step that records it (or nothing) and
\* leaves the file alone keeps the parts of the invariant about file and server.
LEMMA RecordKeeps ==
  ASSUME AttendanceInv, NEW d \in Days, NEW t \in Time, Received(d, t),
         firstQueued[d] # None,
         checkIn[d] = None => t = firstQueued[d],
         \A e \in Days : e < d /\ pending[e] # None => checkIn[e] # None,
         inTransit' \subseteq inTransit,
         UNCHANGED <<now, pending, firstQueued, checkedInDate>>
  PROVE  /\ checkIn' \in Moments
         /\ CheckedInIsRecorded'
         /\ RecordedInOrder'
         /\ FileInv'
         /\ TransitInv'
<1>1. TypeOK /\ CheckedInIsRecorded /\ RecordedInOrder /\ FileInv /\ TransitInv
  BY DEF AttendanceInv
<1>2. /\ checkIn' \in Moments
      /\ checkIn'[d] # None
      /\ \A e \in Days : checkIn[e] # None => checkIn'[e] = checkIn[e]
      /\ \A e \in Days : e # d => checkIn'[e] = checkIn[e]
      /\ checkIn[d] = None => checkIn'[d] = t
  BY <1>1, ReceivedRecords
<1>3. CheckedInIsRecorded'
  BY <1>1, <1>2 DEF CheckedInIsRecorded, TypeOK
<1>4. RecordedInOrder'
  BY <1>1, <1>2 DEF RecordedInOrder
<1>5. FileInv'
  BY <1>1, <1>2 DEF FileInv
<1>6. TransitInv'
  BY <1>1, <1>2 DEF TransitInv, TypeOK
<1> QED BY <1>2, <1>3, <1>4, <1>5, <1>6

LEMMA ReportKeeps == AttendanceInv /\ ReportAttendance => AttendanceInv'
<1> SUFFICES ASSUME AttendanceInv, ReportAttendance PROVE AttendanceInv'
  OBVIOUS
<1>1. TypeOK /\ CheckedInIsRecorded /\ RecordedInOrder /\ FileInv /\ TransitInv /\ RoundInv
  BY DEF AttendanceInv
<1> DEFINE d == Day(now)
<1>2. d \in Days
  BY <1>1, DayType DEF TypeOK
<1>3. FirstSeen \in Time /\ Day(FirstSeen) = d
  BY <1>1 DEF FirstSeen, TypeOK
<1> DEFINE q == WithToday(pending, FirstSeen)
<1>4. /\ q \in Moments /\ q[d] # None
      /\ \A e \in Days : e # d => q[e] = pending[e]
      /\ pending[d] # None => q = pending
  BY <1>1, <1>2, <1>3, DaysAreIntegers DEF WithToday, TypeOK, Moments
<1>5. pc = "idle" /\ pendingCheckIn' = FirstSeen
      /\ UNCHANGED <<now, checkedInDate, checkIn, inTransit>>
  BY DEF ReportAttendance
<1>6. CASE UNCHANGED <<pending, queue, pc, firstQueued>>
  <2>1. TypeOK'
    BY <1>1, <1>3, <1>5, <1>6 DEF TypeOK, Moments
  <2>2. CheckedInIsRecorded' /\ RecordedInOrder' /\ FileInv' /\ TransitInv' /\ RoundInv'
    BY <1>1, <1>5, <1>6 DEF CheckedInIsRecorded, RecordedInOrder, FileInv, TransitInv, RoundInv
  <2> QED BY <2>1, <2>2 DEF AttendanceInv
<1>7. CASE /\ queue' = q /\ pending' = q /\ pc' = "send"
           /\ firstQueued' = IF firstQueued[d] = None
                               THEN [firstQueued EXCEPT ![d] = q[d]] ELSE firstQueued
  <2>1. /\ firstQueued' \in Moments /\ firstQueued'[d] # None
        /\ \A e \in Days : e # d => firstQueued'[e] = firstQueued[e]
        /\ firstQueued[d] # None => firstQueued' = firstQueued
        /\ firstQueued[d] = None => firstQueued'[d] = q[d]
    BY <1>1, <1>2, <1>4, <1>7 DEF TypeOK, Moments
  <2>2. TypeOK'
    BY <1>1, <1>3, <1>4, <1>5, <1>7, <2>1 DEF TypeOK
  <2>3. \A e \in Days : checkIn[e] # None => firstQueued[e] # None /\ e <= d
    BY <1>1 DEF FileInv, TypeOK, Moments
  <2>4. RecordedInOrder'
    <3> SUFFICES ASSUME NEW b \in Days, NEW e \in Days, b < e, q[b] # None, checkIn[e] # None
                 PROVE  checkIn[b] # None
      BY <1>5, <1>7 DEF RecordedInOrder
    <3>1. b # d
      BY <2>3, <1>2, DaysAreIntegers
    <3> QED BY <3>1, <1>1, <1>4 DEF RecordedInOrder
  <2>5. FileInv'
    <3> SUFFICES ASSUME NEW e \in Days
        PROVE  /\ checkIn[e] \in {None, firstQueued'[e]}
               /\ firstQueued'[e] # None => q[e] # None \/ checkIn[e] # None
               /\ q[e] # None => firstQueued'[e] # None
               /\ q[e] # None /\ checkIn[e] = None => q[e] = firstQueued'[e]
               /\ firstQueued'[e] # None => e <= d
      BY <1>5, <1>7 DEF FileInv
    <3>1. CASE e # d
      BY <3>1, <1>1, <1>4, <2>1 DEF FileInv
    <3>2. CASE e = d
      BY <3>2, <1>1, <1>2, <1>4, <2>1, <2>3, DaysAreIntegers DEF FileInv
    <3> QED BY <3>1, <3>2
  <2>6. TransitInv'
    <3> SUFFICES ASSUME NEW m \in inTransit
        PROVE  /\ firstQueued'[m[1]] # None
               /\ checkIn[m[1]] = None => m[2] = firstQueued'[m[1]]
               /\ \A e \in Days : e < m[1] /\ q[e] # None => checkIn[e] # None
      BY <1>5, <1>7 DEF TransitInv
    <3>1. m[1] \in Days /\ firstQueued[m[1]] # None /\ m[1] <= d
      BY <1>1 DEF TransitInv, FileInv, TypeOK
    <3>2. firstQueued'[m[1]] = firstQueued[m[1]]
      BY <2>1, <3>1
    <3>3. ASSUME NEW e \in Days, e < m[1] PROVE q[e] = pending[e]
      <4>1. e \in Int /\ m[1] \in Int /\ d \in Int
        BY <1>2, <3>1, DaysAreIntegers
      <4> HIDE DEF d, q
      <4>2. e # d
        BY <3>1, <3>3, <4>1
      <4> QED BY <1>4, <4>2
    <3>4. /\ checkIn[m[1]] = None => m[2] = firstQueued[m[1]]
          /\ \A e \in Days : e < m[1] /\ pending[e] # None => checkIn[e] # None
      BY <1>1 DEF TransitInv
    <3>5. checkIn[m[1]] = None => m[2] = firstQueued'[m[1]]
      BY <3>2, <3>4
    <3>6. ASSUME NEW e \in Days, e < m[1], q[e] # None PROVE checkIn[e] # None
      BY <3>3, <3>4, <3>6
    <3>7. firstQueued'[m[1]] # None
      BY <3>1, <3>2
    <3> QED BY <3>5, <3>6, <3>7
  <2>7. RoundInv'
    BY <1>3, <1>5, <1>7, <2>1, DaysAreIntegers DEF RoundInv
  <2>8. CheckedInIsRecorded'
    BY <1>1, <1>5 DEF CheckedInIsRecorded
  <2> QED BY <2>2, <2>4, <2>5, <2>6, <2>7, <2>8 DEF AttendanceInv
<1> QED BY <1>6, <1>7 DEF ReportAttendance

LEMMA SendKeeps == AttendanceInv /\ (\E d \in Days : Send(d)) => AttendanceInv'
<1> SUFFICES ASSUME AttendanceInv, NEW d \in Days, Send(d) PROVE AttendanceInv'
  OBVIOUS
<1>1. TypeOK /\ CheckedInIsRecorded /\ RecordedInOrder /\ FileInv /\ TransitInv /\ RoundInv
  BY DEF AttendanceInv
<1>2. pc = "send" /\ First(d) /\ UNCHANGED <<now, pending, queue, memory, firstQueued>>
  BY DEF Send
<1>3. queue = pending /\ pendingCheckIn # None /\ firstQueued[Day(pendingCheckIn)] # None
  BY <1>1, <1>2 DEF RoundInv
<1>4. queue[d] # None /\ \A e \in Days : e < d => pending[e] = None
  BY <1>2, <1>3, DaysAreIntegers DEF First, Queued
<1>5. queue[d] \in Time /\ firstQueued[d] # None /\ (checkIn[d] = None => queue[d] = firstQueued[d])
  BY <1>1, <1>3, <1>4 DEF TypeOK, Moments, FileInv
<1>6. CASE Received(d, queue[d]) /\ pc' \in {"remove", "idle"} /\ UNCHANGED inTransit
  <2>1. checkIn' \in Moments /\ CheckedInIsRecorded' /\ RecordedInOrder' /\ FileInv' /\ TransitInv'
    BY <1>2, <1>4, <1>5, <1>6, RecordKeeps
  <2>2. TypeOK'
    BY <1>1, <1>2, <1>6, <2>1 DEF TypeOK
  <2>3. checkIn'[d] # None
    BY <1>1, <1>5, <1>6, ReceivedRecords
  <2>4. \A e \in Days : First(e)' => e = d
    BY <1>2, DaysAreIntegers DEF First, Queued
  <2>5. RoundInv'
    BY <1>2, <1>3, <2>3, <2>4 DEF RoundInv
  <2> QED BY <2>1, <2>2, <2>5 DEF AttendanceInv
<1>7. CASE inTransit' = inTransit \cup {<<d, queue[d]>>} /\ pc' = "idle" /\ UNCHANGED checkIn
  <2>1. TypeOK'
    BY <1>1, <1>2, <1>5, <1>7 DEF TypeOK
  <2>2. CheckedInIsRecorded' /\ RecordedInOrder' /\ FileInv' /\ RoundInv'
    BY <1>1, <1>2, <1>7 DEF CheckedInIsRecorded, RecordedInOrder, FileInv, RoundInv
  <2>3. TransitInv'
    BY <1>1, <1>2, <1>4, <1>5, <1>7 DEF TransitInv
  <2> QED BY <2>1, <2>2, <2>3 DEF AttendanceInv
<1>8. CASE pc' = "idle" /\ UNCHANGED <<checkIn, inTransit>>
  <2>1. TypeOK'
    BY <1>1, <1>2, <1>8 DEF TypeOK
  <2>2. CheckedInIsRecorded' /\ RecordedInOrder' /\ FileInv' /\ TransitInv' /\ RoundInv'
    BY <1>1, <1>2, <1>8 DEF CheckedInIsRecorded, RecordedInOrder, FileInv, TransitInv, RoundInv
  <2> QED BY <2>1, <2>2 DEF AttendanceInv
<1> QED BY <1>6, <1>7, <1>8 DEF Send

LEMMA RemoveKeeps == AttendanceInv /\ (\E d \in Days : Remove(d)) => AttendanceInv'
<1> SUFFICES ASSUME AttendanceInv, NEW d \in Days, Remove(d) PROVE AttendanceInv'
  OBVIOUS
<1>1. TypeOK /\ CheckedInIsRecorded /\ RecordedInOrder /\ FileInv /\ TransitInv /\ RoundInv
  BY DEF AttendanceInv
<1>2. pc = "remove" /\ First(d) /\ UNCHANGED <<now, checkIn, inTransit, firstQueued>>
  BY DEF Remove
<1>3. queue = pending /\ pendingCheckIn # None /\ firstQueued[Day(pendingCheckIn)] # None
      /\ checkIn[d] # None
  BY <1>1, <1>2 DEF RoundInv
<1>4. queue' = [queue EXCEPT ![d] = None]
  BY DEF Remove
<1>5. queue' \in Moments /\ queue'[d] = None /\ \A e \in Days : e # d => queue'[e] = pending[e]
  BY <1>1, <1>3, <1>4 DEF TypeOK, Moments
<1>6. CASE pc' = "idle" /\ UNCHANGED <<pending, memory>>
  <2>1. TypeOK'
    BY <1>1, <1>2, <1>5, <1>6 DEF TypeOK
  <2>2. CheckedInIsRecorded' /\ RecordedInOrder' /\ FileInv' /\ TransitInv' /\ RoundInv'
    BY <1>1, <1>2, <1>6 DEF CheckedInIsRecorded, RecordedInOrder, FileInv, TransitInv, RoundInv
  <2> QED BY <2>1, <2>2 DEF AttendanceInv
<1>7. CASE pending' = queue'
  <2>1. RecordedInOrder' /\ FileInv' /\ TransitInv'
    <3>1. \A e \in Days : pending'[e] # None => pending[e] # None /\ pending'[e] = pending[e]
      BY <1>5, <1>7
    <3>2. RecordedInOrder'
      BY <1>1, <1>2, <3>1 DEF RecordedInOrder
    <3>3. FileInv'
      BY <1>1, <1>2, <1>3, <1>5, <1>7, <3>1 DEF FileInv
    <3>4. TransitInv'
      BY <1>1, <1>2, <3>1 DEF TransitInv
    <3> QED BY <3>2, <3>3, <3>4
  <2>2. CASE pc' = "send" /\ UNCHANGED memory
    <3>1. TypeOK' /\ CheckedInIsRecorded'
      BY <1>1, <1>2, <1>5, <1>7, <2>2 DEF TypeOK, CheckedInIsRecorded
    <3>2. RoundInv'
      BY <1>2, <1>3, <1>7, <2>2 DEF RoundInv
    <3> QED BY <2>1, <3>1, <3>2 DEF AttendanceInv
  <2>3. CASE /\ Queued(queue') = {} /\ pc' = "idle"
             /\ checkedInDate' = Day(pendingCheckIn) /\ pendingCheckIn' = None
    <3>1. Day(pendingCheckIn) \in Days
      BY <1>1, <1>3, DayType DEF TypeOK
    <3>2. TypeOK'
      BY <1>1, <1>2, <1>5, <1>7, <2>3, <3>1 DEF TypeOK
    <3>3. \A e \in Days : queue'[e] = None
      BY <2>3 DEF Queued
    <3>4. checkIn[Day(pendingCheckIn)] # None
      BY <1>1, <1>3, <1>5, <3>1, <3>3 DEF FileInv
    <3>5. CheckedInIsRecorded'
      BY <1>2, <2>3, <3>4 DEF CheckedInIsRecorded
    <3>6. RoundInv'
      BY <2>3 DEF RoundInv
    <3> QED BY <2>1, <3>2, <3>5, <3>6 DEF AttendanceInv
  <2> QED BY <1>6, <2>2, <2>3 DEF Remove
<1> QED BY <1>6, <1>7 DEF Remove

LEMMA ArriveKeeps == AttendanceInv /\ (\E m \in inTransit : Arrive(m)) => AttendanceInv'
<1> SUFFICES ASSUME AttendanceInv, NEW m \in inTransit, Arrive(m) PROVE AttendanceInv'
  OBVIOUS
<1>1. TypeOK /\ CheckedInIsRecorded /\ RecordedInOrder /\ FileInv /\ TransitInv /\ RoundInv
  BY DEF AttendanceInv
<1>2. m[1] \in Days /\ m[2] \in Time
  BY <1>1 DEF TypeOK
<1>3. Received(m[1], m[2]) /\ inTransit' \subseteq inTransit
      /\ UNCHANGED <<now, pending, queue, pc, memory, firstQueued>>
  BY DEF Arrive
<1>4. /\ firstQueued[m[1]] # None
      /\ checkIn[m[1]] = None => m[2] = firstQueued[m[1]]
      /\ \A e \in Days : e < m[1] /\ pending[e] # None => checkIn[e] # None
  BY <1>1 DEF TransitInv
<1>5. checkIn' \in Moments /\ CheckedInIsRecorded' /\ RecordedInOrder' /\ FileInv' /\ TransitInv'
  BY <1>2, <1>3, <1>4, RecordKeeps
<1>6. TypeOK'
  BY <1>1, <1>3, <1>5 DEF TypeOK
<1>7. \A e \in Days : checkIn[e] # None => checkIn'[e] # None
  BY <1>1, <1>2, <1>3, ReceivedRecords
<1>8. \A e \in Days : First(e)' => First(e)
  BY <1>3 DEF First, Queued
<1>9. RoundInv'
  BY <1>1, <1>3, <1>7, <1>8 DEF RoundInv
<1> QED BY <1>5, <1>6, <1>9 DEF AttendanceInv

LEMMA TickKeeps == AttendanceInv /\ Tick => AttendanceInv'
<1> SUFFICES ASSUME AttendanceInv, Tick PROVE AttendanceInv'
  OBVIOUS
<1>1. TypeOK /\ CheckedInIsRecorded /\ RecordedInOrder /\ FileInv /\ TransitInv /\ RoundInv
  BY DEF AttendanceInv
<1>2. now \in 0..MaxTime /\ now' = now + 1 /\ now < MaxTime
      /\ UNCHANGED <<pending, queue, pc, memory, server, firstQueued>>
  BY <1>1 DEF Tick, TypeOK, Time
<1>3. now' \in Time /\ now \in Nat /\ now' \in Nat /\ now <= now'
  BY <1>2, AttendanceAssumption DEF Time
<1>4. Day(now) \in Days /\ Day(now') \in Days /\ Day(now) <= Day(now')
  BY <1>1, <1>3, DayType, DivMonotonic, AttendanceAssumption DEF Day, TypeOK
<1>5. TypeOK'
  BY <1>1, <1>2, <1>3 DEF TypeOK
<1>6. CheckedInIsRecorded' /\ RecordedInOrder' /\ TransitInv' /\ RoundInv'
  BY <1>1, <1>2 DEF CheckedInIsRecorded, RecordedInOrder, TransitInv, RoundInv, First, Queued
<1>7. ASSUME NEW e \in Days, e <= Day(now)
      PROVE  e <= Day(now')
  <2>1. e \in Int /\ Day(now) \in Int /\ Day(now') \in Int
    BY <1>4, DaysAreIntegers
  <2> HIDE DEF Day
  <2> QED BY <1>4, <1>7, <2>1
<1>8. FileInv'
  BY <1>1, <1>2, <1>7 DEF FileInv
<1> QED BY <1>5, <1>6, <1>8 DEF AttendanceInv

LEMMA RestartKeeps == AttendanceInv /\ Restart => AttendanceInv'
  BY DEF AttendanceInv, Restart, TypeOK, CheckedInIsRecorded, RecordedInOrder, FileInv,
         TransitInv, RoundInv

\* The invariant is inductive: every step of reporting, sending, removing, losing,
\* crashing and waiting keeps it.
THEOREM AttendanceAlways == Spec => []AttendanceInv
<1>1. AttendanceInv /\ [Next]_vars => AttendanceInv'
  <2> SUFFICES ASSUME AttendanceInv, [Next]_vars PROVE AttendanceInv'
    OBVIOUS
  <2>1. CASE UNCHANGED vars
    BY <2>1 DEF AttendanceInv, TypeOK, CheckedInIsRecorded, RecordedInOrder, FileInv,
                TransitInv, RoundInv, First, Queued
  <2> QED BY <2>1, ReportKeeps, SendKeeps, RemoveKeeps, ArriveKeeps, TickKeeps, RestartKeeps DEF Next
<1> QED BY AttendanceStart, <1>1, PTL DEF Spec

-----------------------------------------------------------------------------
\* The recorded check-in of a day is the first moment durably queued for it
\* (client.go, CheckIn keeps the time that is in the file).
THEOREM TheOriginalTimeIsKept == Spec => []OriginalTimeKept
<1>1. AttendanceInv => OriginalTimeKept
  BY DEF AttendanceInv, FileInv, OriginalTimeKept
<1> QED BY <1>1, AttendanceAlways, PTL

\* The runner stops reporting a day only when the server has it (runner.go,
\* reportAttendance).
THEOREM CheckedInDaysAreRecorded == Spec => []CheckedInIsRecorded
<1>1. AttendanceInv => CheckedInIsRecorded
  BY DEF AttendanceInv
<1> QED BY <1>1, AttendanceAlways, PTL

\* No day is recorded before an earlier queued one, also when requests that were
\* given up arrive late (client.go, CheckIn goes through the days in order).
THEOREM DaysAreRecordedInOrder == Spec => []RecordedInOrder
<1>1. AttendanceInv => RecordedInOrder
  BY DEF AttendanceInv
<1> QED BY <1>1, AttendanceAlways, PTL

\* A queued day leaves the file only when the server has it, and is not altered
\* (client.go, the pending file).
THEOREM QueuedDaysAreKept == Spec => QueuedUntilRecorded
<1> DEFINE Kept == \A d \in Days : pending[d] # None /\ pending'[d] # pending[d] =>
                     pending'[d] = None /\ checkIn[d] # None
<1>1. AttendanceInv /\ [Next]_vars => [Kept]_vars
  <2> SUFFICES ASSUME AttendanceInv, Next PROVE Kept
    OBVIOUS
  <2>1. TypeOK /\ RoundInv
    BY DEF AttendanceInv
  <2>2. CASE ReportAttendance
    <3>1. CASE UNCHANGED pending
      BY <3>1
    <3>2. CASE pending' = WithToday(pending, FirstSeen)
      <4>1. FirstSeen \in Time
        BY <2>1 DEF FirstSeen, TypeOK
      <4>2. Day(FirstSeen) \in Days
        BY <4>1, DayType
      <4> QED BY <2>1, <3>2, <4>2 DEF WithToday, TypeOK, Moments
    <3> QED BY <2>2, <3>1, <3>2 DEF ReportAttendance
  <2>3. CASE \E d \in Days : Remove(d)
    <3>1. PICK d \in Days : Remove(d)
      BY <2>3
    <3>2. checkIn[d] # None /\ queue = pending
      BY <2>1, <3>1 DEF RoundInv, Remove
    <3> QED BY <2>1, <3>1, <3>2 DEF Remove, TypeOK, Moments
  <2>4. CASE UNCHANGED pending
    BY <2>4
  <2> QED BY <2>2, <2>3, <2>4 DEF Next, Send, Restart, Arrive, Tick
<1> QED BY <1>1, AttendanceAlways, PTL DEF Spec, QueuedUntilRecorded
=============================================================================
