--------------------------- MODULE ActivityProofs ---------------------------
(***************************************************************************)
(* Proofs about Activity, for any number of sessions, segments and failed  *)
(* transactions, and about the summaries DailySummary makes of them.       *)
(* ActivityInv is proved in three parts, each inductive relative to those  *)
(* before it: the clock and its ticks (TimeInv), the tables and the memory *)
(* of the store, whatever fails (StoreInv), and, while no transaction has  *)
(* failed, the order, the cover and the witnesses of the segments          *)
(* (CleanState).  RevisionInv rests on it.                                 *)
(***************************************************************************)
EXTENDS Activity, DailySummary, SequenceTheorems, FiniteSetTheorems, TLAPS

-----------------------------------------------------------------------------
(***************************************************************************)
(* What the operators Activity writes its tables with do, field by field,  *)
(* what every write keeps whether or not its transaction fails, and what a *)
(* write without a failure keeps of CleanInv and WitnessInv.               *)
(***************************************************************************)

Times == 0..MaxTime
Stores == [activities : Seq(Segments), applications : Seq(Segments), memory : Memories]

\* The table b is the table a after writes of one session: rows of other sessions
\* are the same, and new rows are of the session.
TableKept(a, b, session) ==
  /\ b \in Seq(Segments) /\ Len(a) <= Len(b)
  /\ \A i \in 1..Len(a) : b[i].session = a[i].session
  /\ \A i \in 1..Len(a) : a[i].session # session => b[i] = a[i]
  /\ \A i \in 1..Len(b) : Len(a) < i => b[i].session = session

MovedTo(row, at) == [session |-> row.session, state |-> row.state, from |-> row.from, to |-> at]

\* endSegment moves the end of one row and leaves the others.
LEMMA EndAtEffect ==
  ASSUME NEW table \in Seq(Segments), NEW id \in Int, NEW at \in Times
  PROVE  /\ EndAt(table, id, at) \in Seq(Segments)
         /\ Len(EndAt(table, id, at)) = Len(table)
         /\ \A i \in 1..Len(table) :
              EndAt(table, id, at)[i] = IF i = id THEN MovedTo(table[i], at) ELSE table[i]
<1>1. \A row \in Segments : MovedTo(row, at) \in Segments /\ [row EXCEPT !.to = at] = MovedTo(row, at)
  <2>1. TAKE row \in Segments
  <2>2. row = [session |-> row.session, state |-> row.state, from |-> row.from, to |-> row.to]
    BY DEF Segments
  <2>3. MovedTo(row, at) \in Segments
    BY DEF Segments, Times, MovedTo
  <2>4. [row EXCEPT !.to = at] = MovedTo(row, at)
    BY <2>2 DEF MovedTo
  <2> QED BY <2>3, <2>4
<1>2. CASE id \in DOMAIN table
  <2>1. table[id] \in Segments
    BY <1>2
  <2>2. EndAt(table, id, at) = [table EXCEPT ![id] = MovedTo(table[id], at)]
    BY <1>1, <1>2, <2>1 DEF EndAt
  <2> QED BY <1>1, <1>2, <2>1, <2>2
<1>3. CASE id \notin DOMAIN table
  <2>1. EndAt(table, id, at) = table
    BY <1>3 DEF EndAt
  <2> QED BY <1>3, <2>1
<1> QED BY <1>2, <1>3

\* Ending a row of the session leaves the table as TableKept allows.
LEMMA EndAtKeeps ==
  ASSUME NEW table \in Seq(Segments), NEW id \in Int, NEW at \in Times, NEW session,
         id \in DOMAIN table => table[id].session = session
  PROVE  TableKept(table, EndAt(table, id, at), session)
<1>1. \A i \in 1..Len(table) : MovedTo(table[i], at).session = table[i].session
  BY DEF MovedTo
<1> QED BY <1>1, EndAtEffect DEF TableKept

\* A new segment is one more row after the ones that were there.
LEMMA AppendEffect ==
  ASSUME NEW table \in Seq(Segments), NEW session \in 1..MaxSessions,
         NEW state \in Observed \cup {"sleeping"}, NEW at \in Times
  PROVE  /\ Append(table, NewSegment(session, state, at)) \in Seq(Segments)
         /\ Len(Append(table, NewSegment(session, state, at))) = Len(table) + 1
         /\ \A i \in 1..Len(table) : Append(table, NewSegment(session, state, at))[i] = table[i]
         /\ Append(table, NewSegment(session, state, at))[Len(table) + 1] =
              NewSegment(session, state, at)
  BY DEF NewSegment, Segments, Times

\* Opening a segment of the session leaves the table as TableKept allows.
LEMMA AppendKeeps ==
  ASSUME NEW table \in Seq(Segments), NEW session \in 1..MaxSessions,
         NEW state \in Observed \cup {"sleeping"}, NEW at \in Times
  PROVE  TableKept(table, Append(table, NewSegment(session, state, at)), session)
<1>1. NewSegment(session, state, at).session = session
  BY DEF NewSegment
<1> DEFINE new == NewSegment(session, state, at)
           b == Append(table, new)
<1>2. /\ b \in Seq(Segments) /\ Len(b) = Len(table) + 1
      /\ \A i \in 1..Len(table) : b[i] = table[i]
      /\ b[Len(table) + 1] = new
  BY AppendEffect
<1> HIDE DEF b, new
<1>3. \A i \in 1..Len(b) : Len(table) < i => i = Len(table) + 1
  BY <1>2
<1>4. new.session = session
  BY <1>1 DEF new
<1> QED BY <1>2, <1>3, <1>4 DEF TableKept, b, new

\* Two writes of one session keep what each of them keeps.
LEMMA KeptTransitive ==
  ASSUME NEW a \in Seq(Segments), NEW b, NEW c, NEW session,
         TableKept(a, b, session), TableKept(b, c, session)
  PROVE  TableKept(a, c, session)
<1>1. Len(a) \in Nat /\ Len(b) \in Nat /\ Len(c) \in Nat /\ Len(a) <= Len(b) /\ Len(b) <= Len(c)
  BY DEF TableKept
<1>2. \A i \in 1..Len(a) : i \in 1..Len(b)
  BY <1>1
<1>3. \A i \in 1..Len(a) : c[i].session = a[i].session
  BY <1>2 DEF TableKept
<1>4. \A i \in 1..Len(a) : a[i].session # session => c[i] = a[i]
  BY <1>2 DEF TableKept
<1>5. \A i \in 1..Len(c) : Len(a) < i => c[i].session = session
  <2>1. SUFFICES ASSUME NEW i \in 1..Len(c), Len(a) < i PROVE c[i].session = session
    OBVIOUS
  <2>2. CASE i \in 1..Len(b)
    BY <2>1, <2>2 DEF TableKept
  <2>3. CASE Len(b) < i
    BY <2>1, <2>3 DEF TableKept
  <2> QED BY <1>1, <2>2, <2>3
<1> QED BY <1>1, <1>3, <1>4, <1>5 DEF TableKept

-----------------------------------------------------------------------------
\* Each writer, field by field.

\* The types of the two tables and of what the process remembers.
LEMMA StoreFields ==
  ASSUME NEW s \in Stores
  PROVE  /\ s.activities \in Seq(Segments) /\ s.applications \in Seq(Segments)
         /\ s.memory \in Memories
         /\ s.memory.session \in 0..MaxSessions /\ s.memory.state \in Observed \cup {"sleeping", "none"}
         /\ s.memory.activity \in -1..MaxSegments /\ s.memory.application \in -1..MaxSegments
         /\ s.memory.activity \in Int /\ s.memory.application \in Int
  BY ActivityAssumption DEF Stores, Memories

\* A store is its two tables and its memory.
LEMMA StoreRecord ==
  ASSUME NEW s \in Stores
  PROVE  s = [activities |-> s.activities, applications |-> s.applications, memory |-> s.memory]
  BY DEF Stores

\* A memory is its four fields.
LEMMA MemoryRecord ==
  ASSUME NEW m \in Memories
  PROVE  m = [session |-> m.session, activity |-> m.activity, state |-> m.state,
              application |-> m.application]
  BY DEF Memories

Continues(s, state) == s.memory.activity # None /\ s.memory.state = state

\* The same state continues: the row in the memory is extended.
LEMMA WriteActivityExtends ==
  ASSUME NEW s \in Stores, NEW state, NEW at, Continues(s, state)
  PROVE  /\ WriteActivity(s, state, at).activities = EndAt(s.activities, s.memory.activity, at)
         /\ WriteActivity(s, state, at).applications = s.applications
         /\ WriteActivity(s, state, at).memory = s.memory
         /\ WriteActivity(s, state, at) =
              [activities |-> EndAt(s.activities, s.memory.activity, at),
               applications |-> s.applications, memory |-> s.memory]
  BY DEF Stores, WriteActivity, Continues

\* Another state begins: the row is ended and a new one is remembered.
LEMMA WriteActivityOpens ==
  ASSUME NEW s \in Stores, NEW state, NEW at, ~Continues(s, state),
         Len(EndAt(s.activities, s.memory.activity, at)) = Len(s.activities)
  PROVE  WriteActivity(s, state, at) =
           [activities |-> Append(EndAt(s.activities, s.memory.activity, at),
                                  NewSegment(s.memory.session, state, at)),
            applications |-> s.applications,
            memory |-> [session |-> s.memory.session, activity |-> Len(s.activities) + 1,
                        state |-> state, application |-> s.memory.application]]
  BY DEF Stores, Memories, WriteActivity, Continues

\* Closing the application's segment ends its row and forgets it.
LEMMA CloseApplicationFields ==
  ASSUME NEW s \in Stores, NEW at \in Times
  PROVE  CloseApplication(s, at) =
           [activities |-> s.activities,
            applications |-> EndAt(s.applications, s.memory.application, at),
            memory |-> [session |-> s.memory.session, activity |-> s.memory.activity,
                        state |-> s.memory.state, application |-> None]]
<1> DEFINE m == s.memory
           closed == EndAt(s.applications, m.application, at)
           forgotten == [m EXCEPT !.application = None]
           t == [s EXCEPT !.applications = closed]
<1>1. m \in Memories
  BY StoreFields
<1> HIDE DEF m
<1>2. forgotten = [session |-> m.session, activity |-> m.activity, state |-> m.state,
                   application |-> None]
  BY <1>1 DEF Memories
<1>3. t = [activities |-> s.activities, applications |-> closed, memory |-> m]
  BY DEF Stores, m
<1>4. t.memory = m
  BY <1>3
<1>5. CloseApplication(s, at) = [t EXCEPT !.memory.application = None]
  BY Zenon DEF CloseApplication, m
<1> HIDE DEF t, closed, forgotten
<1>6. [t EXCEPT !.memory.application = None] = [t EXCEPT !.memory = [t.memory EXCEPT !.application = None]]
  BY Zenon
<1>7. [t EXCEPT !.memory = forgotten]
      = [activities |-> s.activities, applications |-> closed, memory |-> forgotten]
  BY <1>3
<1> QED BY <1>2, <1>4, <1>5, <1>6, <1>7 DEF m, closed, forgotten

\* The application's write, by what it finds remembered.
LEMMA WriteApplicationFields ==
  ASSUME NEW s \in Stores, NEW state, NEW at \in Times
  PROVE  /\ state # "active" => WriteApplication(s, state, at) = CloseApplication(s, at)
         /\ Opens(s, state) => WriteApplication(s, state, at) =
              [activities |-> s.activities,
               applications |-> Append(s.applications, NewSegment(s.memory.session, state, at)),
               memory |-> [session |-> s.memory.session, activity |-> s.memory.activity,
                           state |-> s.memory.state, application |-> Len(s.applications) + 1]]
         /\ state = "active" /\ ~Opens(s, state) => WriteApplication(s, state, at) =
              [activities |-> s.activities,
               applications |-> EndAt(s.applications, s.memory.application, at),
               memory |-> s.memory]
<1>1. CASE state # "active"
  BY <1>1 DEF WriteApplication, Opens
<1>2. CASE Opens(s, state)
  <2>1. state = "active"
    BY <1>2 DEF Opens
  <2> QED BY <1>2, <2>1 DEF WriteApplication, Stores, Memories
<1>3. CASE state = "active" /\ ~Opens(s, state)
  BY <1>3 DEF WriteApplication, Stores
<1> QED BY <1>1, <1>2, <1>3

\* A rolled-back transaction keeps the memory its statements had set.
LEMMA RollBackFields ==
  ASSUME NEW s \in Stores, NEW m \in Memories
  PROVE  RollBack(s, m) =
           [activities |-> s.activities, applications |-> s.applications,
            memory |-> [session |-> m.session,
                        activity |-> IF m.activity > Len(s.activities) THEN RolledBack ELSE m.activity,
                        state |-> m.state,
                        application |-> IF m.application > Len(s.applications)
                                        THEN RolledBack ELSE m.application]]
<1> DEFINE a == IF m.activity > Len(s.activities) THEN RolledBack ELSE m.activity
           b == IF m.application > Len(s.applications) THEN RolledBack ELSE m.application
           n == [m EXCEPT !.activity = a]
           back == [n EXCEPT !.application = b]
<1>1. RollBack(s, m) = [s EXCEPT !.memory = back]
  BY Zenon DEF RollBack
<1> HIDE DEF a, b
<1>2. n = [session |-> m.session, activity |-> a, state |-> m.state, application |-> m.application]
  BY DEF Memories
<1> HIDE DEF n
<1>3. back = [session |-> m.session, activity |-> a, state |-> m.state, application |-> b]
  BY <1>2
<1> HIDE DEF back
<1>4. [s EXCEPT !.memory = back]
      = [activities |-> s.activities, applications |-> s.applications, memory |-> back]
  BY DEF Stores
<1> QED BY <1>1, <1>3, <1>4 DEF a, b

\* A summary extends both remembered segments.
LEMMA ExtendFields ==
  ASSUME NEW s \in Stores, NEW at \in Times
  PROVE  Extend(s, at) =
           [activities |-> EndAt(s.activities, s.memory.activity, at),
            applications |-> EndAt(s.applications, s.memory.application, at),
            memory |-> s.memory]
<1> DEFINE ended == EndAt(s.activities, s.memory.activity, at)
           closed == EndAt(s.applications, s.memory.application, at)
           t == [s EXCEPT !.activities = ended]
<1>1. t = [activities |-> ended, applications |-> s.applications, memory |-> s.memory]
  BY DEF Stores
<1>2. Extend(s, at) = [t EXCEPT !.applications = closed]
  BY <1>1 DEF Extend
<1> HIDE DEF t, ended, closed
<1>3. [t EXCEPT !.applications = closed]
      = [activities |-> ended, applications |-> closed, memory |-> s.memory]
  BY <1>1
<1> QED BY <1>2, <1>3 DEF ended, closed

\* What RecordObservation leaves for each place a statement can fail at.
LEMMA Recorded ==
  ASSUME NEW s, NEW state, NEW at, NEW f \in Failures
  PROVE  LET first  == WriteActivity(s, state, at)
             second == WriteApplication(first, state, at)
         IN  \/ f = "none" /\ RecordObservation(s, state, at, f) = second
             \/ f # "none" /\ \/ RecordObservation(s, state, at, f) = s
                              \/ \E r \in {first, second, CloseApplication(first, at)} :
                                   RecordObservation(s, state, at, f) = RollBack(s, r.memory)
<1> DEFINE first  == WriteActivity(s, state, at)
           second == WriteApplication(first, state, at)
<1> HIDE DEF first, second
<1>1. f \in {"none", "begin", "closeApplication", "insertApplication", "commit"}
  BY DEF Failures
<1>2. /\ f = "none" => RecordObservation(s, state, at, f) = second
      /\ f = "begin" => RecordObservation(s, state, at, f) = s
      /\ f = "closeApplication" => RecordObservation(s, state, at, f) = RollBack(s, first.memory)
      /\ f = "insertApplication" => RecordObservation(s, state, at, f) =
           RollBack(s, IF Opens(s, state) THEN CloseApplication(first, at).memory ELSE first.memory)
      /\ f = "commit" => RecordObservation(s, state, at, f) = RollBack(s, second.memory)
  BY DEF RecordObservation, first, second
<1> QED BY <1>1, <1>2 DEF first, second

-----------------------------------------------------------------------------
\* What every write of a store keeps, whether or not its transaction fails.

Writable(s) ==
  /\ s \in Stores /\ MemoryInv(s)
  /\ s.memory.session \in 1..MaxSessions
  /\ Len(s.activities) < MaxSegments /\ Len(s.applications) < MaxSegments

StoreKept(s, r) ==
  /\ r \in Stores /\ MemoryInv(r) /\ r.memory.session = s.memory.session
  /\ TableKept(s.activities, r.activities, s.memory.session)
  /\ TableKept(s.applications, r.applications, s.memory.session)

\* The activity's write touches no row of another session.
LEMMA WriteActivityKeeps ==
  ASSUME NEW s, Writable(s), NEW state \in Observed \cup {"sleeping"}, NEW at \in Times
  PROVE  LET r == WriteActivity(s, state, at)
         IN  /\ StoreKept(s, r) /\ Len(r.activities) <= Len(s.activities) + 1
             /\ r.applications = s.applications
<1> DEFINE r == WriteActivity(s, state, at)
           m == s.memory
           ended == EndAt(s.activities, m.activity, at)
<1>1. /\ s \in Stores /\ m \in Memories /\ m.session \in 1..MaxSessions
      /\ s.activities \in Seq(Segments) /\ s.applications \in Seq(Segments)
      /\ m.activity \in Int /\ m.application \in Int
      /\ m.activity \in -1..MaxSegments /\ m.application \in -1..MaxSegments
  BY StoreFields DEF Writable
<1>2. /\ m.activity <= Len(s.activities) /\ m.application <= Len(s.applications)
      /\ m.activity \in 1..Len(s.activities) => s.activities[m.activity].session = m.session
      /\ m.application \in 1..Len(s.applications) => s.applications[m.application].session = m.session
  BY <1>1 DEF Writable, MemoryInv
<1>3. TableKept(s.applications, s.applications, m.session)
  BY <1>1 DEF TableKept
<1>4. /\ ended \in Seq(Segments) /\ Len(ended) = Len(s.activities)
      /\ TableKept(s.activities, ended, m.session)
  BY <1>1, <1>2, EndAtEffect, EndAtKeeps
<1>5. CASE Continues(s, state)
  <2>1. r = [activities |-> ended, applications |-> s.applications, memory |-> m]
    BY <1>1, <1>5, WriteActivityExtends
  <2> HIDE DEF r, ended, m
  <2>2. r.activities = ended /\ r.applications = s.applications /\ r.memory = m
    BY <2>1
  <2>3. r \in Stores
    BY <1>1, <1>4, <2>1 DEF Stores
  <2>4. m.activity \in 1..Len(ended) => ended[m.activity].session = m.session
    BY <1>2, <1>4 DEF TableKept
  <2>5. MemoryInv(r)
    BY <1>1, <1>2, <1>4, <2>2, <2>4 DEF MemoryInv
  <2> QED BY <1>1, <1>3, <1>4, <2>2, <2>3, <2>5 DEF StoreKept, m, r
<1>6. CASE ~Continues(s, state)
  <2> DEFINE opened == Append(ended, NewSegment(m.session, state, at))
             n == [session |-> m.session, activity |-> Len(s.activities) + 1,
                   state |-> state, application |-> m.application]
  <2>1. r = [activities |-> opened, applications |-> s.applications, memory |-> n]
    BY <1>1, <1>4, <1>6, WriteActivityOpens
  <2>2. /\ opened \in Seq(Segments) /\ Len(opened) = Len(s.activities) + 1
        /\ TableKept(ended, opened, m.session)
    <3>1. ended \in Seq(Segments) /\ Len(ended) = Len(s.activities) /\ m.session \in 1..MaxSessions
      BY <1>1, <1>4
    <3> HIDE DEF ended, m, r
    <3>2. /\ opened \in Seq(Segments)
          /\ Len(opened) = Len(ended) + 1
      BY ZenonT(40), <3>1, AppendEffect
    <3>3. TableKept(ended, opened, m.session)
      BY <3>1, AppendKeeps
    <3> QED BY <3>1, <3>2, <3>3
  <2>3. TableKept(s.activities, opened, m.session)
    BY <1>1, <1>4, <2>2, KeptTransitive
  <2>4. Len(s.activities) + 1 \in -1..MaxSegments
    BY <1>1, ActivityAssumption, LenProperties DEF Writable
  <2>5. n \in Memories
    BY <1>1, <2>4 DEF Memories
  <2> HIDE DEF r, ended, m, opened
  <2>6. r.activities = opened /\ r.applications = s.applications /\ r.memory = n
    BY <2>1
  <2>7. r \in Stores
    BY <1>1, <2>1, <2>2, <2>5 DEF Stores
  <2>8. opened[Len(s.activities) + 1].session = m.session
    BY <1>1, <2>2, <2>3 DEF TableKept
  <2>9. MemoryInv(r)
    BY <1>1, <1>2, <2>2, <2>6, <2>8 DEF MemoryInv
  <2> QED BY <1>1, <1>3, <2>2, <2>3, <2>6, <2>7, <2>9 DEF StoreKept, m, r
<1> QED BY <1>5, <1>6

\* Closing the application touches no row of another session.
LEMMA CloseApplicationKeeps ==
  ASSUME NEW s, s \in Stores, MemoryInv(s), NEW at \in Times
  PROVE  /\ StoreKept(s, CloseApplication(s, at))
         /\ CloseApplication(s, at).activities = s.activities
         /\ Len(CloseApplication(s, at).applications) = Len(s.applications)
<1> DEFINE r == CloseApplication(s, at)
           m == s.memory
           closed == EndAt(s.applications, m.application, at)
           n == [session |-> m.session, activity |-> m.activity, state |-> m.state, application |-> None]
<1>1. /\ m \in Memories
      /\ s.activities \in Seq(Segments) /\ s.applications \in Seq(Segments)
      /\ m.activity \in Int /\ m.application \in Int
  BY StoreFields
<1>2. /\ m.activity <= Len(s.activities)
      /\ m.activity \in 1..Len(s.activities) => s.activities[m.activity].session = m.session
      /\ m.application \in 1..Len(s.applications) => s.applications[m.application].session = m.session
  BY <1>1 DEF MemoryInv
<1>3. TableKept(s.activities, s.activities, m.session)
  BY <1>1 DEF TableKept
<1>4. /\ closed \in Seq(Segments) /\ Len(closed) = Len(s.applications)
      /\ TableKept(s.applications, closed, m.session)
  BY <1>1, <1>2, EndAtEffect, EndAtKeeps
<1>5. r = [activities |-> s.activities, applications |-> closed, memory |-> n]
  BY CloseApplicationFields
<1>6. n \in Memories
  BY <1>1, ActivityAssumption DEF Memories, None
<1> HIDE DEF r, m, closed
<1>7. r \in Stores
  BY <1>1, <1>4, <1>5, <1>6 DEF Stores
<1>8. r.activities = s.activities /\ r.applications = closed /\ r.memory = n
  BY <1>5
<1>9. MemoryInv(r)
  BY <1>1, <1>2, <1>4, <1>8 DEF MemoryInv, None
<1> QED BY <1>3, <1>4, <1>7, <1>8, <1>9 DEF StoreKept, m, r

\* The application's write touches no row of another session.
LEMMA WriteApplicationKeeps ==
  ASSUME NEW s, s \in Stores, MemoryInv(s), s.memory.session \in 1..MaxSessions,
         Len(s.applications) < MaxSegments,
         NEW state \in Observed \cup {"sleeping"}, NEW at \in Times
  PROVE  LET r == WriteApplication(s, state, at)
         IN  /\ StoreKept(s, r) /\ Len(r.applications) <= Len(s.applications) + 1
             /\ r.activities = s.activities
<1> DEFINE r == WriteApplication(s, state, at)
           m == s.memory
<1>1. /\ m \in Memories /\ m.session \in 1..MaxSessions
      /\ s.activities \in Seq(Segments) /\ s.applications \in Seq(Segments)
      /\ m.activity \in Int /\ m.application \in Int
      /\ m.activity \in -1..MaxSegments
  BY StoreFields
<1>2. /\ m.activity <= Len(s.activities) /\ m.application <= Len(s.applications)
      /\ m.activity \in 1..Len(s.activities) => s.activities[m.activity].session = m.session
      /\ m.application \in 1..Len(s.applications) => s.applications[m.application].session = m.session
  BY <1>1 DEF MemoryInv
<1>3. TableKept(s.activities, s.activities, m.session)
  BY <1>1 DEF TableKept
<1>4. CASE state # "active"
  <2>1. r = CloseApplication(s, at)
    BY <1>4, WriteApplicationFields
  <2> QED BY <1>1, <2>1, CloseApplicationKeeps
<1>5. CASE Opens(s, state)
  <2> DEFINE opened == Append(s.applications, NewSegment(m.session, state, at))
             n == [session |-> m.session, activity |-> m.activity, state |-> m.state,
                   application |-> Len(s.applications) + 1]
  <2>1. r = [activities |-> s.activities, applications |-> opened, memory |-> n]
    BY <1>5, WriteApplicationFields
  <2>2. /\ opened \in Seq(Segments) /\ Len(opened) = Len(s.applications) + 1
        /\ TableKept(s.applications, opened, m.session)
    <3>1. s.applications \in Seq(Segments) /\ m.session \in 1..MaxSessions
      BY <1>1
    <3> HIDE DEF r, m
    <3>2. opened \in Seq(Segments) /\ Len(opened) = Len(s.applications) + 1
      BY <3>1, AppendEffect
    <3>3. TableKept(s.applications, opened, m.session)
      BY <3>1, AppendKeeps
    <3> QED BY <3>2, <3>3
  <2>3. Len(s.applications) + 1 \in -1..MaxSegments
    BY <1>1, ActivityAssumption, LenProperties
  <2>4. n \in Memories
    BY <1>1, <2>3 DEF Memories
  <2> HIDE DEF r, m, opened
  <2>5. r \in Stores
    BY <1>1, <2>1, <2>2, <2>4 DEF Stores
  <2>6. r.activities = s.activities /\ r.applications = opened /\ r.memory = n
    BY <2>1
  <2>7. opened[Len(s.applications) + 1].session = m.session
    BY <1>1, <2>2 DEF TableKept
  <2>8. MemoryInv(r)
    BY <1>1, <1>2, <2>2, <2>6, <2>7 DEF MemoryInv
  <2> QED BY <1>1, <1>3, <2>2, <2>5, <2>6, <2>8 DEF StoreKept, m, r
<1>6. CASE state = "active" /\ ~Opens(s, state)
  <2> DEFINE ended == EndAt(s.applications, m.application, at)
  <2>1. r = [activities |-> s.activities, applications |-> ended, memory |-> m]
    BY <1>6, WriteApplicationFields
  <2>2. /\ ended \in Seq(Segments) /\ Len(ended) = Len(s.applications)
        /\ TableKept(s.applications, ended, m.session)
    BY <1>1, <1>2, EndAtEffect, EndAtKeeps
  <2> HIDE DEF r, m, ended
  <2>3. r \in Stores
    BY <1>1, <2>1, <2>2 DEF Stores
  <2>4. r.activities = s.activities /\ r.applications = ended /\ r.memory = m
    BY <2>1
  <2>5. m.application \in 1..Len(ended) => ended[m.application].session = m.session
    BY <1>2, <2>2 DEF TableKept
  <2>6. MemoryInv(r)
    BY <1>1, <1>2, <2>2, <2>4, <2>5 DEF MemoryInv
  <2> QED BY <1>1, <1>3, <2>2, <2>3, <2>4, <2>6 DEF StoreKept, m, r
<1> QED BY <1>4, <1>5, <1>6 DEF Opens

\* A transaction that fails leaves the tables, and the memory of its writes.
LEMMA RollBackKeeps ==
  ASSUME NEW s \in Stores, MemoryInv(s), NEW r, StoreKept(s, r)
  PROVE  /\ StoreKept(s, RollBack(s, r.memory))
         /\ RollBack(s, r.memory).activities = s.activities
         /\ RollBack(s, r.memory).applications = s.applications
<1> DEFINE b == RollBack(s, r.memory)
           m == r.memory
           x == IF m.activity > Len(s.activities) THEN RolledBack ELSE m.activity
           y == IF m.application > Len(s.applications) THEN RolledBack ELSE m.application
           n == [session |-> m.session, activity |-> x, state |-> m.state, application |-> y]
<1>1. /\ r \in Stores /\ m \in Memories
      /\ s.activities \in Seq(Segments) /\ s.applications \in Seq(Segments)
      /\ r.activities \in Seq(Segments) /\ r.applications \in Seq(Segments)
      /\ m.activity \in Int /\ m.application \in Int
      /\ m.activity \in -1..MaxSegments /\ m.application \in -1..MaxSegments
      /\ m.session = s.memory.session
  BY StoreFields DEF StoreKept
<1>2. b = [activities |-> s.activities, applications |-> s.applications, memory |-> n]
  BY <1>1, RollBackFields
<1>3. /\ m.activity \in 1..Len(r.activities) => r.activities[m.activity].session = m.session
      /\ m.application \in 1..Len(r.applications) => r.applications[m.application].session = m.session
  BY <1>1 DEF StoreKept, MemoryInv
<1>4. /\ Len(s.activities) <= Len(r.activities) /\ Len(s.applications) <= Len(r.applications)
      /\ \A i \in 1..Len(s.activities) : r.activities[i].session = s.activities[i].session
      /\ \A i \in 1..Len(s.applications) : r.applications[i].session = s.applications[i].session
  BY DEF StoreKept, TableKept
<1>5. /\ Len(s.activities) \in Nat /\ Len(s.applications) \in Nat
      /\ Len(r.activities) \in Nat /\ Len(r.applications) \in Nat
  BY <1>1, LenProperties
<1>6. /\ x \in -1..MaxSegments /\ x <= Len(s.activities)
      /\ x \in 1..Len(s.activities) => x = m.activity /\ x \in 1..Len(r.activities)
  BY <1>1, <1>4, <1>5, ActivityAssumption DEF RolledBack
<1>7. /\ y \in -1..MaxSegments /\ y <= Len(s.applications)
      /\ y \in 1..Len(s.applications) => y = m.application /\ y \in 1..Len(r.applications)
  BY <1>1, <1>4, <1>5, ActivityAssumption DEF RolledBack
<1> HIDE DEF x, y
<1>8. n \in Memories
  BY <1>1, <1>6, <1>7 DEF Memories
<1>9. /\ x \in 1..Len(s.activities) => s.activities[x].session = m.session
      /\ y \in 1..Len(s.applications) => s.applications[y].session = m.session
  BY <1>3, <1>4, <1>6, <1>7
<1> HIDE DEF b, m
<1>10. b \in Stores
  BY <1>1, <1>2, <1>8 DEF Stores
<1>11. b.activities = s.activities /\ b.applications = s.applications /\ b.memory = n
  BY <1>2
<1>12. MemoryInv(b)
  BY <1>1, <1>6, <1>7, <1>9, <1>11 DEF MemoryInv
<1>13. /\ TableKept(s.activities, s.activities, m.session)
       /\ TableKept(s.applications, s.applications, m.session)
  BY <1>1 DEF TableKept
<1> QED BY <1>1, <1>10, <1>11, <1>12, <1>13 DEF StoreKept, b

\* Two writes of the store keep what each of them keeps.
LEMMA StoreKeptTransitive ==
  ASSUME NEW s \in Stores, NEW r, NEW q, StoreKept(s, r), StoreKept(r, q)
  PROVE  StoreKept(s, q)
<1>1. s.activities \in Seq(Segments) /\ s.applications \in Seq(Segments)
  BY StoreFields
<1>2. /\ TableKept(s.activities, r.activities, s.memory.session)
      /\ TableKept(r.activities, q.activities, s.memory.session)
      /\ TableKept(s.applications, r.applications, s.memory.session)
      /\ TableKept(r.applications, q.applications, s.memory.session)
  BY DEF StoreKept
<1>3. /\ TableKept(s.activities, q.activities, s.memory.session)
      /\ TableKept(s.applications, q.applications, s.memory.session)
  BY <1>1, <1>2, KeptTransitive
<1> QED BY <1>3 DEF StoreKept

\* A transaction that fails at once leaves the store kept.
LEMMA StoreKeptItself ==
  ASSUME NEW s \in Stores, MemoryInv(s)
  PROVE  StoreKept(s, s)
  BY StoreFields DEF StoreKept, TableKept

\* An observation, failed or not, touches no row of another session.
LEMMA RecordKeeps ==
  ASSUME NEW s, Writable(s), NEW state \in Observed \cup {"sleeping"}, NEW at \in Times,
         NEW f \in Failures
  PROVE  LET r == RecordObservation(s, state, at, f)
         IN  /\ StoreKept(s, r)
             /\ Len(r.activities) <= Len(s.activities) + 1
             /\ Len(r.applications) <= Len(s.applications) + 1
             /\ state # "active" => Len(r.applications) <= Len(s.applications)
<1> DEFINE first  == WriteActivity(s, state, at)
           second == WriteApplication(first, state, at)
           closed == CloseApplication(first, at)
           r == RecordObservation(s, state, at, f)
<1>1. /\ s \in Stores /\ MemoryInv(s)
      /\ s.activities \in Seq(Segments) /\ s.applications \in Seq(Segments)
      /\ Len(s.activities) \in Nat /\ Len(s.applications) \in Nat
  BY StoreFields, LenProperties DEF Writable
<1>2. /\ StoreKept(s, first) /\ Len(first.activities) <= Len(s.activities) + 1
      /\ first.applications = s.applications
  BY WriteActivityKeeps
<1>3. /\ first \in Stores /\ MemoryInv(first) /\ first.memory.session \in 1..MaxSessions
      /\ Len(first.applications) < MaxSegments
  BY <1>2 DEF StoreKept, Writable
<1>4. StoreKept(first, closed) /\ Len(closed.applications) = Len(first.applications)
  BY <1>3, CloseApplicationKeeps
<1>5. /\ StoreKept(first, second) /\ Len(second.applications) <= Len(first.applications) + 1
      /\ second.activities = first.activities
  BY <1>3, WriteApplicationKeeps
<1>6. state # "active" => second = closed
  BY <1>3, WriteApplicationFields
<1>7. StoreKept(s, closed) /\ StoreKept(s, second)
  BY <1>1, <1>2, <1>4, <1>5, StoreKeptTransitive
<1>8. \/ r = second
      \/ r = s
      \/ \E q \in {first, second, closed} : r = RollBack(s, q.memory)
  BY Recorded
<1> HIDE DEF first, second, closed, r
<1>9. CASE r = second
  BY <1>1, <1>2, <1>4, <1>5, <1>6, <1>7, <1>9 DEF r
<1>10. CASE r = s
  BY <1>1, <1>10, StoreKeptItself DEF r
<1>11. CASE \E q \in {first, second, closed} : r = RollBack(s, q.memory)
  <2>1. PICK q \in {first, second, closed} : r = RollBack(s, q.memory)
    BY <1>11
  <2>2. StoreKept(s, q)
    BY <1>2, <1>7
  <2>3. StoreKept(s, r) /\ r.activities = s.activities /\ r.applications = s.applications
    BY <1>1, <2>1, <2>2, RollBackKeeps
  <2> QED BY <1>1, <2>3 DEF r
<1> QED BY <1>8, <1>9, <1>10, <1>11

\* A summary touches no row of another session.
LEMMA ExtendKeeps ==
  ASSUME NEW s \in Stores, MemoryInv(s), NEW at \in Times
  PROVE  /\ StoreKept(s, Extend(s, at))
         /\ Len(Extend(s, at).activities) = Len(s.activities)
         /\ Len(Extend(s, at).applications) = Len(s.applications)
         /\ Extend(s, at).memory = s.memory
<1> DEFINE r == Extend(s, at)
           m == s.memory
           ended == EndAt(s.activities, m.activity, at)
           closed == EndAt(s.applications, m.application, at)
<1>1. /\ m \in Memories
      /\ s.activities \in Seq(Segments) /\ s.applications \in Seq(Segments)
      /\ m.activity \in Int /\ m.application \in Int
  BY StoreFields
<1>2. /\ m.activity <= Len(s.activities) /\ m.application <= Len(s.applications)
      /\ m.activity \in 1..Len(s.activities) => s.activities[m.activity].session = m.session
      /\ m.application \in 1..Len(s.applications) => s.applications[m.application].session = m.session
  BY <1>1 DEF MemoryInv
<1>3. /\ ended \in Seq(Segments) /\ Len(ended) = Len(s.activities)
      /\ TableKept(s.activities, ended, m.session)
  BY <1>1, <1>2, EndAtEffect, EndAtKeeps
<1>4. /\ closed \in Seq(Segments) /\ Len(closed) = Len(s.applications)
      /\ TableKept(s.applications, closed, m.session)
  BY <1>1, <1>2, EndAtEffect, EndAtKeeps
<1>5. r = [activities |-> ended, applications |-> closed, memory |-> m]
  BY ExtendFields
<1> HIDE DEF r, m, ended, closed
<1>6. r.activities = ended /\ r.applications = closed /\ r.memory = m
  BY <1>5
<1>7. r \in Stores
  BY <1>1, <1>3, <1>4, <1>5 DEF Stores
<1>8. /\ m.activity \in 1..Len(ended) => ended[m.activity].session = m.session
      /\ m.application \in 1..Len(closed) => closed[m.application].session = m.session
  BY <1>2, <1>3, <1>4 DEF TableKept
<1>9. MemoryInv(r)
  BY <1>1, <1>2, <1>3, <1>4, <1>6, <1>8 DEF MemoryInv
<1> QED BY <1>3, <1>4, <1>6, <1>7, <1>9 DEF StoreKept, m, r

\* The two writes of a sample: the sleep that is inferred, and the observation.
SleepOf(s, slept, at, f) == IF slept THEN RecordObservation(s, "sleeping", at, f) ELSE s

\* A sample, with the sleep before it, touches no row of another session.
LEMMA SampledKeeps ==
  ASSUME NEW s \in Stores, MemoryInv(s), s.memory.session \in 1..MaxSessions,
         Len(s.activities) + 2 <= MaxSegments, Len(s.applications) + 1 <= MaxSegments,
         NEW slept, NEW asleep, slept => asleep \in Times, NEW at \in Times,
         NEW state \in Observed, NEW f \in Failures, NEW g \in Failures
  PROVE  LET first == SleepOf(s, slept, asleep, f)
         IN  /\ Writable(first) /\ first \in Stores /\ StoreKept(s, first)
             /\ StoreKept(s, RecordObservation(first, state, at, g))
<1> DEFINE first == SleepOf(s, slept, asleep, f)
           r == RecordObservation(first, state, at, g)
<1>1. /\ Len(s.activities) \in Nat /\ Len(s.applications) \in Nat
      /\ MaxSegments \in Nat /\ "sleeping" # "active"
  BY StoreFields, LenProperties, ActivityAssumption
<1>2. Writable(s)
  BY <1>1 DEF Writable
<1>3. /\ first \in Stores /\ StoreKept(s, first) /\ MemoryInv(first)
      /\ Len(first.activities) <= Len(s.activities) + 1
      /\ Len(first.applications) <= Len(s.applications)
  <2>1. CASE slept
    <3>1. first = RecordObservation(s, "sleeping", asleep, f) /\ asleep \in Times
      BY <2>1 DEF SleepOf
    <3> HIDE DEF first
    <3>2. "sleeping" \in Observed \cup {"sleeping"}
      OBVIOUS
    <3>3. /\ StoreKept(s, first)
          /\ Len(first.activities) <= Len(s.activities) + 1
          /\ "sleeping" # "active" => Len(first.applications) <= Len(s.applications)
      BY <1>2, <3>1, <3>2, RecordKeeps
    <3> QED BY <1>1, <3>3 DEF StoreKept
  <2>2. CASE ~slept
    <3>1. first = s
      BY <2>2 DEF SleepOf
    <3> QED BY <1>1, <3>1, StoreKeptItself
  <2> QED BY <2>1, <2>2
<1> HIDE DEF first
<1>4. Len(first.activities) \in Nat /\ Len(first.applications) \in Nat
  BY <1>3, StoreFields, LenProperties
<1>5. Writable(first)
  BY <1>1, <1>3, <1>4 DEF Writable, StoreKept
<1>6. StoreKept(first, r)
  BY <1>5, RecordKeeps
<1>7. StoreKept(s, r)
  BY <1>3, <1>6, StoreKeptTransitive
<1> QED BY <1>3, <1>5, <1>7 DEF first

LongGap(last, t) == last # Never /\ Elapsed(last, t) > SleepGap

-----------------------------------------------------------------------------
\* What a write keeps as long as no transaction fails: it extends the open
\* segments, or extends them and opens the next.

Opened(e, state, at) ==
  [activities |-> Append(e.activities, NewSegment(e.memory.session, state, at)),
   applications |-> IF state = "active"
                    THEN Append(e.applications, NewSegment(e.memory.session, state, at))
                    ELSE e.applications,
   memory |-> [session |-> e.memory.session, activity |-> Len(e.activities) + 1, state |-> state,
               application |-> IF state = "active" THEN Len(e.applications) + 1 ELSE None]]

\* The open segment ends at the time of the write.
EndsAt(e, at) == e.memory.activity # None => e.activities[e.memory.activity].to = at

\* While no statement failed, the remembered row is the last one of its table.
LEMMA CleanFacts ==
  ASSUME NEW s \in Stores, NEW b, CleanInv(s, b)
  PROVE  /\ s.memory.activity # None =>
              /\ s.memory.activity = Len(s.activities) /\ s.memory.activity \in 1..Len(s.activities)
              /\ s.activities[s.memory.activity].state = s.memory.state
         /\ s.memory.application # None <=> s.memory.activity # None /\ s.memory.state = "active"
         /\ s.memory.application # None =>
              /\ s.memory.application \in 1..Len(s.applications)
              /\ s.applications[s.memory.application] = s.activities[s.memory.activity]
         /\ s.memory.activity = None =>
              \A i \in 1..Len(s.activities) : s.activities[i].session # s.memory.session
<1>1. /\ Len(s.activities) \in Nat /\ Len(s.applications) \in Nat
      /\ DOMAIN s.activities = 1..Len(s.activities) /\ DOMAIN s.applications = 1..Len(s.applications)
  BY StoreFields, LenProperties
<1>2. OrderInv(s, b) /\ ForegroundInv(s)
  BY DEF CleanInv
<1>3. s.memory.activity # None =>
        /\ s.memory.activity = Len(s.activities) /\ s.memory.activity \in 1..Len(s.activities)
        /\ s.activities[s.memory.activity].state = s.memory.state
  BY <1>1, <1>2 DEF OrderInv, None
<1>4. s.memory.activity = None =>
        \A i \in 1..Len(s.activities) : s.activities[i].session # s.memory.session
  BY <1>1, <1>2 DEF OrderInv
<1>5. /\ s.memory.application # None <=> s.memory.activity # None /\ s.memory.state = "active"
      /\ s.memory.application # None =>
           /\ s.memory.application \in 1..Len(s.applications)
           /\ s.applications[s.memory.application] = s.activities[s.memory.activity]
  BY <1>1, <1>2 DEF ForegroundInv
<1> QED BY <1>3, <1>4, <1>5

\* With no row remembered, nothing is ended.
LEMMA EndAtNone ==
  ASSUME NEW table \in Seq(Segments), NEW at
  PROVE  EndAt(table, None, at) = table
<1>1. None \notin DOMAIN table
  BY LenProperties DEF None
<1> QED BY <1>1 DEF EndAt

\* A clean store's observation, written without failure.
LEMMA CleanRecordIs ==
  ASSUME NEW s, Writable(s), NEW b, CleanInv(s, b),
         NEW state \in Observed \cup {"sleeping"}, NEW at \in Times
  PROVE  RecordObservation(s, state, at, "none") =
           IF Continues(s, state) THEN Extend(s, at) ELSE Opened(Extend(s, at), state, at)
<1> DEFINE first == WriteActivity(s, state, at)
           second == WriteApplication(first, state, at)
           m == s.memory
           ended == EndAt(s.activities, m.activity, at)
           closed == EndAt(s.applications, m.application, at)
           e == Extend(s, at)
<1>1. /\ s \in Stores /\ m \in Memories
      /\ s.activities \in Seq(Segments) /\ s.applications \in Seq(Segments)
      /\ m.activity \in Int /\ m.application \in Int
  BY StoreFields DEF Writable
<1>2. RecordObservation(s, state, at, "none") = second
  <2>1. "none" \in Failures
    BY DEF Failures
  <2> QED BY <2>1, Recorded
<1>3. /\ m.application # None <=> m.activity # None /\ m.state = "active"
  BY <1>1, CleanFacts
<1>4. first \in Stores
  BY WriteActivityKeeps DEF StoreKept
<1>5. e = [activities |-> ended, applications |-> closed, memory |-> m]
  BY <1>1, ExtendFields
<1>6. Len(ended) = Len(s.activities) /\ Len(closed) = Len(s.applications)
  BY <1>1, EndAtEffect
<1>7. m.application = None => closed = s.applications
  BY <1>1, EndAtNone
<1>8. CASE Continues(s, state)
  <2>1. first = [activities |-> ended, applications |-> s.applications, memory |-> m]
    BY <1>1, <1>8, WriteActivityExtends
  <2> HIDE DEF ended, closed, first, m
  <2>2. first.activities = ended /\ first.applications = s.applications /\ first.memory = m
    BY <2>1
  <2>3. CASE state = "active"
    <3>1. ~Opens(first, state)
      BY <1>3, <1>8, <2>2, <2>3 DEF Opens, Continues, m
    <3>2. second = [activities |-> ended, applications |-> EndAt(s.applications, m.application, at),
                    memory |-> m]
      BY <1>4, <2>2, <2>3, <3>1, WriteApplicationFields
    <3> QED BY <1>2, <1>5, <1>8, <3>2 DEF closed
  <2>4. CASE state # "active"
    <3>1. m.application = None
      BY <1>3, <1>8, <2>4 DEF Continues, m
    <3>2. second = [activities |-> ended, applications |-> EndAt(s.applications, m.application, at),
                    memory |-> [session |-> m.session, activity |-> m.activity,
                                state |-> m.state, application |-> None]]
      BY <1>4, <2>2, <2>4, WriteApplicationFields, CloseApplicationFields
    <3>3. m = [session |-> m.session, activity |-> m.activity, state |-> m.state,
               application |-> m.application]
      BY <1>1, MemoryRecord
    <3> QED BY <1>2, <1>5, <1>8, <3>1, <3>2, <3>3 DEF closed
  <2> QED BY <2>3, <2>4
<1>9. CASE ~Continues(s, state)
  <2> DEFINE new == NewSegment(m.session, state, at)
             n == [session |-> m.session, activity |-> Len(s.activities) + 1,
                   state |-> state, application |-> m.application]
  <2>1. first = [activities |-> Append(ended, new), applications |-> s.applications, memory |-> n]
    BY <1>1, <1>6, <1>9, WriteActivityOpens
  <2> HIDE DEF ended, closed, first, m, e, new
  <2>2. /\ first.activities = Append(ended, new) /\ first.applications = s.applications
        /\ first.memory = n /\ n.session = m.session /\ n.application = m.application
        /\ n.activity = Len(s.activities) + 1 /\ n.state = state
    BY <2>1
  <2>3. e.activities = ended /\ e.applications = closed /\ e.memory = m
    BY <1>5
  <2>4. CASE state = "active"
    <3>1. m.application = None
      BY <1>3, <1>9, <2>4 DEF Continues, m
    <3>2. Opens(first, state)
      BY <2>2, <2>4, <3>1 DEF Opens
    <3>3. second = [activities |-> Append(ended, new),
                    applications |-> Append(s.applications, new),
                    memory |-> [session |-> m.session, activity |-> Len(s.activities) + 1,
                                state |-> state, application |-> Len(s.applications) + 1]]
      BY <1>4, <2>2, <3>2, WriteApplicationFields DEF new
    <3> QED BY <1>2, <1>6, <1>7, <1>9, <2>3, <2>4, <3>1, <3>3 DEF Opened, new, e
  <2>5. CASE state # "active"
    <3>1. second = [activities |-> Append(ended, new),
                    applications |-> EndAt(s.applications, m.application, at),
                    memory |-> [session |-> m.session, activity |-> Len(s.activities) + 1,
                                state |-> state, application |-> None]]
      BY <1>4, <2>2, <2>5, WriteApplicationFields, CloseApplicationFields
    <3> QED BY <1>2, <1>6, <1>9, <2>3, <2>5, <3>1 DEF Opened, new, e, closed
  <2> QED BY <2>4, <2>5
<1> QED BY <1>8, <1>9

\* Rows of the extended tables.
LEMMA ExtendRows ==
  ASSUME NEW s \in Stores, NEW at \in Times
  PROVE  LET e == Extend(s, at)
         IN  /\ e \in Stores /\ e.memory = s.memory
             /\ Len(e.activities) = Len(s.activities) /\ Len(e.applications) = Len(s.applications)
             /\ DOMAIN e.activities = DOMAIN s.activities
             /\ DOMAIN e.applications = DOMAIN s.applications
             /\ \A i \in DOMAIN s.activities :
                  e.activities[i] = IF i = s.memory.activity THEN MovedTo(s.activities[i], at)
                                                             ELSE s.activities[i]
             /\ \A i \in DOMAIN s.applications :
                  e.applications[i] = IF i = s.memory.application THEN MovedTo(s.applications[i], at)
                                                                  ELSE s.applications[i]
<1> DEFINE ended == EndAt(s.activities, s.memory.activity, at)
           closed == EndAt(s.applications, s.memory.application, at)
           e == Extend(s, at)
<1>1. /\ s.activities \in Seq(Segments) /\ s.applications \in Seq(Segments) /\ s.memory \in Memories
      /\ s.memory.activity \in Int /\ s.memory.application \in Int
  BY StoreFields
<1>2. /\ ended \in Seq(Segments) /\ Len(ended) = Len(s.activities)
      /\ \A i \in 1..Len(s.activities) :
           ended[i] = IF i = s.memory.activity THEN MovedTo(s.activities[i], at) ELSE s.activities[i]
  BY <1>1, EndAtEffect
<1>3. /\ closed \in Seq(Segments) /\ Len(closed) = Len(s.applications)
      /\ \A i \in 1..Len(s.applications) :
           closed[i] = IF i = s.memory.application THEN MovedTo(s.applications[i], at)
                                                   ELSE s.applications[i]
  BY <1>1, EndAtEffect
<1>4. e = [activities |-> ended, applications |-> closed, memory |-> s.memory]
  BY ExtendFields
<1> HIDE DEF ended, closed, e
<1>5. e.activities = ended /\ e.applications = closed /\ e.memory = s.memory
  BY <1>4
<1>6. e \in Stores
  BY <1>1, <1>2, <1>3, <1>4 DEF Stores
<1>7. /\ DOMAIN s.activities = 1..Len(s.activities) /\ DOMAIN s.applications = 1..Len(s.applications)
      /\ DOMAIN ended = 1..Len(ended) /\ DOMAIN closed = 1..Len(closed)
  BY <1>1, <1>2, <1>3, LenProperties
<1> QED BY <1>2, <1>3, <1>5, <1>6, <1>7 DEF e

\* Moving the end of a row changes only its end.
LEMMA MovedToFields ==
  ASSUME NEW row, NEW at
  PROVE  /\ MovedTo(row, at).session = row.session /\ MovedTo(row, at).state = row.state
         /\ MovedTo(row, at).from = row.from /\ MovedTo(row, at).to = at
  BY DEF MovedTo

\* The times and the session of a row are numbers.
LEMMA RowIntegers ==
  ASSUME NEW table \in Seq(Segments), NEW i \in DOMAIN table
  PROVE  /\ table[i] \in Segments /\ table[i].from \in Times /\ table[i].to \in Times
         /\ table[i].from \in Int /\ table[i].to \in Int /\ table[i].session \in Int
<1>1. table[i] \in Segments
  OBVIOUS
<1> QED BY <1>1, ActivityAssumption DEF Segments, Times

\* Extending the remembered rows keeps a clean store clean, and ends both at the time.
LEMMA CleanExtend ==
  ASSUME NEW s \in Stores, MemoryInv(s), NEW at \in Times, NEW b, CleanInv(s, b)
  PROVE  CleanInv(Extend(s, at), b) /\ EndsAt(Extend(s, at), at)
<1> DEFINE e == Extend(s, at)
           m == s.memory
           A == s.activities
           B == s.applications
<1>1. /\ e.memory = m
      /\ Len(e.activities) = Len(A) /\ DOMAIN e.activities = DOMAIN A
      /\ DOMAIN e.applications = DOMAIN B
      /\ \A i \in DOMAIN A : e.activities[i] = IF i = m.activity THEN MovedTo(A[i], at) ELSE A[i]
      /\ \A i \in DOMAIN B : e.applications[i] = IF i = m.application THEN MovedTo(B[i], at) ELSE B[i]
  BY ExtendRows
<1> HIDE DEF e
<1>2. /\ A \in Seq(Segments) /\ Len(A) \in Nat /\ DOMAIN A = 1..Len(A)
      /\ B \in Seq(Segments) /\ DOMAIN B = 1..Len(B) /\ Len(B) \in Nat
  BY StoreFields, LenProperties
<1>3. /\ \A i \in DOMAIN A : /\ e.activities[i].session = A[i].session
                             /\ e.activities[i].state = A[i].state
                             /\ e.activities[i].from = A[i].from
                             /\ i # m.activity => e.activities[i] = A[i]
                             /\ i = m.activity => e.activities[i].to = at
  BY <1>1, MovedToFields
<1>4. OrderInv(s, b) /\ ForegroundInv(s) /\ CoverInv(s)
  BY DEF CleanInv
<1>5. m.activity # None => m.activity = Len(A) /\ m.activity \in DOMAIN A
  BY <1>2, CleanFacts
<1>6. OrderInv(e, b)
  <2>1. ASSUME NEW i \in DOMAIN A, NEW j \in DOMAIN A, i < j, A[i].session = A[j].session
        PROVE  e.activities[i].to <= e.activities[j].from
    <3>1. A[i].to <= A[j].from
      BY <1>4, <2>1 DEF OrderInv
    <3>2. i # m.activity
      BY <1>2, <1>5, <2>1 DEF None
    <3> QED BY <1>3, <3>1, <3>2
  <2>2. m.activity = None => \A i \in DOMAIN A : e.activities[i].session # m.session
    BY <1>3, <1>4 DEF OrderInv
  <2>3. m.activity # None =>
          /\ e.activities[m.activity].state = m.state /\ e.activities[m.activity].from <= b
    BY <1>3, <1>4, <1>5 DEF OrderInv
  <2> QED BY <1>1, <1>3, <1>5, <2>1, <2>2, <2>3 DEF OrderInv
<1>7. ForegroundInv(e)
  <2>1. /\ m.application # None <=> m.activity # None /\ m.state = "active"
        /\ m.application # None => m.application \in DOMAIN B /\ B[m.application] = A[m.activity]
    BY <1>2, CleanFacts
  <2>2. ASSUME NEW i \in DOMAIN B
        PROVE  /\ e.applications[i].state = "active"
               /\ IF i = m.application
                  THEN e.applications[i] = e.activities[m.activity]
                  ELSE \E j \in DOMAIN A \ {m.activity} : e.activities[j] = e.applications[i]
    <3>1. B[i].state = "active"
      BY <1>4 DEF ForegroundInv
    <3>2. CASE i = m.application
      <4>1. m.application # None
        BY <1>2, <3>2 DEF None
      <4>2. m.activity \in DOMAIN A /\ B[i] = A[m.activity]
        BY <1>5, <2>1, <3>2, <4>1
      <4> QED BY <1>1, <3>1, <3>2, <4>2, MovedToFields
    <3>3. CASE i # m.application
      <4>1. PICK j \in DOMAIN A \ {m.activity} : A[j] = B[i]
        BY <1>4, <3>3 DEF ForegroundInv
      <4>2. e.activities[j] = e.applications[i]
        BY <1>1, <3>3, <4>1
      <4> QED BY <1>1, <3>1, <3>3, <4>1, <4>2
    <3> QED BY <3>2, <3>3
  <2> QED BY <1>1, <2>1, <2>2 DEF ForegroundInv
<1>8. CoverInv(e)
  <2>1. SUFFICES ASSUME m.activity # None, NEW i \in DOMAIN A, A[i].session = m.session,
                        NEW t \in A[i].from .. A[m.activity].from - 1
                 PROVE  \E j \in DOMAIN A \ {m.activity} :
                          /\ e.activities[j].session = m.session
                          /\ e.activities[j].from <= t /\ t < e.activities[j].to
    BY <1>1, <1>3, <1>5 DEF CoverInv
  <2>2. PICK j \in DOMAIN A \ {m.activity} : A[j].session = m.session /\ A[j].from <= t /\ t < A[j].to
    BY <1>4, <2>1 DEF CoverInv
  <2> QED BY <1>3, <2>2
<1>9. EndsAt(e, at)
  BY <1>1, <1>3, <1>5 DEF EndsAt
<1> QED BY <1>6, <1>7, <1>8, <1>9 DEF CleanInv, e

\* A store that is clean at a time is clean at every later one.
LEMMA CleanLater ==
  ASSUME NEW s \in Stores, NEW b \in Int, NEW c \in Int, b <= c, CleanInv(s, b)
  PROVE  CleanInv(s, c)
<1>1. s.memory.activity # None => s.memory.activity \in DOMAIN s.activities
  BY CleanFacts, StoreFields, LenProperties
<1>2. s.memory.activity # None => s.activities[s.memory.activity].from \in Int
  BY <1>1, RowIntegers, StoreFields
<1> QED BY <1>1, <1>2 DEF CleanInv, OrderInv

\* The rows of a store whose next segments have been opened.
LEMMA OpenedRows ==
  ASSUME NEW e \in Stores, e.memory.session \in 1..MaxSessions,
         NEW state \in Observed \cup {"sleeping"}, NEW at \in Times
  PROVE  LET q == Opened(e, state, at)
             n == Len(e.activities) + 1
             k == Len(e.applications) + 1
             new == NewSegment(e.memory.session, state, at)
         IN  /\ q.memory.session = e.memory.session /\ q.memory.activity = n /\ q.memory.state = state
             /\ state = "active" => q.memory.application = k
             /\ state # "active" => q.memory.application = None
             /\ Len(q.activities) = n /\ DOMAIN q.activities = 1..n
             /\ \A i \in DOMAIN e.activities : q.activities[i] = e.activities[i]
             /\ q.activities[n] = new
             /\ state = "active" =>
                  /\ DOMAIN q.applications = 1..k /\ q.applications[k] = new
                  /\ \A i \in DOMAIN e.applications : q.applications[i] = e.applications[i]
             /\ state # "active" => q.applications = e.applications
<1> DEFINE q == Opened(e, state, at)
           n == Len(e.activities) + 1
           k == Len(e.applications) + 1
           new == NewSegment(e.memory.session, state, at)
           a == Append(e.activities, new)
           b == Append(e.applications, new)
<1>1. e.activities \in Seq(Segments) /\ e.applications \in Seq(Segments)
  BY StoreFields
<1>2. /\ a \in Seq(Segments) /\ Len(a) = n /\ a[n] = new
      /\ \A i \in 1..Len(e.activities) : a[i] = e.activities[i]
  BY <1>1, AppendEffect
<1>3. /\ b \in Seq(Segments) /\ Len(b) = k /\ b[k] = new
      /\ \A i \in 1..Len(e.applications) : b[i] = e.applications[i]
  BY <1>1, AppendEffect
<1>4. q = [activities |-> a, applications |-> IF state = "active" THEN b ELSE e.applications,
           memory |-> [session |-> e.memory.session, activity |-> n, state |-> state,
                       application |-> IF state = "active" THEN k ELSE None]]
  BY DEF Opened
<1> HIDE DEF q, n, k, new, a, b
<1>5. /\ q.activities = a /\ q.applications = IF state = "active" THEN b ELSE e.applications
      /\ q.memory.session = e.memory.session /\ q.memory.activity = n /\ q.memory.state = state
      /\ q.memory.application = IF state = "active" THEN k ELSE None
  BY <1>4
<1>6. /\ DOMAIN a = 1..n /\ DOMAIN b = 1..k
      /\ DOMAIN e.activities = 1..Len(e.activities) /\ DOMAIN e.applications = 1..Len(e.applications)
  BY <1>1, <1>2, <1>3, LenProperties
<1> QED BY <1>2, <1>3, <1>5, <1>6 DEF q, n, k, new

\* What the proofs use of the number of the next row.
LEMMA Successor ==
  ASSUME NEW l \in Nat
  PROVE  /\ l + 1 \in Nat /\ l + 1 # 0 /\ (l + 1) - 1 = l
         /\ l + 1 \notin 1..l /\ 1..l = (1..l + 1) \ {l + 1}
  OBVIOUS

\* Opening the rows of a new state keeps a clean store clean.
LEMMA CleanOpened ==
  ASSUME NEW e \in Stores, MemoryInv(e), e.memory.session \in 1..MaxSessions,
         NEW b \in Int, CleanInv(e, b),
         NEW state \in Observed \cup {"sleeping"}, NEW at \in Times, b <= at, EndsAt(e, at)
  PROVE  CleanInv(Opened(e, state, at), at) /\ EndsAt(Opened(e, state, at), at)
<1> DEFINE q == Opened(e, state, at)
           n == Len(e.activities) + 1
           k == Len(e.applications) + 1
           new == NewSegment(e.memory.session, state, at)
           m == e.memory
           A == e.activities
           B == e.applications
<1>1. /\ q.memory.session = m.session /\ q.memory.activity = n /\ q.memory.state = state
      /\ state = "active" => q.memory.application = k
      /\ state # "active" => q.memory.application = None
      /\ Len(q.activities) = n /\ DOMAIN q.activities = 1..n
      /\ \A i \in DOMAIN A : q.activities[i] = A[i]
      /\ q.activities[n] = new
      /\ state = "active" => /\ DOMAIN q.applications = 1..k /\ q.applications[k] = new
                             /\ \A i \in DOMAIN B : q.applications[i] = B[i]
      /\ state # "active" => q.applications = B
  BY SMTT(30), OpenedRows
<1>2. /\ A \in Seq(Segments) /\ Len(A) \in Nat /\ DOMAIN A = 1..Len(A)
      /\ B \in Seq(Segments) /\ DOMAIN B = 1..Len(B) /\ Len(B) \in Nat
      /\ n \in Nat /\ n # 0 /\ n - 1 = Len(A) /\ n \notin DOMAIN A
      /\ k \in Nat /\ k # 0 /\ k - 1 = Len(B)
      /\ DOMAIN A = (1..n) \ {n} /\ DOMAIN B = (1..k) \ {k}
      /\ at \in Int
  <2>1. A \in Seq(Segments) /\ B \in Seq(Segments)
    BY StoreFields
  <2>2. Len(A) \in Nat /\ DOMAIN A = 1..Len(A) /\ Len(B) \in Nat /\ DOMAIN B = 1..Len(B)
    BY <2>1, LenProperties
  <2>3. at \in Int
    BY ActivityAssumption DEF Times
  <2>4. /\ n \in Nat /\ n # 0 /\ n - 1 = Len(A) /\ n \notin 1..Len(A) /\ 1..Len(A) = (1..n) \ {n}
    BY <2>2, Successor
  <2>5. /\ k \in Nat /\ k # 0 /\ k - 1 = Len(B) /\ 1..Len(B) = (1..k) \ {k}
    BY <2>2, Successor
  <2> QED BY <2>1, <2>2, <2>3, <2>4, <2>5
<1>3. new.session = m.session /\ new.state = state /\ new.from = at /\ new.to = at
  BY DEF NewSegment
<1> HIDE DEF q, new, n, k
<1>4. OrderInv(e, b) /\ ForegroundInv(e) /\ CoverInv(e)
  BY DEF CleanInv
<1>5. /\ m.activity # None => m.activity = Len(A) /\ m.activity \in DOMAIN A
      /\ m.activity # None => A[m.activity].from <= b /\ A[m.activity].to = at
      /\ m.activity # None => A[m.activity].session = m.session
      /\ m.activity = None => \A i \in DOMAIN A : A[i].session # m.session
  BY <1>2, <1>4, CleanFacts DEF OrderInv, EndsAt, MemoryInv
<1>6. \A i \in DOMAIN A : A[i].session = m.session => A[i].to <= at
  <2>1. SUFFICES ASSUME NEW i \in DOMAIN A, A[i].session = m.session
                 PROVE  A[i].to <= at
    OBVIOUS
  <2>2. m.activity # None
    BY <1>5, <2>1
  <2>3. A[i].to \in Int /\ A[m.activity].from \in Int
    BY <1>2, <1>5, <2>2, RowIntegers
  <2>4. CASE i = m.activity
    BY <1>2, <1>5, <2>2, <2>4
  <2>5. CASE i # m.activity
    <3>1. i < m.activity
      BY <1>2, <1>5, <2>2, <2>5
    <3>2. A[i].to <= A[m.activity].from
      BY <1>4, <1>5, <2>1, <2>2, <3>1 DEF OrderInv
    <3>3. A[m.activity].from <= b /\ b \in Int /\ at \in Int
      BY <1>2, <1>5, <2>2
    <3> QED BY <2>3, <3>2, <3>3
  <2> QED BY <2>4, <2>5
<1>7. OrderInv(q, at)
  <2>1. ASSUME NEW i \in 1..n, NEW j \in 1..n, i < j,
               q.activities[i].session = q.activities[j].session
        PROVE  q.activities[i].to <= q.activities[j].from
    <3>1. i \in DOMAIN A
      BY <1>2, <2>1
    <3>2. CASE j \in DOMAIN A
      BY <1>1, <1>4, <2>1, <3>1, <3>2 DEF OrderInv
    <3>3. CASE j = n
      BY <1>1, <1>3, <1>6, <2>1, <3>1, <3>3
    <3> QED BY <1>2, <3>2, <3>3
  <2>2. q.activities[n].from <= at
    BY <1>1, <1>2, <1>3
  <2> QED BY <1>1, <1>2, <1>3, <2>1, <2>2 DEF OrderInv, None
<1>8. ForegroundInv(q)
  <2>1. /\ m.application # None <=> m.activity # None /\ m.state = "active"
        /\ m.application # None => m.application \in DOMAIN B /\ B[m.application] = A[m.activity]
    BY <1>2, CleanFacts
  <2>2. \A i \in DOMAIN B : B[i].state = "active" /\ \E j \in DOMAIN A : A[j] = B[i]
    <3>1. TAKE i \in DOMAIN B
    <3>2. CASE i = m.application
      <4>1. m.application # None
        BY <1>2, <3>2 DEF None
      <4> QED BY <1>4, <1>5, <2>1, <3>2, <4>1 DEF ForegroundInv
    <3>3. CASE i # m.application
      BY <1>4, <3>3 DEF ForegroundInv
    <3> QED BY <3>2, <3>3
  <2>3. \A i \in DOMAIN B : \E j \in (1..n) \ {n} : q.activities[j] = B[i]
    <3>1. DOMAIN A = (1..n) \ {n} /\ \A j \in DOMAIN A : q.activities[j] = A[j]
      BY <1>1, <1>2
    <3> QED BY <2>2, <3>1
  <2>4. CASE state = "active"
    <3>1. /\ q.memory.application = k /\ k # None /\ n # None
      BY <1>1, <1>2, <2>4 DEF None
    <3>2. /\ DOMAIN q.applications = 1..k /\ q.applications[k] = new
          /\ \A i \in DOMAIN B : q.applications[i] = B[i]
      BY <1>1, <2>4
    <3>3. ASSUME NEW i \in 1..k
          PROVE  /\ q.applications[i].state = "active"
                 /\ IF i = k THEN q.applications[i] = q.activities[n]
                    ELSE \E j \in (1..n) \ {n} : q.activities[j] = q.applications[i]
      <4>1. CASE i = k
        BY <1>1, <1>3, <2>4, <3>2, <4>1
      <4>2. CASE i # k
        BY <1>2, <2>2, <2>3, <3>2, <4>2
      <4> QED BY <4>1, <4>2
    <3>4. k \in 1..k
      BY <1>2
    <3> QED BY <1>1, <2>4, <3>1, <3>2, <3>3, <3>4 DEF ForegroundInv
  <2>5. CASE state # "active"
    <3>1. q.memory.application = None /\ q.applications = B
      BY <1>1, <2>5
    <3>2. \A i \in DOMAIN B : i # None
      BY <1>2 DEF None
    <3> QED BY <1>1, <2>2, <2>3, <2>5, <3>1, <3>2 DEF ForegroundInv
  <2> QED BY <2>4, <2>5
<1>9. CoverInv(q)
  <2>1. SUFFICES ASSUME NEW i \in 1..n, q.activities[i].session = m.session,
                        NEW t \in q.activities[i].from .. at - 1
                 PROVE  \E j \in (1..n) \ {n} :
                          /\ q.activities[j].session = m.session
                          /\ q.activities[j].from <= t /\ t < q.activities[j].to
    BY <1>1, <1>3 DEF CoverInv
  <2>2. i \in DOMAIN A
    BY <1>1, <1>2, <1>3, <2>1
  <2>3. q.activities[i] = A[i]
    BY <1>1, <2>2
  <2>4. m.activity \in DOMAIN A /\ m.activity # None
    BY <1>5, <2>1, <2>2, <2>3
  <2>5. A[i].from \in Int /\ A[m.activity].from \in Int /\ t \in Int
    <3>1. A \in Seq(Segments)
      BY <1>2
    <3>2. A[i].from \in Int /\ A[m.activity].from \in Int
      BY <2>2, <2>4, <3>1, RowIntegers
    <3> QED BY <2>1, <3>2
  <2>6. \E j \in DOMAIN A : A[j].session = m.session /\ A[j].from <= t /\ t < A[j].to
    <3>1. CASE t < A[m.activity].from
      <4>1. t \in A[i].from .. A[m.activity].from - 1
        BY <2>1, <2>3, <2>5, <3>1
      <4> QED BY <1>4, <2>1, <2>2, <2>3, <2>4, <4>1 DEF CoverInv
    <3>2. CASE A[m.activity].from <= t
      <4>1. t < at
        BY <1>2, <2>1, <2>3, <2>5
      <4> QED BY <1>5, <2>4, <3>2, <4>1
    <3> QED BY <2>5, <3>1, <3>2
  <2> QED BY <1>1, <1>2, <2>6
<1>10. EndsAt(q, at)
  BY <1>1, <1>3 DEF EndsAt
<1> QED BY <1>7, <1>8, <1>9, <1>10 DEF CleanInv, q

\* What a clean store becomes when an observation is written.
LEMMA CleanRecord ==
  ASSUME NEW s, Writable(s), NEW b \in Int, CleanInv(s, b),
         NEW state \in Observed \cup {"sleeping"}, NEW at \in Times, b <= at
  PROVE  LET r == RecordObservation(s, state, at, "none")
         IN  CleanInv(r, at) /\ EndsAt(r, at) /\ r.memory.activity # None /\ r.memory.state = state
<1> DEFINE e == Extend(s, at)
           r == RecordObservation(s, state, at, "none")
<1>1. /\ s \in Stores /\ MemoryInv(s) /\ s.memory.session \in 1..MaxSessions
      /\ at \in Int
  BY ActivityAssumption DEF Writable, Times
<1>2. r = IF Continues(s, state) THEN e ELSE Opened(e, state, at)
  BY CleanRecordIs
<1>3. CleanInv(e, b) /\ EndsAt(e, at)
  BY <1>1, CleanExtend
<1>4. /\ e \in Stores /\ MemoryInv(e) /\ e.memory = s.memory
  BY <1>1, ExtendKeeps DEF StoreKept
<1> HIDE DEF e, r
<1>5. CASE Continues(s, state)
  BY <1>1, <1>2, <1>3, <1>4, <1>5, CleanLater DEF Continues, r
<1>6. CASE ~Continues(s, state)
  <2> DEFINE q == Opened(e, state, at)
  <2>1. CleanInv(q, at) /\ EndsAt(q, at)
    BY <1>1, <1>3, <1>4, CleanOpened
  <2>2. q.memory.activity = Len(e.activities) + 1 /\ q.memory.state = state
    BY <1>1, <1>4, OpenedRows
  <2>3. Len(e.activities) \in Nat
    BY <1>4, StoreFields, LenProperties
  <2> QED BY <1>2, <1>6, <2>1, <2>2, <2>3 DEF None, r
<1> QED BY <1>5, <1>6

\* The samples have two around a moment, close to each other.
Near(seen, t) ==
  \E x, y \in seen : x.wall <= t /\ t < y.wall /\ Elapsed(x, y) <= SleepGap

\* The witnesses of active time.
LEMMA WitnessExtend ==
  ASSUME NEW s \in Stores, NEW at \in Times, NEW last, NEW seen, WitnessInv(s, last, seen)
  PROVE  WitnessInv(Extend(s, at), last, seen)
<1> DEFINE e == Extend(s, at)
           m == s.memory
           A == s.activities
<1>1. /\ e.memory = m /\ DOMAIN e.activities = DOMAIN A
      /\ \A i \in DOMAIN A : e.activities[i] = IF i = m.activity THEN MovedTo(A[i], at) ELSE A[i]
  BY ExtendRows
<1>2. \A i \in DOMAIN A : /\ e.activities[i].session = A[i].session
                          /\ e.activities[i].state = A[i].state
                          /\ e.activities[i].from = A[i].from
                          /\ i # m.activity => e.activities[i].to = A[i].to
  BY <1>1, MovedToFields
<1> HIDE DEF e
<1>3. SUFFICES ASSUME NEW i \in DOMAIN A, A[i].session = m.session, A[i].state = "active",
                      NEW t \in A[i].from ..
                                (IF i = m.activity THEN last ELSE A[i].to - 1) - 1
               PROVE  Near(seen, t)
  BY <1>1, <1>2 DEF WitnessInv, Near, e
<1> QED BY <1>3 DEF WitnessInv, Near

\* Closing the open segment no later than an interval after the time witnessed, and
\* opening the next.
LEMMA WitnessOpened ==
  ASSUME NEW e \in Stores, MemoryInv(e), e.memory.session \in 1..MaxSessions,
         NEW b, CleanInv(e, b), NEW last \in Int, NEW seen, WitnessInv(e, last, seen),
         NEW state \in Observed \cup {"sleeping"}, NEW at \in Times, EndsAt(e, at),
         e.memory.state = "active" => at - 1 <= last,
         NEW then \in Int, state = "active" => then <= at
  PROVE  WitnessInv(Opened(e, state, at), then, seen)
<1> DEFINE q == Opened(e, state, at)
           n == Len(e.activities) + 1
           new == NewSegment(e.memory.session, state, at)
           m == e.memory
           A == e.activities
<1>1. /\ q.memory.session = m.session /\ q.memory.activity = n
      /\ DOMAIN q.activities = 1..n
      /\ \A i \in DOMAIN A : q.activities[i] = A[i]
      /\ q.activities[n] = new
  BY OpenedRows
<1>2. /\ A \in Seq(Segments) /\ Len(A) \in Nat /\ DOMAIN A = 1..Len(A)
      /\ n \in Nat /\ n \notin DOMAIN A /\ DOMAIN A = (1..n) \ {n}
      /\ at \in Int
  BY StoreFields, LenProperties, ActivityAssumption DEF Times
<1>3. new.state = state /\ new.from = at
  BY DEF NewSegment
<1>4. m.activity # None => /\ m.activity \in DOMAIN A /\ A[m.activity].state = m.state
                           /\ A[m.activity].to = at
  BY <1>2, CleanFacts DEF EndsAt
<1> HIDE DEF q, new, n
<1>5. SUFFICES ASSUME NEW i \in 1..n, q.activities[i].session = m.session,
                      q.activities[i].state = "active",
                      NEW t \in q.activities[i].from ..
                                (IF i = n THEN then ELSE q.activities[i].to - 1) - 1
               PROVE  Near(seen, t)
  BY <1>1 DEF WitnessInv, Near, q
<1>6. CASE i = n
  <2>1. state = "active" /\ t \in at .. then - 1
    BY <1>1, <1>3, <1>5, <1>6
  <2> QED BY <1>2, <2>1
<1>7. CASE i # n
  <2>1. /\ i \in DOMAIN A /\ q.activities[i] = A[i] /\ A[i].session = m.session /\ A[i].state = "active"
        /\ t \in A[i].from .. (A[i].to - 1) - 1
    BY <1>1, <1>2, <1>5, <1>7
  <2>2. A[i].from \in Int /\ A[i].to \in Int
    BY <1>2, <2>1, RowIntegers
  <2>3. t \in A[i].from .. (IF i = m.activity THEN last ELSE A[i].to - 1) - 1
    <3>1. CASE i = m.activity
      <4>1. m.activity # None
        BY <1>2, <2>1, <3>1 DEF None
      <4>2. A[i].to = at /\ at - 1 <= last
        BY <1>4, <2>1, <3>1, <4>1
      <4>3. t \in A[i].from .. last - 1
        BY <1>2, <2>1, <2>2, <4>2
      <4> QED BY <3>1, <4>3
    <3>2. CASE i # m.activity
      BY <2>1, <3>2
    <3> QED BY <3>1, <3>2
  <2> QED BY <2>1, <2>3 DEF WitnessInv, Near
<1> QED BY <1>6, <1>7

\* The time since the last sample is witnessed, or the open segment is not active.
LEMMA WitnessSampled ==
  ASSUME NEW s \in Stores, NEW b, CleanInv(s, b), NEW last \in Int, NEW seen, WitnessInv(s, last, seen),
         NEW at \in Times, NEW more, seen \subseteq more,
         s.memory.state = "active" => \A t \in last..at - 1 : Near(more, t)
  PROVE  WitnessInv(s, at, more)
<1> DEFINE m == s.memory
           A == s.activities
<1>1. m.activity # None => A[m.activity].state = m.state
  BY CleanFacts
<1>2. /\ A \in Seq(Segments) /\ DOMAIN A = 1..Len(A) /\ at \in Int
  BY StoreFields, LenProperties, ActivityAssumption DEF Times
<1>3. SUFFICES ASSUME NEW i \in DOMAIN A, A[i].session = m.session, A[i].state = "active",
                      NEW t \in A[i].from ..
                                (IF i = m.activity THEN at ELSE A[i].to - 1) - 1
               PROVE  Near(more, t)
  BY DEF WitnessInv, Near
<1>4. A[i].from \in Int /\ A[i].to \in Int
  BY <1>2, RowIntegers
<1>5. CASE i = m.activity /\ last <= t
  <2>1. m.activity # None
    BY <1>2, <1>5 DEF None
  <2>2. s.memory.state = "active"
    BY <1>1, <1>3, <1>5, <2>1
  <2>3. t \in last..at - 1
    BY <1>2, <1>3, <1>4, <1>5
  <2> QED BY <2>2, <2>3
<1>6. CASE ~(i = m.activity /\ last <= t)
  <2>1. t \in A[i].from .. (IF i = m.activity THEN last ELSE A[i].to - 1) - 1
    BY <1>2, <1>3, <1>4, <1>6
  <2>2. Near(seen, t)
    BY <1>3, <2>1 DEF WitnessInv, Near
  <2> QED BY <2>2 DEF Near
<1> QED BY <1>5, <1>6

\* The first of the two writes of a sample, and the second.
LEMMA WitnessSleeping ==
  ASSUME NEW s, Writable(s), NEW last \in Int, CleanInv(s, last), NEW seen, WitnessInv(s, last, seen),
         last + 1 \in Times
  PROVE  WitnessInv(RecordObservation(s, "sleeping", last + 1, "none"), last, seen)
<1> DEFINE at == last + 1
           e == Extend(s, at)
           r == RecordObservation(s, "sleeping", at, "none")
<1>1. /\ s \in Stores /\ MemoryInv(s) /\ s.memory.session \in 1..MaxSessions
      /\ at \in Times
      /\ "sleeping" \in Observed \cup {"sleeping"} /\ "sleeping" # "active"
      /\ at - 1 <= last
  BY ActivityAssumption DEF Writable
<1> HIDE DEF at
<1>2. r = IF Continues(s, "sleeping") THEN e ELSE Opened(e, "sleeping", at)
  BY <1>1, CleanRecordIs
<1>3. CleanInv(e, last) /\ EndsAt(e, at)
  BY <1>1, CleanExtend
<1>4. /\ e \in Stores /\ MemoryInv(e) /\ e.memory = s.memory
  BY <1>1, ExtendKeeps DEF StoreKept
<1>5. WitnessInv(e, last, seen)
  BY <1>1, WitnessExtend
<1> HIDE DEF e, r
<1>6. WitnessInv(Opened(e, "sleeping", at), last, seen)
  BY <1>1, <1>3, <1>4, <1>5, WitnessOpened
<1> QED BY <1>2, <1>5, <1>6 DEF r, at

\* A sample near the one before it witnesses the active time it records.
LEMMA WitnessRecord ==
  ASSUME NEW s, Writable(s), NEW b, CleanInv(s, b), NEW last \in Int, NEW seen, WitnessInv(s, last, seen),
         NEW state \in Observed \cup {"sleeping"}, NEW at \in Times, NEW more, seen \subseteq more,
         s.memory.state = "active" => \A t \in last..at - 1 : Near(more, t)
  PROVE  WitnessInv(RecordObservation(s, state, at, "none"), at, more)
<1> DEFINE e == Extend(s, at)
           r == RecordObservation(s, state, at, "none")
<1>1. /\ s \in Stores /\ MemoryInv(s) /\ s.memory.session \in 1..MaxSessions
      /\ at \in Int /\ at - 1 <= at /\ at <= at
  BY ActivityAssumption DEF Writable, Times
<1>2. r = IF Continues(s, state) THEN e ELSE Opened(e, state, at)
  BY CleanRecordIs
<1>3. CleanInv(e, b) /\ EndsAt(e, at)
  BY <1>1, CleanExtend
<1>4. /\ e \in Stores /\ MemoryInv(e) /\ e.memory = s.memory
  BY <1>1, ExtendKeeps DEF StoreKept
<1>5. WitnessInv(e, last, seen)
  BY <1>1, WitnessExtend
<1> HIDE DEF e, r
<1>6. WitnessInv(e, at, more)
  BY <1>3, <1>4, <1>5, WitnessSampled
<1>7. WitnessInv(Opened(e, state, at), at, more)
  BY <1>1, <1>3, <1>4, <1>6, WitnessOpened
<1> QED BY <1>2, <1>6, <1>7 DEF r

\* A store whose memory refers to no segment.
LEMMA FreshClean ==
  ASSUME NEW s \in Stores, NEW c, CleanInv(s, c), NEW m \in Memories,
         m.activity = None, m.application = None, m.state # "active",
         \A i \in DOMAIN s.activities : s.activities[i].session # m.session,
         NEW q, q.activities = s.activities, q.applications = s.applications, q.memory = m,
         NEW b, NEW seen
  PROVE  CleanInv(q, b) /\ WitnessInv(q, b, seen)
<1>1. OrderInv(s, c) /\ ForegroundInv(s)
  BY DEF CleanInv
<1>2. OrderInv(q, b)
  BY <1>1 DEF OrderInv
<1>3. /\ DOMAIN s.activities = 1..Len(s.activities) /\ DOMAIN s.applications = 1..Len(s.applications)
      /\ Len(s.activities) \in Nat /\ Len(s.applications) \in Nat
  BY StoreFields, LenProperties
<1>4. s.memory.activity # None => s.memory.activity \in DOMAIN s.activities
  BY <1>3, CleanFacts
<1>5. \A i \in DOMAIN s.applications :
        /\ s.applications[i].state = "active"
        /\ \E j \in DOMAIN s.activities : s.activities[j] = s.applications[i]
  <2>1. TAKE i \in DOMAIN s.applications
  <2>2. CASE i = s.memory.application
    <3>1. s.memory.application # None
      BY <1>3, <2>2 DEF None
    <3> QED BY <1>1, <1>4, <2>2, <3>1 DEF ForegroundInv
  <2>3. CASE i # s.memory.application
    BY <1>1, <2>3 DEF ForegroundInv
  <2> QED BY <2>2, <2>3
<1>6. /\ \A i \in DOMAIN s.activities : i # None
      /\ \A i \in DOMAIN s.applications : i # None
  BY <1>3 DEF None
<1>7. ForegroundInv(q)
  BY <1>5, <1>6 DEF ForegroundInv
<1>8. CoverInv(q)
  BY DEF CoverInv
<1>9. WitnessInv(q, b, seen)
  BY DEF WitnessInv
<1> QED BY <1>2, <1>7, <1>8, <1>9 DEF CleanInv

\* A sample, with the sleep before it, keeps a clean store clean.
LEMMA SampledClean ==
  ASSUME NEW s \in Stores, MemoryInv(s), s.memory.session \in 1..MaxSessions,
         Len(s.activities) + 2 <= MaxSegments, Len(s.applications) + 1 <= MaxSegments,
         NEW last \in Int, CleanInv(s, last), NEW at \in Times, last <= at,
         NEW slept, slept => last + 1 \in Times /\ last + 1 <= at,
         NEW state \in Observed,
         NEW f, NEW g, f = "none", g = "none"
  PROVE  LET r == RecordObservation(SleepOf(s, slept, last + 1, f), state, at, g)
         IN  /\ CleanInv(r, at) /\ EndsAt(r, at) /\ r.memory.activity # None
             /\ \A seen, more :
                  /\ seen \subseteq more /\ WitnessInv(s, last, seen)
                  /\ ~slept /\ s.memory.state = "active" => \A t \in last..at - 1 : Near(more, t)
                  => WitnessInv(r, at, more)
<1> DEFINE first == SleepOf(s, slept, last + 1, f)
           r == RecordObservation(first, state, at, g)
<1>1. /\ Writable(first) /\ first \in Stores
      /\ "none" \in Failures /\ "sleeping" \in Observed \cup {"sleeping"} /\ "sleeping" # "active"
      /\ state \in Observed \cup {"sleeping"}
      /\ Writable(s)
  <2>1. "none" \in Failures
    BY DEF Failures
  <2>2. Writable(first) /\ first \in Stores
    BY <2>1, SampledKeeps
  <2>3. Len(s.activities) \in Nat /\ Len(s.applications) \in Nat /\ MaxSegments \in Nat
    BY StoreFields, LenProperties, ActivityAssumption
  <2>4. Writable(s)
    BY <2>3 DEF Writable
  <2> QED BY <2>1, <2>2, <2>4
<1>2. at \in Int
  BY ActivityAssumption DEF Times
<1>3. CASE slept
  <2>1. first = RecordObservation(s, "sleeping", last + 1, "none")
    BY <1>3 DEF SleepOf
  <2>2. last + 1 \in Times /\ last + 1 <= at /\ last + 1 \in Int /\ last <= last + 1
    BY <1>3
  <2> HIDE DEF first
  <2>3. CleanInv(first, last + 1) /\ first.memory.state = "sleeping"
    BY SMTT(30), <1>1, <2>1, <2>2, CleanRecord
  <2>4. CleanInv(r, at) /\ EndsAt(r, at) /\ r.memory.activity # None
    BY <1>1, <2>2, <2>3, CleanRecord
  <2>5. ASSUME NEW seen, NEW more, seen \subseteq more, WitnessInv(s, last, seen)
        PROVE  WitnessInv(r, at, more)
    <3>1. WitnessInv(first, last, seen)
      BY <1>1, <2>1, <2>2, <2>5, WitnessSleeping
    <3> QED BY <1>1, <2>3, <2>5, <3>1, WitnessRecord
  <2> QED BY <2>4, <2>5 DEF first
<1>4. CASE ~slept
  <2>1. first = s
    BY <1>4 DEF SleepOf
  <2> HIDE DEF first
  <2>2. CleanInv(r, at) /\ EndsAt(r, at) /\ r.memory.activity # None
    BY <1>1, <2>1, CleanRecord
  <2>3. ASSUME NEW seen, NEW more, seen \subseteq more, WitnessInv(s, last, seen),
               s.memory.state = "active" => \A t \in last..at - 1 : Near(more, t)
        PROVE  WitnessInv(r, at, more)
    BY <1>1, <2>1, <2>3, WitnessRecord
  <2> QED BY <1>4, <2>2, <2>3 DEF first
<1> QED BY <1>3, <1>4

-----------------------------------------------------------------------------
\* The clock and the ticks.

USE DEF clockVars, tableVars, vars

TimeInv ==
  /\ clock \in Times /\ drift \in Times
  /\ sampleTick \in Instants /\ summaryTick \in Instants /\ lastSample \in Instants
  /\ up \in BOOLEAN /\ samples \in SUBSET Instants
  /\ ClockInv

\* The two readings of an instant no clock has shown.
LEMMA NeverIs == Never.wall = -1 /\ Never.drift = 0
  BY DEF Never

\* Both readings of an instant are times, or -1.
LEMMA InstantFields ==
  ASSUME NEW t \in Instants
  PROVE  t.wall \in -1..MaxTime /\ t.drift \in 0..MaxTime /\ t.wall \in Int /\ t.drift \in Int
  BY ActivityAssumption DEF Instants

\* No clock has been read when the system starts.
LEMMA TimeStart == Init => TimeInv
<1> SUFFICES ASSUME Init PROVE TimeInv
  OBVIOUS
<1>1. Never \in Instants
  BY ActivityAssumption DEF Never, Instants
<1>2. 0 \in Times
  BY ActivityAssumption DEF Times
<1>3. /\ clock = 0 /\ drift = 0 /\ ~up /\ samples = {}
      /\ sampleTick = Never /\ summaryTick = Never /\ lastSample = Never
  BY DEF Init
<1>4. ClockInv
  BY <1>3 DEF ClockInv
<1> QED BY <1>1, <1>2, <1>3, <1>4 DEF TimeInv, Init

\* A second passes for the wall clock and the monotonic one.
LEMMA TimeTick ==
  ASSUME TimeInv, Tick
  PROVE  TimeInv'
<1> DEFINE t == [Now EXCEPT !.wall = clock + 1]
<1>1. t = [wall |-> clock + 1, drift |-> drift]
  BY DEF Now
<1>2. clock \in 0..MaxTime /\ drift \in 0..MaxTime /\ clock < MaxTime /\ clock' = clock + 1 /\ MaxTime \in Nat
  BY ActivityAssumption DEF TimeInv, Tick, Times
<1>3. t \in Instants /\ t # Never /\ t.wall = clock + 1 /\ t.drift = drift
  BY <1>1, <1>2 DEF Instants, Never
<1> HIDE DEF t
<1>4. /\ sampleTick' = IF up /\ sampleTick = Never THEN t ELSE sampleTick
      /\ summaryTick' = summaryTick \/ (up /\ summaryTick' = t)
      /\ drift' = drift /\ up' = up /\ lastSample' = lastSample /\ samples' = samples
  BY DEF Tick, t
<1>5. \A i \in {sampleTick, summaryTick, lastSample} :
         i = Never \/ (i.wall \in 0..clock' /\ i.drift <= drift')
  BY <1>2, <1>4 DEF TimeInv, ClockInv
<1>6. t.wall \in 0..clock' /\ t.drift <= drift'
  BY <1>2, <1>3, <1>4
<1>7. \A i \in {sampleTick', summaryTick', lastSample'} :
         i = Never \/ (i.wall \in 0..clock' /\ i.drift <= drift')
  BY <1>4, <1>5, <1>6
<1>8. lastSample.wall <= clock /\ lastSample.drift <= drift /\ lastSample.wall \in Int
  BY <1>2, NeverIs, InstantFields DEF TimeInv, ClockInv
<1>9. sampleTick' # Never =>
        lastSample'.wall < sampleTick'.wall /\ lastSample'.drift <= sampleTick'.drift
  BY <1>2, <1>3, <1>4, <1>8 DEF TimeInv, ClockInv
<1>10. /\ clock' \in Times /\ drift' \in Times
       /\ sampleTick' \in Instants /\ summaryTick' \in Instants /\ lastSample' \in Instants
       /\ up' \in BOOLEAN /\ samples' \in SUBSET Instants
  BY <1>2, <1>3, <1>4 DEF TimeInv, Times
<1>11. /\ up' <=> lastSample' # Never
       /\ ~up' => sampleTick' = Never /\ summaryTick' = Never
       /\ up' => lastSample' \in samples'
       /\ drift' <= clock'
  BY <1>2, <1>4 DEF TimeInv, ClockInv
<1> QED BY <1>7, <1>9, <1>10, <1>11 DEF TimeInv, ClockInv

\* A suspension moves the wall clock, and the monotonic one as the platform has it.
LEMMA TimeSuspend ==
  ASSUME TimeInv, NEW n \in 1..SleepGap + 1, Suspend(n)
  PROVE  TimeInv'
<1> DEFINE t == [wall |-> clock', drift |-> drift']
<1>1. /\ clock \in 0..MaxTime /\ drift \in 0..MaxTime /\ drift <= clock
      /\ MaxTime \in Nat /\ SleepGap \in Nat /\ n \in Nat /\ n # 0
  BY ActivityAssumption DEF TimeInv, ClockInv, Times
<1>2. /\ clock' = clock + n /\ clock + n <= MaxTime /\ up
      /\ drift' \in {drift, drift + n}
      /\ sampleTick' = IF sampleTick = Never THEN t ELSE sampleTick
      /\ summaryTick' = summaryTick \/ summaryTick' = t
      /\ up' = up /\ lastSample' = lastSample /\ samples' = samples
  BY DEF Suspend
<1>3. clock' \in 0..MaxTime /\ drift' \in 0..MaxTime /\ clock < clock' /\ drift <= drift' /\ drift' <= clock'
  BY <1>1, <1>2
<1>4. t \in Instants /\ t # Never /\ t.wall = clock' /\ t.drift = drift'
  BY <1>1, <1>3 DEF Instants, Never
<1> HIDE DEF t
<1>5. \A i \in {sampleTick, summaryTick, lastSample} :
         i = Never \/ (i.wall \in 0..clock' /\ i.drift <= drift')
  <2>1. TAKE i \in {sampleTick, summaryTick, lastSample}
  <2>2. i \in Instants /\ (i = Never \/ (i.wall \in 0..clock /\ i.drift <= drift))
    BY DEF TimeInv, ClockInv
  <2>3. i.wall \in Int /\ i.drift \in Int
    BY <2>2, InstantFields
  <2> QED BY <1>1, <1>3, <2>2, <2>3
<1>6. t.wall \in 0..clock' /\ t.drift <= drift'
  BY <1>1, <1>3, <1>4
<1>7. \A i \in {sampleTick', summaryTick', lastSample'} :
         i = Never \/ (i.wall \in 0..clock' /\ i.drift <= drift')
  BY <1>2, <1>5, <1>6
<1>8. lastSample.wall <= clock /\ lastSample.drift <= drift
      /\ lastSample.wall \in Int /\ lastSample.drift \in Int
  BY <1>1, NeverIs, InstantFields DEF TimeInv, ClockInv
<1>9. sampleTick' # Never =>
        lastSample'.wall < sampleTick'.wall /\ lastSample'.drift <= sampleTick'.drift
  <2>1. CASE sampleTick = Never
    BY <1>1, <1>2, <1>3, <1>4, <1>8, <2>1
  <2>2. CASE sampleTick # Never
    BY <1>2, <2>2 DEF TimeInv, ClockInv
  <2> QED BY <2>1, <2>2
<1>10. /\ clock' \in Times /\ drift' \in Times
       /\ sampleTick' \in Instants /\ summaryTick' \in Instants /\ lastSample' \in Instants
       /\ up' \in BOOLEAN /\ samples' \in SUBSET Instants
  BY <1>2, <1>3, <1>4 DEF TimeInv, Times
<1>11. /\ up' <=> lastSample' # Never
       /\ ~up' => sampleTick' = Never /\ summaryTick' = Never
       /\ up' => lastSample' \in samples'
  BY <1>2 DEF TimeInv, ClockInv
<1> QED BY <1>3, <1>7, <1>9, <1>10, <1>11 DEF TimeInv, ClockInv

\* A sample that is recorded becomes the last one.
LEMMA TimeSampled ==
  ASSUME TimeInv, NEW t \in Instants, t # Never, t.wall \in 0..clock, t.drift <= drift,
         clock' = clock, drift' = drift, up', summaryTick' = summaryTick, sampleTick' = Never,
         lastSample' = t, samples' = samples \cup {t}
  PROVE  TimeInv'
<1>1. Never \in Instants
  BY ActivityAssumption DEF Never, Instants
<1> QED BY <1>1 DEF TimeInv, ClockInv

\* A start reads the clock for the first sample.
LEMMA TimeRun ==
  ASSUME TimeInv, Run
  PROVE  TimeInv'
<1>1. /\ up' /\ clock' = clock /\ drift' = drift /\ summaryTick' = summaryTick
      /\ sampleTick' = sampleTick /\ lastSample' = Now /\ samples' = samples \cup {Now}
      /\ sampleTick = Never
  BY DEF Run, SampleFrom, TimeInv, ClockInv
<1>2. clock \in 0..MaxTime /\ drift \in 0..MaxTime /\ MaxTime \in Nat
  BY ActivityAssumption DEF TimeInv, Times
<1>3. Now \in Instants /\ Now # Never /\ Now.wall = clock /\ Now.drift = drift
  BY <1>2 DEF Now, Never, Instants
<1>4. Now.wall \in 0..clock /\ Now.drift <= drift
  BY <1>2, <1>3
<1> QED BY <1>1, <1>3, <1>4, TimeSampled

\* A sample takes its tick and reads the clock.
LEMMA TimeSample ==
  ASSUME TimeInv, Sample
  PROVE  TimeInv'
<1>1. /\ up' = up /\ clock' = clock /\ drift' = drift /\ summaryTick' = summaryTick
      /\ sampleTick' = Never /\ lastSample' = sampleTick /\ samples' = samples \cup {sampleTick}
      /\ up /\ sampleTick # Never
  BY DEF Sample, SampleFrom
<1>2. sampleTick \in Instants /\ sampleTick.wall \in 0..clock /\ sampleTick.drift <= drift
  BY <1>1 DEF TimeInv, ClockInv
<1> QED BY <1>1, <1>2, TimeSampled

\* The end of the process drops its tickers.
LEMMA TimeEnds ==
  ASSUME TimeInv, EndProcess
  PROVE  TimeInv'
<1>1. Never \in Instants
  BY ActivityAssumption DEF Never, Instants
<1> QED BY <1>1 DEF TimeInv, ClockInv, EndProcess

\* What the other actions leave of the clock: a summary takes its tick.
LEMMA TimeKept ==
  ASSUME TimeInv, UNCHANGED <<clock, drift, sampleTick, up, lastSample, samples>>,
         summaryTick' = summaryTick \/ summaryTick' = Never
  PROVE  TimeInv'
<1>1. Never \in Instants
  BY ActivityAssumption DEF Never, Instants
<1> QED BY <1>1 DEF TimeInv, ClockInv

\* Every step keeps the clock's part of the invariant.
LEMMA TimeStep ==
  ASSUME TimeInv, [Next]_vars
  PROVE  TimeInv'
<1>1. CASE Tick
  BY <1>1, TimeTick
<1>2. CASE \E n \in 1..SleepGap + 1 : Suspend(n)
  BY <1>2, TimeSuspend
<1>3. CASE Run
  BY <1>3, TimeRun
<1>4. CASE Sample
  BY <1>4, TimeSample
<1>5. CASE Crash
  BY <1>5, TimeEnds DEF Crash
<1>6. ASSUME NEW result \in SummaryResults, PrepareDailySummary(result)
      PROVE  TimeInv'
  BY <1>6, TimeKept DEF PrepareDailySummary
<1>7. ASSUME NEW result \in SummaryResults, Logout(result)
      PROVE  TimeInv'
  BY <1>7, TimeKept DEF Logout
<1>8. ASSUME NEW result \in SummaryResults, Shutdown(result)
      PROVE  TimeInv'
  BY <1>8, TimeEnds DEF Shutdown
<1>9. CASE UNCHANGED vars
  BY <1>9, TimeKept
<1> QED BY <1>1, <1>2, <1>3, <1>4, <1>5, <1>6, <1>7, <1>8, <1>9 DEF Next

-----------------------------------------------------------------------------
\* The tables and the memory.

StoreInv ==
  /\ sessions \in Seq(Sessions)
  /\ activities \in Seq(Segments) /\ applications \in Seq(Segments) /\ memory \in Memories
  /\ SessionInv /\ MemoryInv(Store)

\* The store is the tables and the memory of the state.
LEMMA StoreIs ==
  /\ Store.activities = activities /\ Store.applications = applications /\ Store.memory = memory
  /\ activities \in Seq(Segments) /\ applications \in Seq(Segments) /\ memory \in Memories
       => Store \in Stores
  BY DEF Store, Stores

\* Writing a store makes it the store of the next state.
LEMMA SetStoreIs ==
  ASSUME NEW r \in Stores, SetStore(r)
  PROVE  Store' = r
  BY StoreRecord DEF SetStore, Store

\* A write of the open session leaves no row of a session not yet begun.
LEMMA KeptSessions ==
  ASSUME NEW a \in Seq(Segments), NEW b, NEW session \in Int, NEW n \in Int, session <= n,
         TableKept(a, b, session), \A i \in DOMAIN a : a[i].session <= n
  PROVE  \A i \in DOMAIN b : b[i].session <= n
<1>1. b \in Seq(Segments) /\ Len(b) \in Nat /\ Len(a) \in Nat
  BY DEF TableKept
<1>2. TAKE i \in DOMAIN b
<1>3. i \in 1..Len(b) /\ i \in Int
  BY <1>1
<1>4. CASE i <= Len(a)
  <2>1. i \in 1..Len(a) /\ i \in DOMAIN a
    BY <1>1, <1>3, <1>4
  <2>2. b[i].session = a[i].session
    BY <2>1 DEF TableKept
  <2> QED BY <2>1, <2>2
<1>5. CASE Len(a) < i
  BY <1>3, <1>5 DEF TableKept
<1> QED BY <1>1, <1>3, <1>4, <1>5

\* A write of the open session keeps the store's part of the invariant.
LEMMA StoreWritten ==
  ASSUME sessions' \in Seq(Sessions), OneOpenSession', Len(sessions') <= MaxSessions,
         Len(sessions') # 0, Len(sessions) <= Len(sessions'), sessions \in Seq(Sessions),
         NEW s \in Stores, \A i \in DOMAIN s.activities : s.activities[i].session <= Len(sessions),
         \A i \in DOMAIN s.applications : s.applications[i].session <= Len(sessions),
         s.memory.session = Len(sessions'),
         NEW r, StoreKept(s, r), SetStore(r), up'
  PROVE  StoreInv'
<1> DEFINE n == Len(sessions')
<1>1. /\ Len(sessions) \in Nat /\ n \in Nat /\ Len(sessions) <= n
      /\ s.activities \in Seq(Segments) /\ s.applications \in Seq(Segments)
  BY LenProperties, StoreFields
<1> HIDE DEF n
<1>2. /\ r \in Stores /\ MemoryInv(r) /\ r.memory.session = n
      /\ TableKept(s.activities, r.activities, n) /\ TableKept(s.applications, r.applications, n)
  BY DEF StoreKept, n
<1>3. /\ r.activities \in Seq(Segments) /\ r.applications \in Seq(Segments) /\ r.memory \in Memories
      /\ r.activities = activities' /\ r.applications = applications' /\ r.memory = memory'
      /\ Store' = r
  BY <1>2, StoreFields, SetStoreIs DEF SetStore
<1>4. /\ \A i \in DOMAIN s.activities : s.activities[i].session <= n
      /\ \A i \in DOMAIN s.applications : s.applications[i].session <= n
  <2>1. \A row \in Segments : row.session \in Int
    BY DEF Segments
  <2>2. /\ \A i \in DOMAIN s.activities : s.activities[i].session \in Int
        /\ \A i \in DOMAIN s.applications : s.applications[i].session \in Int
    BY <1>1, <2>1
  <2> QED BY <1>1, <2>2
<1>5. /\ \A i \in DOMAIN activities' : activities'[i].session <= n
      /\ \A i \in DOMAIN applications' : applications'[i].session <= n
  <2>1. /\ n \in Int /\ n <= n
        /\ s.activities \in Seq(Segments) /\ s.applications \in Seq(Segments)
    BY <1>1
  <2>2. TableKept(s.activities, r.activities, n)
    BY <1>2
  <2>3. TableKept(s.applications, r.applications, n)
    BY <1>2
  <2>4. \A i \in DOMAIN r.activities : r.activities[i].session <= n
    BY <1>4, <2>1, <2>2, KeptSessions
  <2>5. \A i \in DOMAIN r.applications : r.applications[i].session <= n
    BY <1>4, <2>1, <2>3, KeptSessions
  <2> QED BY <1>3, <2>4, <2>5
<1>6. MemoryInv(Store)'
  BY <1>2, <1>3 DEF MemoryInv
<1>7. SessionInv'
  BY <1>1, <1>2, <1>3, <1>5 DEF SessionInv, n
<1> QED BY <1>3, <1>6, <1>7 DEF StoreInv

\* Sessions are closed before another one is opened.
LEMMA FinalizedClosed ==
  ASSUME NEW table \in Seq(Sessions), NEW id \in 1..Len(table), NEW at \in Times
  PROVE  /\ Finalized(table, id, at) \in Seq(Sessions)
         /\ Len(Finalized(table, id, at)) = Len(table)
         /\ \A i \in 1..Len(table) : Finalized(table, id, at)[i].open => table[i].open
<1> DEFINE closed == [open |-> FALSE, to |-> at]
<1>1. closed \in Sessions /\ ~closed.open
  BY DEF Sessions, Times
<1> HIDE DEF closed
<1>2. Finalized(table, id, at) = [table EXCEPT ![id] = closed]
  BY DEF Finalized, closed
<1>3. \A i \in 1..Len(table) : [table EXCEPT ![id] = closed][i] = IF i = id THEN closed ELSE table[i]
  BY <1>1, ExceptSeq
<1>4. [table EXCEPT ![id] = closed] \in Seq(Sessions) /\ Len([table EXCEPT ![id] = closed]) = Len(table)
  BY <1>1, ExceptSeq
<1> QED BY <1>1, <1>2, <1>3, <1>4

\* startSession closes every open session and opens the last.
LEMMA NewSessionOpen ==
  ASSUME NEW table \in Seq(Sessions), NEW at \in Times
  PROVE  /\ WithNewSession(table, at) \in Seq(Sessions)
         /\ Len(WithNewSession(table, at)) = Len(table) + 1
         /\ \A i \in 1..Len(WithNewSession(table, at)) :
              WithNewSession(table, at)[i].open => i = Len(table) + 1
<1> DEFINE closed == [open |-> FALSE, to |-> at]
           opened == [open |-> TRUE, to |-> at]
           rest == [i \in DOMAIN table |-> IF table[i].open THEN closed ELSE table[i]]
<1>1. closed \in Sessions /\ opened \in Sessions /\ ~closed.open
  BY DEF Sessions, Times
<1>2. WithNewSession(table, at) = Append(rest, opened)
  BY DEF WithNewSession
<1> HIDE DEF closed, opened
<1>3. Len(table) \in Nat /\ DOMAIN table = 1..Len(table) /\ \A i \in 1..Len(table) : table[i] \in Sessions
  BY LenProperties
<1>4. rest \in Seq(Sessions) /\ Len(rest) = Len(table)
  <2>1. rest \in [1..Len(table) -> Sessions]
    BY <1>1, <1>3
  <2>2. rest \in Seq(Sessions)
    BY <1>3, <2>1, SeqDef
  <2> QED BY <1>3, <2>1, <2>2, LenProperties
<1>5. \A i \in 1..Len(table) : ~rest[i].open
  BY <1>1, <1>3
<1> HIDE DEF rest
<1> QED BY <1>1, <1>2, <1>3, <1>4, <1>5

\* After a long gap the inferred sleep begins before the sample.
LEMMA SleepBeforeSample ==
  ASSUME TimeInv, sampleTick # Never, LongGap(lastSample, sampleTick)
  PROVE  /\ lastSample.wall + 1 \in Times /\ lastSample.wall + 1 < sampleTick.wall
<1>1. /\ sampleTick.wall \in 0..clock /\ clock \in 0..MaxTime /\ lastSample.wall \in 0..clock
      /\ lastSample.drift <= sampleTick.drift
  BY DEF TimeInv, ClockInv, LongGap, Times
<1>2. sampleTick.drift \in Int /\ lastSample.drift \in Int
  BY InstantFields DEF TimeInv
<1> QED BY <1>1, <1>2, ActivityAssumption DEF LongGap, Elapsed, Times

\* A sample is an observation, with the sleep before it when the gap is long.
LEMMA SampleFromIs ==
  ASSUME NEW s, NEW last, NEW t, SampleFrom(s, last, t)
  PROVE  \E state \in Observed, f \in Failures, g \in Failures :
           /\ ~LongGap(last, t) => f = "none"
           /\ Fails(Cardinality({x \in {<<1, f>>, <<2, g>>} : x[2] # "none"}))
           /\ SetStore(RecordObservation(SleepOf(s, LongGap(last, t), last.wall + 1, f), state, t.wall, g))
  BY Zenon DEF SampleFrom, SleepOf, LongGap

\* The memory a new session starts with.
LEMMA FreshIs ==
  ASSUME NEW n \in 1..MaxSessions, NEW m, m = [NoMemory EXCEPT !.session = n]
  PROVE  /\ m \in Memories /\ m.session = n /\ m.activity = None /\ m.application = None
         /\ m.state = "none"
<1>1. m = [session |-> n, activity |-> 0, state |-> "none", application |-> 0]
  BY DEF NoMemory, None
<1>2. n \in 0..MaxSessions /\ 0 \in -1..MaxSegments
  BY ActivityAssumption
<1>3. "none" \in Observed \cup {"sleeping", "none"}
  OBVIOUS
<1>4. \A x \in Observed \cup {"sleeping", "none"} :
         [session |-> n, activity |-> 0, state |-> x, application |-> 0] \in Memories
  BY <1>2 DEF Memories
<1>5. m \in Memories
  BY <1>1, <1>3, <1>4
<1> QED BY <1>1, <1>5 DEF None

\* The memory of a process that has not started one.
LEMMA NoMemoryIs ==
  /\ NoMemory \in Memories
  /\ NoMemory.activity = 0 /\ NoMemory.application = 0 /\ NoMemory.session = 0
<1>1. NoMemory = [session |-> 0, activity |-> 0, state |-> "none", application |-> 0]
  BY DEF NoMemory, None
<1>2. 0 \in 0..MaxSessions /\ 0 \in -1..MaxSegments
  BY ActivityAssumption
<1>3. "none" \in Observed \cup {"sleeping", "none"}
  OBVIOUS
<1>4. \A x \in Observed \cup {"sleeping", "none"} :
         [session |-> 0, activity |-> 0, state |-> x, application |-> 0] \in Memories
  BY <1>2 DEF Memories
<1>5. NoMemory \in Memories
  BY <1>1, <1>3, <1>4
<1> QED BY <1>1, <1>5

\* A new session has no row yet and remembers none.
LEMMA FreshStore ==
  ASSUME NEW n \in 1..MaxSessions, NEW m, m = [NoMemory EXCEPT !.session = n],
         activities \in Seq(Segments), applications \in Seq(Segments)
  PROVE  LET s == [Store EXCEPT !.memory = m]
         IN  /\ s = [activities |-> activities, applications |-> applications, memory |-> m]
             /\ s \in Stores /\ MemoryInv(s)
<1>2. m \in Memories /\ m.activity = 0 /\ m.application = 0
  BY FreshIs DEF None
<1> DEFINE s == [Store EXCEPT !.memory = m]
<1>3. s = [activities |-> activities, applications |-> applications, memory |-> m]
  BY DEF Store
<1> HIDE DEF s
<1>4. s.activities = activities /\ s.applications = applications /\ s.memory = m
  BY <1>3
<1>5. s \in Stores
  BY <1>2, <1>3 DEF Stores
<1>6. Len(activities) \in Nat /\ Len(applications) \in Nat
  BY LenProperties
<1>8. MemoryInv(s)
  BY <1>2, <1>4, <1>6 DEF MemoryInv
<1> QED BY <1>3, <1>5, <1>8 DEF s

\* What the store's part of the invariant says of each table.
LEMMA StoreInvFacts ==
  ASSUME StoreInv
  PROVE  /\ Store \in Stores /\ MemoryInv(Store) /\ Len(sessions) \in Nat /\ Len(sessions) <= MaxSessions
         /\ Store.activities = activities /\ Store.applications = applications /\ Store.memory = memory
         /\ \A i \in DOMAIN activities : activities[i].session <= Len(sessions)
         /\ \A i \in DOMAIN applications : applications[i].session <= Len(sessions)
         /\ up => memory.session = Len(sessions) /\ memory.session \in 1..MaxSessions
<1>1. Len(sessions) \in Nat /\ MaxSessions \in Nat
  BY LenProperties, ActivityAssumption DEF StoreInv
<1>2. up => memory.session \in 1..MaxSessions /\ memory.session = Len(sessions)
  BY <1>1 DEF StoreInv, SessionInv
<1> QED BY <1>1, <1>2, StoreIs DEF StoreInv, SessionInv

\* A step that writes rows of the session the process holds.
LEMMA SessionWritten ==
  ASSUME StoreInv, up, up', NEW r, StoreKept(Store, r), SetStore(r),
         sessions' = sessions \/ \E id \in 1..Len(sessions), at \in Times :
                                    sessions' = Finalized(sessions, id, at)
  PROVE  StoreInv'
<1>1. sessions \in Seq(Sessions) /\ OneOpenSession /\ Len(sessions) # 0 /\ DOMAIN sessions = 1..Len(sessions)
  BY LenProperties DEF StoreInv, SessionInv
<1>2. sessions' \in Seq(Sessions) /\ Len(sessions') = Len(sessions)
      /\ \A i \in 1..Len(sessions) : sessions'[i].open => sessions[i].open
  BY <1>1, FinalizedClosed
<1>3. OneOpenSession'
  BY <1>1, <1>2, LenProperties DEF OneOpenSession
<1> QED BY <1>1, <1>2, <1>3, StoreInvFacts, StoreWritten

\* A step that starts a session, on the tables of the store s.
LEMMA SessionStarted ==
  ASSUME StoreInv, up', NEW table \in Seq(Sessions), Len(table) = Len(sessions),
         Len(sessions) < MaxSessions, NEW at \in Times, sessions' = WithNewSession(table, at),
         NEW s \in Stores, \A i \in DOMAIN s.activities : s.activities[i].session <= Len(sessions),
         \A i \in DOMAIN s.applications : s.applications[i].session <= Len(sessions),
         s.memory.session = Len(sessions'), NEW r, StoreKept(s, r), SetStore(r)
  PROVE  StoreInv'
<1>1. sessions \in Seq(Sessions) /\ Len(sessions) \in Nat /\ MaxSessions \in Nat
  BY LenProperties, ActivityAssumption DEF StoreInv
<1>2. /\ sessions' \in Seq(Sessions) /\ Len(sessions') = Len(sessions) + 1
      /\ \A i \in 1..Len(sessions') : sessions'[i].open => i = Len(sessions')
  BY NewSessionOpen
<1>3. OneOpenSession'
  BY <1>2, LenProperties DEF OneOpenSession
<1> QED BY <1>1, <1>2, <1>3, StoreWritten

\* A start keeps the store's part.
LEMMA StoreRun ==
  ASSUME TimeInv, StoreInv, Run
  PROVE  /\ StoreInv' /\ Len(sessions') = Len(sessions) + 1
         /\ TableKept(activities, activities', Len(sessions'))
         /\ TableKept(applications, applications', Len(sessions'))
<1> DEFINE m == FreshMemory(sessions')
           s == [Store EXCEPT !.memory = m]
<1>1. /\ sessions' = WithNewSession(sessions, clock) /\ Len(sessions) < MaxSessions /\ up'
      /\ SampleFrom(s, Never, Now)
      /\ Len(activities) + 2 <= MaxSegments /\ Len(applications) + 1 <= MaxSegments
  BY DEF Run, Room
<1>2. /\ sessions \in Seq(Sessions) /\ clock \in Times
      /\ activities \in Seq(Segments) /\ applications \in Seq(Segments)
      /\ MaxSessions \in Nat /\ Len(sessions) \in Nat
  BY ActivityAssumption, LenProperties DEF TimeInv, StoreInv
<1>3. Len(sessions') = Len(sessions) + 1 /\ Len(sessions') \in 1..MaxSessions
  BY <1>1, <1>2, NewSessionOpen
<1>4. m = [NoMemory EXCEPT !.session = Len(sessions')]
  BY DEF FreshMemory
<1> HIDE DEF m
<1>5. /\ m.session = Len(sessions')
      /\ s = [activities |-> activities, applications |-> applications, memory |-> m]
      /\ s \in Stores /\ MemoryInv(s)
  BY <1>2, <1>3, <1>4, FreshStore, FreshIs
<1> HIDE DEF s
<1>6. s.activities = activities /\ s.applications = applications /\ s.memory = m
  BY <1>5
<1>7. PICK state \in Observed, f \in Failures, g \in Failures :
        SetStore(RecordObservation(SleepOf(s, LongGap(Never, Now), Never.wall + 1, f), state, Now.wall, g))
  BY <1>1, SampleFromIs
<1>8. ~LongGap(Never, Now) /\ Now.wall \in Times
  BY <1>2 DEF LongGap, Now
<1> DEFINE r == RecordObservation(SleepOf(s, LongGap(Never, Now), Never.wall + 1, f), state, Now.wall, g)
<1>9. StoreKept(s, r)
  BY <1>1, <1>3, <1>5, <1>6, <1>8, SampledKeeps
<1>10. SetStore(r)
  BY <1>7
<1> HIDE DEF r
<1>11. /\ \A i \in DOMAIN s.activities : s.activities[i].session <= Len(sessions)
       /\ \A i \in DOMAIN s.applications : s.applications[i].session <= Len(sessions)
  BY <1>6, StoreInvFacts
<1>12. StoreInv'
  BY <1>1, <1>2, <1>3, <1>5, <1>6, <1>9, <1>10, <1>11, SessionStarted
<1>13. /\ TableKept(activities, activities', Len(sessions'))
       /\ TableKept(applications, applications', Len(sessions'))
  BY <1>5, <1>6, <1>9, <1>10 DEF StoreKept, SetStore
<1> QED BY <1>3, <1>12, <1>13

\* A sample keeps the store's part.
LEMMA StoreSample ==
  ASSUME TimeInv, StoreInv, Sample
  PROVE  StoreInv' /\ StoreKept(Store, Store')
<1>1. /\ up /\ up' /\ sessions' = sessions /\ sampleTick # Never
      /\ SampleFrom(Store, lastSample, sampleTick)
      /\ Len(activities) + 2 <= MaxSegments /\ Len(applications) + 1 <= MaxSegments
  BY DEF Sample, Room
<1> DEFINE slept == LongGap(lastSample, sampleTick)
<1>2. PICK state \in Observed, f \in Failures, g \in Failures :
        SetStore(RecordObservation(SleepOf(Store, slept, lastSample.wall + 1, f), state, sampleTick.wall, g))
  BY <1>1, SampleFromIs
<1>3. slept => lastSample.wall + 1 \in Times
  BY <1>1, SleepBeforeSample
<1>4. sampleTick.wall \in Times
  <2>1. sampleTick.wall \in 0..clock /\ clock \in 0..MaxTime
    BY <1>1 DEF TimeInv, ClockInv, Times
  <2> QED BY <2>1, ActivityAssumption DEF Times
<1> HIDE DEF slept
<1> DEFINE r == RecordObservation(SleepOf(Store, slept, lastSample.wall + 1, f), state, sampleTick.wall, g)
<1>5. /\ Store \in Stores /\ MemoryInv(Store) /\ memory.session \in 1..MaxSessions
      /\ Store.activities = activities /\ Store.applications = applications /\ Store.memory = memory
  BY <1>1, StoreInvFacts
<1>6. StoreKept(Store, r)
  BY <1>1, <1>3, <1>4, <1>5, SampledKeeps
<1>7. SetStore(r)
  BY <1>2
<1> HIDE DEF r
<1>8. Store' = r
  BY <1>6, <1>7, SetStoreIs DEF StoreKept
<1> QED BY <1>1, <1>6, <1>7, <1>8, SessionWritten

\* A summary, made or failed, touches no row of another session.
LEMMA SummaryStoreKeeps ==
  ASSUME NEW result \in SummaryResults, NEW at \in Times, StoreInv
  PROVE  StoreKept(Store, SummaryStore(at, result)) /\ SummaryStore(at, result).memory = memory
<1>1. Store \in Stores /\ MemoryInv(Store) /\ Store.memory = memory
  BY StoreInvFacts
<1> QED BY <1>1, StoreKeptItself, ExtendKeeps DEF SummaryStore

\* A summary keeps the store's part.
LEMMA StorePrepare ==
  ASSUME TimeInv, StoreInv, NEW result \in SummaryResults, PrepareDailySummary(result)
  PROVE  StoreInv' /\ StoreKept(Store, Store')
<1>1. summaryTick.wall \in Times
  <2>1. summaryTick.wall \in 0..clock /\ clock \in 0..MaxTime
    BY DEF TimeInv, ClockInv, Times, PrepareDailySummary
  <2> QED BY <2>1, ActivityAssumption DEF Times
<1> DEFINE r == SummaryStore(summaryTick.wall, result)
<1>2. StoreKept(Store, r)
  BY <1>1, SummaryStoreKeeps
<1>3. SetStore(r) /\ up /\ up' /\ sessions' = sessions
  BY DEF PrepareDailySummary
<1> HIDE DEF r
<1>4. Store' = r
  BY <1>2, <1>3, SetStoreIs DEF StoreKept
<1> QED BY <1>2, <1>3, <1>4, SessionWritten

\* A logout, which ends the session and starts the next, keeps the store's part.
LEMMA StoreLogout ==
  ASSUME TimeInv, StoreInv, NEW result \in SummaryResults, Logout(result)
  PROVE  /\ StoreInv'
         /\ TableKept(activities, activities', memory.session)
         /\ TableKept(applications, applications', memory.session)
<1> DEFINE r == SummaryStore(clock, result)
           closed == Finalized(sessions, memory.session, clock)
<1>1. /\ up /\ up' /\ Len(sessions) < MaxSessions
      /\ clock \in Times /\ memory.session \in 1..Len(sessions) /\ sessions \in Seq(Sessions)
      /\ Len(sessions) \in Nat /\ MaxSessions \in Nat
      /\ Store.activities = activities /\ Store.applications = applications /\ Store.memory = memory
      /\ Store \in Stores
  BY StoreInvFacts, ActivityAssumption DEF Logout, TimeInv, StoreInv
<1>2. /\ r \in Stores /\ MemoryInv(r) /\ StoreKept(Store, r)
      /\ TableKept(activities, r.activities, memory.session)
      /\ TableKept(applications, r.applications, memory.session)
  BY <1>1, SummaryStoreKeeps DEF StoreKept
<1>3. closed \in Seq(Sessions) /\ Len(closed) = Len(sessions)
  BY <1>1, FinalizedClosed
<1>4. CASE SetStore(r) /\ (sessions' = sessions \/ sessions' = closed)
  BY <1>1, <1>2, <1>4, SessionWritten DEF SetStore
<1>5. CASE /\ sessions' = WithNewSession(closed, clock)
           /\ SetStore([r EXCEPT !.memory = FreshMemory(sessions')])
  <2> DEFINE m == FreshMemory(sessions')
             q == [r EXCEPT !.memory = m]
  <2>1. Len(sessions') = Len(sessions) + 1 /\ Len(sessions') \in 1..MaxSessions
    BY <1>1, <1>3, <1>5, NewSessionOpen
  <2>2. m = [NoMemory EXCEPT !.session = Len(sessions')]
    BY DEF FreshMemory
  <2> HIDE DEF m
  <2>3. m \in Memories /\ m.activity = 0 /\ m.application = 0 /\ m.session = Len(sessions')
    BY <2>1, <2>2, FreshIs DEF None
  <2> HIDE DEF r
  <2>4. q = [activities |-> r.activities, applications |-> r.applications, memory |-> m]
    BY <1>2 DEF Stores
  <2>5. q \in Stores
    BY <1>2, <2>3, <2>4, StoreFields DEF Stores
  <2> HIDE DEF q
  <2>6. q.activities = r.activities /\ q.applications = r.applications /\ q.memory = m
    BY <2>4
  <2>8. Len(q.activities) \in Nat /\ Len(q.applications) \in Nat
    BY <2>5, StoreFields, LenProperties
  <2>9. MemoryInv(q)
    BY <2>3, <2>6, <2>8 DEF MemoryInv
  <2>10. StoreKept(q, q)
    BY <2>5, <2>9, StoreKeptItself
  <2>11. SetStore(q)
    BY <1>5 DEF q, m
  <2>13. /\ \A i \in DOMAIN q.activities : q.activities[i].session <= Len(sessions)
         /\ \A i \in DOMAIN q.applications : q.applications[i].session <= Len(sessions)
    <3>1. /\ \A i \in DOMAIN activities : activities[i].session <= Len(sessions)
          /\ \A i \in DOMAIN applications : applications[i].session <= Len(sessions)
          /\ activities \in Seq(Segments) /\ applications \in Seq(Segments)
      BY StoreInvFacts DEF StoreInv
    <3>2. memory.session \in Int /\ memory.session <= Len(sessions) /\ Len(sessions) \in Int
      BY <1>1
    <3> QED BY <1>2, <2>6, <3>1, <3>2, KeptSessions
  <2>14. StoreInv'
    BY <1>1, <1>3, <1>5, <2>3, <2>5, <2>6, <2>10, <2>11, <2>13, SessionStarted
  <2> QED BY <1>2, <2>6, <2>11, <2>14 DEF SetStore
<1> QED BY <1>4, <1>5 DEF Logout

\* The end of a process forgets its memory.
LEMMA StoreEnds ==
  ASSUME TimeInv, StoreInv, NEW result \in SummaryResults, Shutdown(result)
  PROVE  /\ StoreInv'
         /\ TableKept(activities, activities', memory.session)
         /\ TableKept(applications, applications', memory.session)
<1> DEFINE r == SummaryStore(clock, result)
           closed == Finalized(sessions, memory.session, clock)
<1>1. /\ up /\ ~up' /\ memory' = NoMemory
      /\ clock \in Times /\ memory.session \in 1..Len(sessions) /\ sessions \in Seq(Sessions)
      /\ Len(sessions) \in Nat /\ MaxSessions \in Nat /\ Len(sessions) <= MaxSessions /\ OneOpenSession
      /\ activities \in Seq(Segments) /\ applications \in Seq(Segments)
      /\ Store.activities = activities /\ Store.applications = applications /\ Store.memory = memory
      /\ memory.session \in Int /\ memory.session <= Len(sessions)
      /\ activities' = r.activities /\ applications' = r.applications
      /\ sessions' = closed \/ sessions' = sessions
  BY StoreInvFacts, ActivityAssumption DEF Shutdown, EndProcess, TimeInv, StoreInv, SessionInv
<1>2. /\ r \in Stores
      /\ TableKept(activities, r.activities, memory.session)
      /\ TableKept(applications, r.applications, memory.session)
  BY <1>1, SummaryStoreKeeps DEF StoreKept
<1> HIDE DEF r
<1>3. /\ sessions' \in Seq(Sessions) /\ Len(sessions') = Len(sessions)
      /\ \A i \in 1..Len(sessions) : sessions'[i].open => sessions[i].open
  BY <1>1, FinalizedClosed
<1>4. OneOpenSession'
  BY <1>1, <1>3, LenProperties DEF OneOpenSession
<1>5. activities' \in Seq(Segments) /\ applications' \in Seq(Segments)
  BY <1>1, <1>2, StoreFields
<1>6. \A i \in DOMAIN activities' : activities'[i].session <= Len(sessions')
  <2>1. \A i \in DOMAIN activities : activities[i].session <= Len(sessions)
    BY StoreInvFacts
  <2>2. \A i \in DOMAIN r.activities : r.activities[i].session <= Len(sessions)
    BY <1>1, <1>2, <2>1, KeptSessions
  <2> QED BY <1>1, <1>3, <2>2
<1>7. \A i \in DOMAIN applications' : applications'[i].session <= Len(sessions')
  <2>1. \A i \in DOMAIN applications : applications[i].session <= Len(sessions)
    BY StoreInvFacts
  <2>2. \A i \in DOMAIN r.applications : r.applications[i].session <= Len(sessions)
    BY <1>1, <1>2, <2>1, KeptSessions
  <2> QED BY <1>1, <1>3, <2>2
<1>8. SessionInv'
  BY <1>1, <1>3, <1>4, <1>6, <1>7 DEF SessionInv
<1>9. NoMemory \in Memories /\ NoMemory.activity = 0 /\ NoMemory.application = 0
  BY NoMemoryIs
<1>10. MemoryInv(Store)'
  BY <1>1, <1>5, <1>9, LenProperties DEF MemoryInv, Store
<1> QED BY <1>1, <1>2, <1>3, <1>5, <1>8, <1>9, <1>10 DEF StoreInv

\* A crash keeps the store's part: what was committed stays.
LEMMA StoreCrash ==
  ASSUME StoreInv, Crash
  PROVE  StoreInv'
<1>1. UNCHANGED <<sessions, activities, applications>> /\ memory' = NoMemory /\ ~up'
  BY DEF Crash, EndProcess
<1>2. NoMemory \in Memories /\ NoMemory.activity = 0 /\ NoMemory.application = 0
  BY NoMemoryIs
<1>3. SessionInv'
  BY <1>1 DEF StoreInv, SessionInv, OneOpenSession
<1>4. MemoryInv(Store)'
  BY <1>1, <1>2, LenProperties DEF MemoryInv, Store, StoreInv
<1> QED BY <1>1, <1>2, <1>3, <1>4 DEF StoreInv

\* The steps that write nothing keep the store's part.
LEMMA StoreUnchanged ==
  ASSUME StoreInv, UNCHANGED <<up, sessions, activities, applications, memory>>
  PROVE  StoreInv'
  BY DEF StoreInv, SessionInv, OneOpenSession, MemoryInv, Store

\* The tables are empty when the system starts.
LEMMA StoreStart == Init => StoreInv
<1> SUFFICES ASSUME Init PROVE StoreInv
  OBVIOUS
<1>1. NoMemory \in Memories /\ NoMemory.activity = 0 /\ NoMemory.application = 0
  BY NoMemoryIs
<1>2. /\ sessions = <<>> /\ activities = <<>> /\ applications = <<>> /\ memory = NoMemory /\ ~up
  BY DEF Init
<1>3. \A S : <<>> \in Seq(S) /\ Len(<<>>) = 0 /\ DOMAIN <<>> = {}
  BY EmptySeq
<1>4. SessionInv
  BY <1>2, <1>3, ActivityAssumption DEF SessionInv, OneOpenSession
<1>5. MemoryInv(Store)
  BY <1>1, <1>2, <1>3 DEF MemoryInv, Store
<1> QED BY <1>1, <1>2, <1>3, <1>4, <1>5 DEF StoreInv

\* Every step keeps the store's part of the invariant.
LEMMA StoreStep ==
  ASSUME TimeInv, StoreInv, [Next]_vars
  PROVE  StoreInv'
<1>1. CASE Tick
  BY <1>1, StoreUnchanged DEF Tick
<1>2. CASE \E n \in 1..SleepGap + 1 : Suspend(n)
  BY <1>2, StoreUnchanged DEF Suspend
<1>3. CASE Run
  BY <1>3, StoreRun
<1>4. CASE Sample
  BY <1>4, StoreSample
<1>5. CASE Crash
  BY <1>5, StoreCrash
<1>6. CASE \E result \in SummaryResults : PrepareDailySummary(result)
  BY <1>6, StorePrepare
<1>7. CASE \E result \in SummaryResults : Logout(result)
  BY <1>7, StoreLogout
<1>8. CASE \E result \in SummaryResults : Shutdown(result)
  BY <1>8, StoreEnds
<1>9. CASE UNCHANGED vars
  BY <1>9, StoreUnchanged
<1> QED BY <1>1, <1>2, <1>3, <1>4, <1>5, <1>6, <1>7, <1>8, <1>9 DEF Next

\* Only rows of the session the process holds are written.
LEMMA TablesFrozen ==
  ASSUME TimeInv, StoreInv, [Next]_vars
  PROVE  \A table \in {<<activities, activities'>>, <<applications, applications'>>} :
           \A i \in DOMAIN table[1] :
             table[1][i].session # memory.session => table[2][i] = table[1][i]
<1> DEFINE Frozen == /\ \A i \in DOMAIN activities :
                          activities[i].session # memory.session => activities'[i] = activities[i]
                     /\ \A i \in DOMAIN applications :
                          applications[i].session # memory.session => applications'[i] = applications[i]
<1>1. SUFFICES Frozen
  OBVIOUS
<1>2. /\ DOMAIN activities = 1..Len(activities) /\ DOMAIN applications = 1..Len(applications)
      /\ Store.activities = activities /\ Store.applications = applications /\ Store.memory = memory
  BY LenProperties, StoreIs DEF StoreInv
<1>3. CASE UNCHANGED <<activities, applications>>
  BY <1>3
<1>4. CASE StoreKept(Store, Store')
  BY <1>2, <1>4 DEF StoreKept, TableKept, Store
<1>5. CASE /\ TableKept(activities, activities', memory.session)
           /\ TableKept(applications, applications', memory.session)
  BY <1>2, <1>5 DEF TableKept
<1>6. CASE Run
  <2>1. /\ Len(sessions') = Len(sessions) + 1 /\ Len(sessions) \in Nat
        /\ TableKept(activities, activities', Len(sessions'))
        /\ TableKept(applications, applications', Len(sessions'))
    BY <1>6, StoreRun, StoreInvFacts
  <2>2. /\ \A i \in DOMAIN activities : activities[i].session <= Len(sessions)
        /\ \A i \in DOMAIN applications : applications[i].session <= Len(sessions)
    BY StoreInvFacts
  <2>3. /\ \A i \in DOMAIN activities : activities[i].session # Len(sessions')
        /\ \A i \in DOMAIN applications : applications[i].session # Len(sessions')
    BY <2>1, <2>2
  <2> QED BY <1>2, <2>1, <2>3 DEF TableKept
<1>7. CASE Sample
  BY <1>4, <1>7, StoreSample
<1>8. CASE \E result \in SummaryResults : PrepareDailySummary(result)
  BY <1>4, <1>8, StorePrepare
<1>9. CASE \E result \in SummaryResults : Logout(result)
  BY <1>5, <1>9, StoreLogout
<1>10. CASE \E result \in SummaryResults : Shutdown(result)
  BY <1>5, <1>10, StoreEnds
<1> QED BY <1>3, <1>6, <1>7, <1>8, <1>9, <1>10 DEF Next, Tick, Suspend, Crash

\* The number of failed transactions of a sample.
LEMMA FailureCount ==
  ASSUME NEW f, NEW g
  PROVE  LET failed == {x \in {<<1, f>>, <<2, g>>} : x[2] # "none"}
         IN  /\ Cardinality(failed) \in Nat
             /\ Cardinality(failed) = 0 => f = "none" /\ g = "none"
<1> DEFINE all == {<<1, f>>, <<2, g>>}
           failed == {x \in all : x[2] # "none"}
<1>1. IsFiniteSet(all)
  <2>1. IsFiniteSet({<<1, f>>})
    BY FS_Singleton
  <2>2. all = {<<1, f>>} \cup {<<2, g>>}
    OBVIOUS
  <2> QED BY <2>1, <2>2, FS_AddElement
<1>2. failed \in SUBSET all
  OBVIOUS
<1>3. failed = {} => f = "none" /\ g = "none"
  <2>1. f # "none" => <<1, f>> \in failed
    OBVIOUS
  <2>2. g # "none" => <<2, g>> \in failed
    OBVIOUS
  <2> QED BY <2>1, <2>2
<1> HIDE DEF all, failed
<1>4. IsFiniteSet(failed)
  BY <1>1, <1>2, FS_Subset
<1>5. Cardinality(failed) \in Nat /\ (Cardinality(failed) = 0 <=> failed = {})
  BY <1>4, FS_CardinalityType, FS_EmptySet
<1> QED BY <1>3, <1>5 DEF failed, all

\* failures stays within its bound.
LEMMA FailuresStep ==
  ASSUME failures \in 0..MaxFailures, [Next]_vars
  PROVE  failures' \in 0..MaxFailures /\ failures <= failures'
<1>1. ASSUME NEW n \in Nat, Fails(n)
      PROVE  failures' \in 0..MaxFailures /\ failures <= failures'
  BY <1>1, ActivityAssumption DEF Fails
<1>3. ASSUME NEW s, NEW last, NEW t, SampleFrom(s, last, t)
      PROVE  failures' \in 0..MaxFailures /\ failures <= failures'
  <2>1. PICK f, g : Fails(Cardinality({x \in {<<1, f>>, <<2, g>>} : x[2] # "none"}))
    BY <1>3, SampleFromIs
  <2>2. Cardinality({x \in {<<1, f>>, <<2, g>>} : x[2] # "none"}) \in Nat
    BY FailureCount
  <2> QED BY <1>1, <2>1, <2>2
<1>4. \A result \in SummaryResults : SummaryFailures(result) \in Nat /\ SummaryFailures(result) + 1 \in Nat
  BY DEF SummaryFailures
<1>5. CASE Run \/ Sample
  BY <1>3, <1>5 DEF Run, Sample
<1>6. ASSUME NEW result \in SummaryResults, PrepareDailySummary(result) \/ Logout(result) \/ Shutdown(result)
      PROVE  failures' \in 0..MaxFailures /\ failures <= failures'
  <2>1. CASE failures' = failures
    BY <2>1
  <2>2. CASE \E n \in Nat : Fails(n)
    BY <1>1, <2>2
  <2>3. 1 \in Nat
    OBVIOUS
  <2> QED BY <1>4, <1>6, <2>1, <2>2, <2>3 DEF PrepareDailySummary, Logout, Shutdown
<1>7. CASE failures' = failures
  BY <1>7
<1> QED BY <1>5, <1>6, <1>7 DEF Next, Tick, Suspend, Crash

-----------------------------------------------------------------------------
\* The steps, as long as no transaction fails.

FailuresInv == failures \in 0..MaxFailures

CleanState ==
  failures = 0 => CleanInv(Store, lastSample.wall) /\ WitnessInv(Store, lastSample.wall, samples)

\* A sample ends in the open segment.
SampledState == failures = 0 => EndsAt(Store, lastSample.wall) /\ memory.activity # None

\* A sample none of whose statements failed.
LEMMA SampleFromClean ==
  ASSUME NEW s, NEW last, NEW t, SampleFrom(s, last, t), FailuresInv, failures' = 0
  PROVE  /\ failures = 0
         /\ \E state \in Observed :
              SetStore(RecordObservation(SleepOf(s, LongGap(last, t), last.wall + 1, "none"),
                                         state, t.wall, "none"))
<1>1. PICK state \in Observed, f \in Failures, g \in Failures :
        /\ Fails(Cardinality({x \in {<<1, f>>, <<2, g>>} : x[2] # "none"}))
        /\ SetStore(RecordObservation(SleepOf(s, LongGap(last, t), last.wall + 1, f), state, t.wall, g))
  BY SampleFromIs
<1> DEFINE n == Cardinality({x \in {<<1, f>>, <<2, g>>} : x[2] # "none"})
<1>2. n \in Nat /\ (n = 0 => f = "none" /\ g = "none")
  BY FailureCount
<1>3. failures' = failures + n
  BY <1>1 DEF Fails
<1> HIDE DEF n
<1>4. n = 0 /\ failures = 0
  BY <1>2, <1>3, ActivityAssumption DEF FailuresInv
<1>5. f = "none" /\ g = "none"
  BY <1>2, <1>4
<1> QED BY <1>1, <1>4, <1>5

\* A sample keeps a clean history clean.
LEMMA CleanSample ==
  ASSUME TimeInv, StoreInv, FailuresInv, CleanState, Sample
  PROVE  CleanState' /\ SampledState'
<1>1. SUFFICES ASSUME failures' = 0
               PROVE  /\ CleanInv(Store', lastSample'.wall)
                      /\ WitnessInv(Store', lastSample'.wall, samples')
                      /\ EndsAt(Store', lastSample'.wall) /\ Store'.memory.activity # None
  BY DEF CleanState, SampledState, Store
<1>2. /\ up /\ sampleTick # Never
      /\ SampleFrom(Store, lastSample, sampleTick)
      /\ Len(activities) + 2 <= MaxSegments /\ Len(applications) + 1 <= MaxSegments
      /\ lastSample' = sampleTick /\ samples' = samples \cup {sampleTick}
  BY DEF Sample, SampleFrom, Room
<1> DEFINE slept == LongGap(lastSample, sampleTick)
           last == lastSample.wall
           at == sampleTick.wall
<1>3. failures = 0
  BY <1>1, <1>2, SampleFromClean
<1>4. PICK state \in Observed :
        SetStore(RecordObservation(SleepOf(Store, slept, last + 1, "none"), state, at, "none"))
  BY <1>1, <1>2, SampleFromClean
<1>5. slept => last + 1 \in Times /\ last + 1 < at
  BY <1>2, SleepBeforeSample
<1>6. /\ at \in 0..clock /\ clock \in 0..MaxTime /\ last \in 0..clock /\ last < at
      /\ lastSample # Never /\ MaxTime \in Nat
  BY <1>2, ActivityAssumption DEF TimeInv, ClockInv, Times
<1>7. at \in Times /\ at \in Int /\ last \in Int /\ last <= at /\ (slept => last + 1 <= at)
  BY <1>5, <1>6 DEF Times
<1> DEFINE more == samples \cup {sampleTick}
<1>8. ~slept => \A t \in last..at - 1 : Near(more, t)
  <2>1. lastSample \in more /\ sampleTick \in more
    BY <1>2 DEF TimeInv, ClockInv
  <2>2. Elapsed(lastSample, sampleTick) \in Int
    BY InstantFields DEF TimeInv, Elapsed
  <2>3. ~slept => Elapsed(lastSample, sampleTick) <= SleepGap
    BY <1>6, <2>2, ActivityAssumption DEF LongGap
  <2> HIDE DEF more, slept
  <2>4. ASSUME ~slept, NEW t \in last..at - 1
        PROVE  Near(more, t)
    <3>1. lastSample.wall <= t /\ t < sampleTick.wall
      BY <1>7, <2>4
    <3> QED BY <2>1, <2>3, <2>4, <3>1 DEF Near
  <2> QED BY <2>4
<1> HIDE DEF slept, last, at, more
<1> DEFINE r == RecordObservation(SleepOf(Store, slept, last + 1, "none"), state, at, "none")
<1>9. /\ Store \in Stores /\ MemoryInv(Store) /\ Store.memory.session \in 1..MaxSessions
      /\ Len(Store.activities) + 2 <= MaxSegments /\ Len(Store.applications) + 1 <= MaxSegments
  BY <1>2, StoreInvFacts
<1>10. CleanInv(Store, last)
  BY <1>3 DEF CleanState, last
<1>11. /\ CleanInv(r, at) /\ EndsAt(r, at) /\ r.memory.activity # None
       /\ \A seen, any :
            /\ seen \subseteq any /\ WitnessInv(Store, last, seen)
            /\ ~slept /\ Store.memory.state = "active" => \A t \in last..at - 1 : Near(any, t)
            => WitnessInv(r, at, any)
  BY <1>5, <1>7, <1>9, <1>10, SampledClean
<1>12. r \in Stores
  <2>1. "none" \in Failures
    BY DEF Failures
  <2>2. StoreKept(Store, r)
    BY <1>5, <1>7, <1>9, <2>1, SampledKeeps
  <2> QED BY <2>2 DEF StoreKept
<1>13. Store' = r
  BY <1>4, <1>12, SetStoreIs
<1>14. WitnessInv(r, at, more)
  <2>1. WitnessInv(Store, last, samples) /\ samples \subseteq more
    BY <1>3 DEF CleanState, last, more
  <2> HIDE DEF r
  <2> QED BY <1>8, <1>11, <2>1
<1> HIDE DEF r
<1>15. lastSample'.wall = at /\ samples' = more
  BY <1>2 DEF at, more
<1> QED BY <1>11, <1>13, <1>14, <1>15

\* A start keeps a clean history clean: its session has no row yet.
LEMMA CleanRun ==
  ASSUME TimeInv, StoreInv, FailuresInv, CleanState, Run
  PROVE  CleanState' /\ SampledState'
<1>1. SUFFICES ASSUME failures' = 0
               PROVE  /\ CleanInv(Store', lastSample'.wall)
                      /\ WitnessInv(Store', lastSample'.wall, samples')
                      /\ EndsAt(Store', lastSample'.wall) /\ Store'.memory.activity # None
  BY DEF CleanState, SampledState, Store
<1> DEFINE m == FreshMemory(sessions')
           s == [Store EXCEPT !.memory = m]
<1>2. /\ sessions' = WithNewSession(sessions, clock) /\ Len(sessions) < MaxSessions
      /\ SampleFrom(s, Never, Now)
      /\ Len(activities) + 2 <= MaxSegments /\ Len(applications) + 1 <= MaxSegments
      /\ lastSample' = Now /\ samples' = samples \cup {Now}
  BY DEF Run, SampleFrom, Room
<1>3. /\ sessions \in Seq(Sessions) /\ clock \in Times /\ clock \in 0..MaxTime
      /\ activities \in Seq(Segments) /\ applications \in Seq(Segments)
      /\ MaxSessions \in Nat /\ Len(sessions) \in Nat /\ MaxTime \in Nat
  BY ActivityAssumption, LenProperties DEF TimeInv, StoreInv, Times
<1>4. Len(sessions') = Len(sessions) + 1 /\ Len(sessions') \in 1..MaxSessions
  BY <1>2, <1>3, NewSessionOpen
<1>5. m = [NoMemory EXCEPT !.session = Len(sessions')]
  BY DEF FreshMemory
<1> HIDE DEF m
<1>6. /\ m \in Memories /\ m.session = Len(sessions') /\ m.activity = None /\ m.application = None
      /\ m.state = "none"
  BY <1>4, <1>5, FreshIs
<1>7. /\ s = [activities |-> activities, applications |-> applications, memory |-> m]
      /\ s \in Stores /\ MemoryInv(s)
  BY <1>3, <1>4, <1>5, FreshStore
<1> HIDE DEF s
<1>8. s.activities = activities /\ s.applications = applications /\ s.memory = m
  BY <1>7
<1>9. failures = 0
  BY <1>1, <1>2, SampleFromClean
<1> DEFINE slept == LongGap(Never, Now)
           last == Never.wall
           at == Now.wall
<1>10. PICK state \in Observed :
        SetStore(RecordObservation(SleepOf(s, slept, last + 1, "none"), state, at, "none"))
  BY <1>1, <1>2, SampleFromClean
<1>11. ~slept /\ at \in Times /\ last \in Int /\ last <= at
  BY <1>3, NeverIs DEF LongGap, Now
<1>12. CleanInv(s, last) /\ WitnessInv(s, last, samples)
  <2>1. /\ Store \in Stores /\ CleanInv(Store, lastSample.wall)
        /\ Store.activities = activities /\ Store.applications = applications
    BY <1>9, StoreInvFacts DEF CleanState
  <2>2. \A i \in DOMAIN activities : activities[i].session # m.session
    <3>1. \A i \in DOMAIN activities : activities[i].session <= Len(sessions)
      BY StoreInvFacts
    <3> QED BY <1>3, <1>4, <1>6, <3>1
  <2>3. m.state # "active"
    BY <1>6
  <2> HIDE DEF last
  <2> QED BY <1>6, <1>8, <2>1, <2>2, <2>3, FreshClean
<1> HIDE DEF slept, last, at
<1> DEFINE r == RecordObservation(SleepOf(s, slept, last + 1, "none"), state, at, "none")
<1>13. /\ s.memory.session \in 1..MaxSessions /\ s.memory.state # "active"
       /\ Len(s.activities) + 2 <= MaxSegments /\ Len(s.applications) + 1 <= MaxSegments
  BY <1>2, <1>4, <1>6, <1>8
<1>14. /\ CleanInv(r, at) /\ EndsAt(r, at) /\ r.memory.activity # None
       /\ \A seen, more :
            /\ seen \subseteq more /\ WitnessInv(s, last, seen)
            /\ ~slept /\ s.memory.state = "active" => \A t \in last..at - 1 : Near(more, t)
            => WitnessInv(r, at, more)
  BY <1>7, <1>11, <1>12, <1>13, SampledClean
<1>15. r \in Stores
  <2>1. "none" \in Failures
    BY DEF Failures
  <2>2. StoreKept(s, r)
    BY <1>7, <1>11, <1>13, <2>1, SampledKeeps
  <2> QED BY <2>2 DEF StoreKept
<1>16. Store' = r
  BY <1>10, <1>15, SetStoreIs
<1> HIDE DEF r
<1>17. WitnessInv(r, at, samples')
  <2>1. samples \subseteq samples'
    BY <1>2
  <2> QED BY <1>12, <1>13, <1>14, <2>1
<1>18. lastSample'.wall = at
  BY <1>2 DEF at
<1> QED BY <1>14, <1>16, <1>17, <1>18

\* A summary keeps a clean history clean.
LEMMA CleanSummary ==
  ASSUME StoreInv, NEW result \in SummaryResults, NEW at \in Times, NEW b, CleanInv(Store, b)
  PROVE  LET r == SummaryStore(at, result)
         IN  /\ r \in Stores /\ CleanInv(r, b)
             /\ \A last, seen : WitnessInv(Store, last, seen) => WitnessInv(r, last, seen)
<1>1. Store \in Stores /\ MemoryInv(Store)
  BY StoreInvFacts
<1>2. Extend(Store, at) \in Stores /\ CleanInv(Extend(Store, at), b)
  BY <1>1, CleanExtend, ExtendKeeps DEF StoreKept
<1>3. \A last, seen : WitnessInv(Store, last, seen) => WitnessInv(Extend(Store, at), last, seen)
  BY <1>1, WitnessExtend
<1> QED BY <1>1, <1>2, <1>3 DEF SummaryStore

\* A summary, as an action, keeps a clean history clean.
LEMMA CleanPrepare ==
  ASSUME TimeInv, StoreInv, FailuresInv, CleanState, failures' # 0 \/ failures = 0,
         NEW result \in SummaryResults, PrepareDailySummary(result)
  PROVE  CleanState'
<1>1. SUFFICES ASSUME failures' = 0
               PROVE  /\ CleanInv(Store', lastSample.wall)
                      /\ WitnessInv(Store', lastSample.wall, samples)
  BY DEF CleanState, PrepareDailySummary
<1> DEFINE r == SummaryStore(summaryTick.wall, result)
<1>2. summaryTick.wall \in Times
  <2>1. summaryTick.wall \in 0..clock /\ clock \in 0..MaxTime
    BY DEF TimeInv, ClockInv, Times, PrepareDailySummary
  <2> QED BY <2>1, ActivityAssumption DEF Times
<1>3. /\ CleanInv(Store, lastSample.wall)
      /\ WitnessInv(Store, lastSample.wall, samples)
  BY <1>1 DEF CleanState
<1>4. /\ r \in Stores /\ CleanInv(r, lastSample.wall)
      /\ WitnessInv(r, lastSample.wall, samples)
  BY <1>2, <1>3, CleanSummary
<1>5. SetStore(r)
  BY DEF PrepareDailySummary
<1> HIDE DEF r
<1>6. Store' = r
  BY <1>4, <1>5, SetStoreIs
<1> QED BY <1>4, <1>6

\* Where the memory of the store is forgotten, in the next session or at the end.
LEMMA CleanForgets ==
  ASSUME NEW r \in Stores, NEW c, CleanInv(r, c),
         activities' = r.activities, applications' = r.applications,
         memory' \in Memories, memory'.activity = None, memory'.application = None,
         memory'.state # "active",
         \A i \in DOMAIN r.activities : r.activities[i].session # memory'.session
  PROVE  CleanState'
<1>1. /\ Store'.activities = r.activities /\ Store'.applications = r.applications
      /\ Store'.memory = memory'
  BY DEF Store
<1> DEFINE q == Store'
           m == memory'
           b == lastSample'.wall
           seen == samples'
<1>2. /\ q.activities = r.activities /\ q.applications = r.applications /\ q.memory = m
      /\ m \in Memories /\ m.activity = None /\ m.application = None /\ m.state # "active"
      /\ \A i \in DOMAIN r.activities : r.activities[i].session # m.session
  BY <1>1
<1> HIDE DEF q, m, b, seen
<1>3. CleanInv(q, b) /\ WitnessInv(q, b, seen)
  BY <1>2, FreshClean
<1> QED BY <1>3 DEF CleanState, q, b, seen

\* A summary leaves no row of a session not yet begun.
LEMMA RowSessions ==
  ASSUME StoreInv, up, NEW result \in SummaryResults, NEW at \in Times
  PROVE  LET r == SummaryStore(at, result)
         IN  \A i \in DOMAIN r.activities : r.activities[i].session \in 1..Len(sessions)
<1> DEFINE r == SummaryStore(at, result)
<1>1. /\ r \in Stores /\ TableKept(activities, r.activities, memory.session)
  BY SummaryStoreKeeps, StoreInvFacts DEF StoreKept
<1>2. /\ memory.session \in Int /\ memory.session <= Len(sessions) /\ Len(sessions) \in Int
      /\ activities \in Seq(Segments) /\ \A i \in DOMAIN activities : activities[i].session <= Len(sessions)
  BY StoreInvFacts DEF StoreInv
<1>3. \A i \in DOMAIN r.activities : r.activities[i].session <= Len(sessions)
  BY <1>1, <1>2, KeptSessions
<1>4. r.activities \in Seq(Segments)
  BY <1>1, StoreFields
<1>5. ASSUME NEW i \in DOMAIN r.activities
      PROVE  r.activities[i].session \in Nat /\ 1 <= r.activities[i].session
  <2>1. r.activities[i] \in Segments
    BY <1>4, <1>5
  <2> QED BY <2>1 DEF Segments
<1> QED BY <1>2, <1>3, <1>5

\* A logout keeps a clean history clean.
LEMMA CleanLogout ==
  ASSUME TimeInv, StoreInv, FailuresInv, CleanState, failures' # 0 \/ failures = 0,
         NEW result \in SummaryResults, Logout(result)
  PROVE  CleanState'
<1>1. CASE failures' # 0
  BY <1>1 DEF CleanState
<1>2. CASE failures' = 0
  <2> DEFINE r == SummaryStore(clock, result)
             closed == Finalized(sessions, memory.session, clock)
  <2>1. /\ up /\ clock \in Times /\ Len(sessions) < MaxSessions
        /\ memory.session \in 1..Len(sessions) /\ sessions \in Seq(Sessions)
        /\ Len(sessions) \in Nat /\ MaxSessions \in Nat
    BY StoreInvFacts, ActivityAssumption DEF Logout, TimeInv, StoreInv
  <2>2. ~Fails(1)
    BY <1>2, ActivityAssumption DEF Fails, FailuresInv
  <2>3. /\ sessions' = WithNewSession(closed, clock)
        /\ SetStore([r EXCEPT !.memory = FreshMemory(sessions')])
    BY <2>2 DEF Logout
  <2>4. r \in Stores /\ CleanInv(r, lastSample.wall)
    BY <1>2, <2>1, CleanSummary DEF CleanState
  <2>5. \A i \in DOMAIN r.activities : r.activities[i].session \in 1..Len(sessions)
    BY <2>1, RowSessions
  <2> DEFINE m == FreshMemory(sessions')
  <2>6. closed \in Seq(Sessions) /\ Len(closed) = Len(sessions)
    BY <2>1, FinalizedClosed
  <2>7. Len(sessions') = Len(sessions) + 1 /\ Len(sessions') \in 1..MaxSessions
    BY <2>1, <2>3, <2>6, NewSessionOpen
  <2>8. m = [NoMemory EXCEPT !.session = Len(sessions')]
    BY DEF FreshMemory
  <2> HIDE DEF m
  <2>9. /\ m \in Memories /\ m.session = Len(sessions') /\ m.activity = None /\ m.application = None
        /\ m.state = "none"
    BY <2>7, <2>8, FreshIs
  <2> HIDE DEF r
  <2>10. [r EXCEPT !.memory = m] = [activities |-> r.activities, applications |-> r.applications,
                                    memory |-> m]
    BY <2>4 DEF Stores
  <2>11. activities' = r.activities /\ applications' = r.applications /\ memory' = m
    BY <2>3, <2>10 DEF SetStore, m
  <2>12. m.state # "active"
    BY <2>9
  <2>13. \A i \in DOMAIN r.activities : r.activities[i].session # m.session
    BY <2>1, <2>5, <2>7, <2>9
  <2> QED BY <2>4, <2>9, <2>11, <2>12, <2>13, CleanForgets
<1> QED BY <1>1, <1>2

\* A process that remembers nothing is not in the active state.
LEMMA NoMemoryState == NoMemory.state # "active"
  BY DEF NoMemory

\* A shutdown keeps a clean history clean.
LEMMA CleanShutdown ==
  ASSUME TimeInv, StoreInv, FailuresInv, CleanState, failures' # 0 \/ failures = 0,
         NEW result \in SummaryResults, Shutdown(result)
  PROVE  CleanState'
<1>1. CASE failures' # 0
  BY <1>1 DEF CleanState
<1>2. CASE failures' = 0
  <2> DEFINE r == SummaryStore(clock, result)
  <2>1. /\ up /\ clock \in Times /\ memory' = NoMemory
        /\ activities' = r.activities /\ applications' = r.applications
        /\ Len(sessions) \in Nat
    BY StoreInvFacts DEF Shutdown, EndProcess, TimeInv
  <2>2. r \in Stores /\ CleanInv(r, lastSample.wall)
    BY <1>2, <2>1, CleanSummary DEF CleanState
  <2>3. \A i \in DOMAIN r.activities : r.activities[i].session \in 1..Len(sessions)
    BY <2>1, RowSessions
  <2> HIDE DEF r
  <2>4. /\ NoMemory \in Memories /\ NoMemory.activity = None /\ NoMemory.application = None
        /\ \A i \in DOMAIN r.activities : r.activities[i].session # NoMemory.session
    BY <2>1, <2>3, NoMemoryIs DEF None
  <2> QED BY <2>1, <2>2, <2>4, NoMemoryState, CleanForgets
<1> QED BY <1>1, <1>2

\* A crash keeps a clean history clean: it writes no row.
LEMMA CleanCrash ==
  ASSUME TimeInv, StoreInv, FailuresInv, CleanState, Crash
  PROVE  CleanState'
<1>1. CASE failures' # 0
  BY <1>1 DEF CleanState
<1>2. CASE failures' = 0
  <2>1. /\ up /\ memory' = NoMemory /\ failures = 0
        /\ activities' = Store.activities /\ applications' = Store.applications
        /\ Len(sessions) \in Nat
    BY <1>2, StoreInvFacts DEF Crash, EndProcess
  <2>2. Store \in Stores /\ CleanInv(Store, lastSample.wall) /\ Store.activities = activities
    BY <2>1, StoreInvFacts DEF CleanState
  <2>3. \A i \in DOMAIN activities : activities[i].session # 0
    <3>1. TAKE i \in DOMAIN activities
    <3>2. activities[i] \in Segments
      BY DEF StoreInv
    <3> QED BY <3>2 DEF Segments
  <2>4. /\ NoMemory \in Memories /\ NoMemory.activity = None /\ NoMemory.application = None
        /\ \A i \in DOMAIN Store.activities : Store.activities[i].session # NoMemory.session
    BY <2>2, <2>3, NoMemoryIs DEF None
  <2> QED BY <2>1, <2>2, <2>4, NoMemoryState, CleanForgets
<1> QED BY <1>1, <1>2

\* The steps that write nothing keep a clean history clean.
LEMMA CleanUnchanged ==
  ASSUME CleanState, UNCHANGED <<lastSample, activities, applications, memory, failures, samples>>
  PROVE  CleanState'
<1>1. Store' = Store
  BY DEF Store
<1> QED BY <1>1 DEF CleanState

\* Every step keeps the history's part of the invariant.
LEMMA CleanStep ==
  ASSUME TimeInv, StoreInv, FailuresInv, CleanState, [Next]_vars
  PROVE  CleanState'
<1>1. failures' # 0 \/ failures = 0
  BY FailuresStep, ActivityAssumption DEF FailuresInv
<1>2. CASE Tick
  BY <1>2, CleanUnchanged DEF Tick
<1>3. CASE \E n \in 1..SleepGap + 1 : Suspend(n)
  BY <1>3, CleanUnchanged DEF Suspend
<1>4. CASE Run
  BY <1>4, CleanRun
<1>5. CASE Sample
  BY <1>5, CleanSample
<1>6. CASE Crash
  BY <1>6, CleanCrash
<1>7. CASE \E result \in SummaryResults : PrepareDailySummary(result)
  BY <1>1, <1>7, CleanPrepare
<1>8. CASE \E result \in SummaryResults : Logout(result)
  BY <1>1, <1>8, CleanLogout
<1>9. CASE \E result \in SummaryResults : Shutdown(result)
  BY <1>1, <1>9, CleanShutdown
<1>10. CASE UNCHANGED vars
  BY <1>10, CleanUnchanged
<1> QED BY <1>2, <1>3, <1>4, <1>5, <1>6, <1>7, <1>8, <1>9, <1>10 DEF Next

\* There is no history when the system starts.
LEMMA CleanStart == Init => CleanState
<1> SUFFICES ASSUME Init PROVE CleanState
  OBVIOUS
<1>1. /\ activities = <<>> /\ applications = <<>> /\ memory = NoMemory
  BY DEF Init
<1>2. DOMAIN <<>> = {}
  BY EmptySeq
<1>3. /\ Store.activities = <<>> /\ Store.applications = <<>> /\ Store.memory = NoMemory
  BY <1>1 DEF Store
<1>4. NoMemory.activity = None /\ NoMemory.application = None
  BY DEF NoMemory
<1>5. OrderInv(Store, lastSample.wall) /\ CoverInv(Store) /\ ForegroundInv(Store)
  BY <1>2, <1>3, <1>4 DEF OrderInv, CoverInv, ForegroundInv
<1>6. WitnessInv(Store, lastSample.wall, samples)
  BY <1>2, <1>3 DEF WitnessInv
<1> QED BY <1>5, <1>6 DEF CleanState, CleanInv

-----------------------------------------------------------------------------
\* The theorems.

\* The invariant in the parts the proofs use.
LEMMA ActivityInvParts ==
  ActivityInv <=> TimeInv /\ StoreInv /\ FailuresInv /\ CleanState
<1>1. TypeOK <=> /\ clock \in Times /\ drift \in Times
                 /\ sampleTick \in Instants /\ summaryTick \in Instants /\ lastSample \in Instants
                 /\ up \in BOOLEAN /\ sessions \in Seq(Sessions)
                 /\ activities \in Seq(Segments) /\ applications \in Seq(Segments)
                 /\ memory \in Memories /\ failures \in 0..MaxFailures /\ samples \in SUBSET Instants
  BY Zenon DEF TypeOK, Times
<1> QED BY <1>1, Zenon DEF ActivityInv, TimeInv, StoreInv, FailuresInv, CleanState

\* The invariant holds when the system starts.
LEMMA ActivityStart == Init => ActivityInv
<1>1. Init => FailuresInv
  BY ActivityAssumption DEF Init, FailuresInv
<1> QED BY <1>1, TimeStart, StoreStart, CleanStart, ActivityInvParts

\* Every step keeps the invariant.
LEMMA ActivityStep == ActivityInv /\ [Next]_vars => ActivityInv'
<1> SUFFICES ASSUME ActivityInv, [Next]_vars PROVE ActivityInv'
  OBVIOUS
<1>1. TimeInv /\ StoreInv /\ FailuresInv /\ CleanState
  BY ActivityInvParts
<1>2. TimeInv' /\ StoreInv' /\ CleanState'
  BY <1>1, TimeStep, StoreStep, CleanStep
<1>3. FailuresInv'
  BY <1>1, FailuresStep DEF FailuresInv
<1>4. (TimeInv /\ StoreInv /\ FailuresInv /\ CleanState)' => ActivityInv'
  BY ActivityInvParts, PTL
<1> QED BY <1>2, <1>3, <1>4

\* The inductive invariant: ticks are of this process and after its last sample,
\* the process holds the latest session, the memory of the store refers to rows of
\* it, and while no transaction fails the segments lie one after the other, in both
\* tables alike.  Types are part of it.
THEOREM ActivityAlways == Spec => []ActivityInv
  BY ActivityStart, ActivityStep, PTL DEF Spec

\* Whatever fails, crashes or stops half-way, only the latest session is open.
THEOREM SessionsOneOpen == Spec => []OneOpenSession
<1>1. ActivityInv => OneOpenSession
  BY DEF ActivityInv, SessionInv
<1> QED BY <1>1, ActivityAlways, PTL

\* Whatever the memory of the store refers to after a failed transaction, the
\* segments of sessions the process does not hold stay as they are.
THEOREM SegmentsFrozen == Spec => ClosedSessionsFrozen
<1>1. ActivityInv /\ [Next]_vars =>
        [\A table \in {<<activities, activities'>>, <<applications, applications'>>} :
           \A i \in DOMAIN table[1] :
             table[1][i].session # memory.session => table[2][i] = table[1][i]]_vars
  BY ActivityInvParts, TablesFrozen
<1> QED BY <1>1, ActivityAlways, PTL DEF Spec, ClosedSessionsFrozen

\* While no transaction fails, no two segments of a session overlap.
THEOREM TimeCountedOnce == Spec => []SessionTimeCountedOnce
<1>1. ActivityInv => SessionTimeCountedOnce
  <2> SUFFICES ASSUME ActivityInv, failures = 0,
                      NEW i \in DOMAIN activities, NEW j \in DOMAIN activities,
                      activities[i].session = activities[j].session, i < j
               PROVE  ~Overlap(activities[i], activities[j])
    BY DEF SessionTimeCountedOnce
  <2>1. StoreInv /\ OrderInv(Store, lastSample.wall) /\ Store.activities = activities
    BY ActivityInvParts, StoreInvFacts DEF CleanState, CleanInv
  <2>2. activities[i].to <= activities[j].from
    BY <2>1 DEF OrderInv
  <2>3. activities[i].to \in Int /\ activities[j].from \in Int
    BY <2>1, RowIntegers DEF StoreInv
  <2> QED BY <2>2, <2>3 DEF Overlap
<1> QED BY <1>1, ActivityAlways, PTL

\* While no transaction fails, an application is in the foreground only in active
\* time: each of its segments is an active segment.
THEOREM ForegroundActive == Spec => []ForegroundIsActive
<1>1. ActivityInv => ForegroundIsActive
  <2> SUFFICES ASSUME ActivityInv, failures = 0, NEW i \in DOMAIN applications,
                      NEW t \in applications[i].from .. applications[i].to - 1
               PROVE  \E j \in DOMAIN activities :
                        /\ activities[j].state = "active"
                        /\ activities[j].session = applications[i].session
                        /\ activities[j].from <= t /\ t < activities[j].to
    BY DEF ForegroundIsActive
  <2>1. /\ StoreInv /\ CleanInv(Store, lastSample.wall) /\ Store \in Stores
        /\ Store.activities = activities /\ Store.applications = applications
        /\ Store.memory = memory
    BY ActivityInvParts, StoreInvFacts DEF CleanState
  <2>2. PICK j \in DOMAIN activities : activities[j] = applications[i] /\ applications[i].state = "active"
    <3>1. CASE i = memory.application
      <4>1. i # None
        BY <2>1, LenProperties DEF StoreInv, None
      <4>2. memory.activity \in DOMAIN activities /\ applications[i] = activities[memory.activity]
        BY <2>1, <3>1, <4>1, CleanFacts, LenProperties DEF StoreInv
      <4> QED BY <2>1, <4>2 DEF CleanInv, ForegroundInv
    <3>2. CASE i # memory.application
      BY <2>1, <3>2 DEF CleanInv, ForegroundInv
    <3> QED BY <3>1, <3>2
  <2>3. applications[i].from \in Int /\ applications[i].to \in Int
    BY <2>1, RowIntegers DEF StoreInv
  <2> QED BY <2>2, <2>3
<1> QED BY <1>1, ActivityAlways, PTL

\* A recorded sample was taken by Run or by Sample.
LEMMA SamplesStep ==
  ASSUME ActivityInv, [Next]_vars, up, lastSample' # lastSample \/ samples' # samples, up'
  PROVE  SampledState' /\ ActivityInv'
<1>1. TimeInv /\ StoreInv /\ FailuresInv /\ CleanState
  BY ActivityInvParts
<1>2. Sample
  BY DEF Next, Tick, Suspend, Run, PrepareDailySummary, Logout, Shutdown, Crash, EndProcess
<1>3. ActivityInv'
  BY ActivityStep
<1> QED BY <1>1, <1>2, <1>3, CleanSample

\* What a history without a failure has, by name.
LEMMA PrimedFacts ==
  ASSUME ActivityInv, failures = 0
  PROVE  /\ Store \in Stores /\ CleanInv(Store, lastSample.wall)
         /\ WitnessInv(Store, lastSample.wall, samples)
         /\ activities \in Seq(Segments) /\ DOMAIN activities = 1..Len(activities)
         /\ Store.activities = activities /\ Store.memory = memory /\ lastSample.wall \in Int
  BY ActivityInvParts, StoreInvFacts, LenProperties, InstantFields DEF CleanState, StoreInv, TimeInv

\* The open segment is a row that ends at the sample.
LEMMA SampledOpen ==
  ASSUME ActivityInv, SampledState, failures = 0
  PROVE  /\ memory.activity \in DOMAIN activities
         /\ activities[memory.activity].to = lastSample.wall
         /\ activities[memory.activity].session = memory.session
<1>1. StoreInv /\ MemoryInv(Store)
  BY ActivityInvParts DEF StoreInv
<1>2. memory.activity \in DOMAIN activities
  BY PrimedFacts, CleanFacts DEF SampledState
<1> QED BY <1>1, <1>2, PrimedFacts DEF SampledState, EndsAt, MemoryInv

\* No moment of the session up to the last sample is left out.
Accounted ==
  LET own == {i \in DOMAIN activities : activities[i].session = memory.session}
  IN  \A i \in own : \A t \in activities[i].from .. lastSample.wall - 1 :
        \E j \in own : activities[j].from <= t /\ t < activities[j].to

\* The active time of the session lies between samples close to each other.
Witnessed ==
  \A i \in DOMAIN activities :
    activities[i].session = memory.session /\ activities[i].state = "active" =>
      \A t \in activities[i].from .. activities[i].to - 2 : Near(samples, t)

\* When a sample has been recorded and no transaction has failed, no moment of the
\* session since its first segment is left out.
THEOREM SampledRecorded == Spec => SampledTimeIsRecorded
<1>1. ASSUME ActivityInv, SampledState, failures = 0,
             NEW i \in DOMAIN activities, activities[i].session = memory.session,
             NEW t \in activities[i].from .. lastSample.wall - 1
      PROVE  \E j \in DOMAIN activities :
               /\ activities[j].session = memory.session
               /\ activities[j].from <= t /\ t < activities[j].to
  <2>1. /\ CleanInv(Store, lastSample.wall) /\ Store.activities = activities /\ Store.memory = memory
        /\ activities \in Seq(Segments) /\ lastSample.wall \in Int
    BY <1>1, PrimedFacts
  <2> DEFINE o == memory.activity
  <2>2. /\ o \in DOMAIN activities /\ activities[o].to = lastSample.wall
        /\ activities[o].session = memory.session
    BY <1>1, SampledOpen
  <2>3. o # None
    BY <1>1 DEF SampledState
  <2>4. activities[i].from \in Int /\ activities[o].from \in Int
    BY <1>1, <2>1, <2>2, RowIntegers
  <2>5. CASE t < activities[o].from
    <3>1. t \in activities[i].from .. activities[o].from - 1
      BY <1>1, <2>1, <2>4, <2>5
    <3> QED BY <1>1, <2>1, <2>3, <3>1 DEF CleanInv, CoverInv
  <2>6. CASE activities[o].from <= t
    BY <1>1, <2>1, <2>2, <2>4, <2>6
  <2> QED BY <1>1, <2>1, <2>4, <2>5, <2>6
<1>2. ActivityInv /\ SampledState /\ failures = 0 => Accounted
  BY <1>1 DEF Accounted
<1>3. (ActivityInv /\ SampledState /\ failures = 0 => Accounted)'
  BY <1>2, PTL
<1>4. ActivityInv /\ [Next]_vars =>
        [up /\ up' /\ samples' # samples /\ failures' = 0 =>
           LET own == {i \in DOMAIN activities' : activities'[i].session = memory'.session}
           IN  \A i \in own : \A t \in activities'[i].from .. lastSample'.wall - 1 :
                 \E j \in own : activities'[j].from <= t /\ t < activities'[j].to]_vars
  BY <1>3, SamplesStep DEF Accounted
<1> QED BY <1>4, ActivityAlways, PTL DEF Spec, SampledTimeIsRecorded

\* While no transaction fails, a machine that was silent for longer than the gap on
\* the monotonic clock is not taken as active, whatever this clock does while the
\* machine is suspended.
THEOREM ActiveWitnessed == Spec => ActiveTimeIsWitnessed
<1>1. ASSUME ActivityInv, SampledState, failures = 0,
             NEW i \in DOMAIN activities, activities[i].session = memory.session,
             activities[i].state = "active",
             NEW t \in activities[i].from .. activities[i].to - 2
      PROVE  Near(samples, t)
  <2>1. /\ WitnessInv(Store, lastSample.wall, samples)
        /\ Store.activities = activities /\ Store.memory = memory
        /\ activities \in Seq(Segments) /\ lastSample.wall \in Int
    BY <1>1, PrimedFacts
  <2> DEFINE o == memory.activity
  <2>2. o \in DOMAIN activities /\ activities[o].to = lastSample.wall
    BY <1>1, SampledOpen
  <2>3. activities[i].from \in Int /\ activities[i].to \in Int
    BY <1>1, <2>1, RowIntegers
  <2>4. t \in activities[i].from .. (IF i = o THEN lastSample.wall ELSE activities[i].to - 1) - 1
    BY <1>1, <2>1, <2>2, <2>3
  <2> QED BY <1>1, <2>1, <2>4 DEF WitnessInv, Near
<1>2. ActivityInv /\ SampledState /\ failures = 0 => Witnessed
  BY <1>1 DEF Witnessed
<1>3. (ActivityInv /\ SampledState /\ failures = 0 => Witnessed)'
  BY <1>2, PTL
<1>4. ActivityInv /\ [Next]_vars =>
        [up /\ up' /\ lastSample' # lastSample /\ failures' = 0 =>
           \A i \in DOMAIN activities' :
             LET a == activities'[i]
             IN  a.session = memory'.session /\ a.state = "active" =>
                   \A t \in a.from .. a.to - 2 : \E x, y \in samples' :
                     x.wall <= t /\ t < y.wall /\ Elapsed(x, y) <= SleepGap]_vars
  BY <1>3, SamplesStep DEF Witnessed, Near
<1> QED BY <1>4, ActivityAlways, PTL DEF Spec, ActiveTimeIsWitnessed

\* The summaries of a day are made of the segments and write none: every behaviour
\* of DailySummary is one of Activity, and has the properties above.
THEOREM SummariesImplementActivity == DaySpec => Spec
<1>1. DayInit => Init
  BY DEF DayInit
<1>2. [DayNext]_dayVars => [Next]_vars
  BY DEF DayNext, dayVars, Next
<1> QED BY <1>1, <1>2, PTL DEF DaySpec, Spec

-----------------------------------------------------------------------------
\* The time in a table.

Counted == Observed \cup {"sleeping"}

\* The seconds a row counts for in a day, and the most a row can count for.
Share(row, d) == Rounded(Within(row, d))
Whole == Rounded(DayLength)

\* The pairs of a row of a table and a second of it in the day.
Time(table, d) ==
  {p \in (DOMAIN table) \X (1..Whole) : p[2] <= Share(table[p[1]], d)}

\* The day of a time is a number.
LEMMA DayIsNat ==
  ASSUME NEW n \in Nat \ {0}, NEW s \in Nat
  PROVE  s \div n \in Nat
  BY SMTT(20)

\* A later time is of no earlier day.
LEMMA DayGrows ==
  ASSUME NEW n \in Nat \ {0}, NEW s \in Nat, NEW t \in Nat, s <= t
  PROVE  s \div n <= t \div n
<1>1. s = n * (s \div n) + (s % n) /\ 0 <= s % n /\ s % n < n
  BY SMTT(20)
<1>2. t = n * (t \div n) + (t % n) /\ 0 <= t % n /\ t % n < n
  BY SMTT(20)
<1>3. s \div n \in Int /\ t \div n \in Int /\ s % n \in Int /\ t % n \in Int
  BY SMTT(20)
<1>4. SUFFICES ASSUME t \div n + 1 <= s \div n PROVE FALSE
  BY <1>3
<1>5. n * (t \div n + 1) <= n * (s \div n)
  BY <1>3, <1>4
<1>6. n * (t \div n + 1) = n * (t \div n) + n
  BY <1>3
<1> QED BY <1>1, <1>2, <1>3, <1>5, <1>6

\* What the clock shows stands for a moment.
LEMMA MomentIs ==
  /\ \A t \in Times : Moment[t] \in Nat
  /\ \A s, t \in Times : s <= t => Moment[s] <= Moment[t]
  /\ Second \in Nat \ {0} /\ DayLength \in Nat \ {0} /\ MaxTime \in Times
<1>1. Moment \in [Times -> Nat] /\ MaxTime \in Times
  BY SummaryAssumption, ActivityAssumption DEF Times
<1>2. ASSUME NEW s \in Times, NEW t \in Times, s <= t
      PROVE  Moment[s] <= Moment[t]
  <2>1. CASE s = t
    BY <1>1, <2>1
  <2>2. CASE s # t
    <3>1. s < t
      BY <1>2, <2>2, ActivityAssumption DEF Times
    <3>2. Moment[s] < Moment[t]
      BY <3>1, SummaryAssumption DEF Times
    <3> QED BY <1>1, <3>2
  <2> QED BY <2>1, <2>2
<1> QED BY <1>1, <1>2, SummaryAssumption

\* A time the clock can show is of one of the days.
LEMMA DayOfTime ==
  ASSUME NEW t \in Times
  PROVE  Day(t) \in Days
<1>1. /\ Moment[t] \in Nat /\ Moment[MaxTime] \in Nat /\ Moment[t] <= Moment[MaxTime]
      /\ DayLength \in Nat \ {0}
  <2>1. t <= MaxTime
    BY ActivityAssumption DEF Times
  <2> QED BY <2>1, MomentIs
<1>2. Moment[t] \div DayLength \in Nat /\ Moment[MaxTime] \div DayLength \in Nat
  BY <1>1, DayIsNat
<1>3. Moment[t] \div DayLength <= Moment[MaxTime] \div DayLength
  BY <1>1, DayGrows
<1> QED BY <1>2, <1>3 DEF Day, Days

\* Days are numbers.
LEMMA DaysAreNat == Days \subseteq Nat
<1>1. Moment[MaxTime] \in Nat /\ DayLength \in Nat \ {0}
  BY MomentIs
<1>2. Moment[MaxTime] \div DayLength \in Nat
  BY <1>1, DayIsNat
<1> QED BY <1>2 DEF Days, Day

-----------------------------------------------------------------------------
\* What of a segment lies in a day, and how it is rounded.

\* The part of [a, b) between two bounds.
Clip(a, b, lo, hi) == Most(0, Least(b, hi) - Most(a, lo))

\* It is no longer than they are apart.
LEMMA ClipFits ==
  \A lo, hi \in Int : lo <= hi => \A a, b \in Int :
    Clip(a, b, lo, hi) \in Nat /\ Clip(a, b, lo, hi) <= hi - lo
  BY DEF Clip, Most, Least

\* It grows with its end.
LEMMA ClipGrows ==
  \A lo, hi \in Int : lo <= hi => \A a, b, c \in Int :
    b <= c => Clip(a, b, lo, hi) <= Clip(a, c, lo, hi)
  BY DEF Clip, Most, Least

\* Cutting it loses nothing.
LEMMA ClipCut ==
  \A lo, hi \in Int : lo <= hi => \A a, b, c \in Int :
    Clip(a, c, lo, hi) <= Clip(a, b, lo, hi) + Clip(b, c, lo, hi)
  BY DEF Clip, Most, Least

\* Rounding keeps the order, and two parts rounded are a second short at most.
LEMMA RoundedIs ==
  ASSUME NEW x \in Nat, NEW y \in Nat, NEW z \in Nat
  PROVE  /\ Rounded(x) \in Nat
         /\ x <= y => Rounded(x) <= Rounded(y)
         /\ x <= y + z => Rounded(x) <= Rounded(y) + Rounded(z) + 1
<1> DEFINE n == 2 * Second
<1>1. n \in Nat \ {0} /\ Second \in Nat /\ n = Second + Second
  BY MomentIs
<1> DEFINE more(u) == 2 * u + Second
<1>2. /\ Rounded(x) = more(x) \div n /\ Rounded(y) = more(y) \div n /\ Rounded(z) = more(z) \div n
  BY DEF Rounded
<1>3. more(x) \in Nat /\ more(y) \in Nat /\ more(z) \in Nat
  BY <1>1
<1>4. x <= y => more(x) <= more(y)
  BY <1>1
<1>5. x <= y + z => more(x) + Second <= more(y) + more(z)
  BY <1>1
<1> HIDE DEF n, more
<1>6. more(x) \div n \in Nat /\ more(y) \div n \in Nat /\ more(z) \div n \in Nat
  BY <1>1, <1>3, DayIsNat
<1>7. x <= y => more(x) \div n <= more(y) \div n
  BY <1>1, <1>3, <1>4, DayGrows
<1>8. ASSUME more(x) + Second <= more(y) + more(z)
      PROVE  more(x) \div n <= more(y) \div n + more(z) \div n + 1
  <2> DEFINE u == more(x)
             v == more(y)
             w == more(z)
             i == u \div n
             j == v \div n
             k == w \div n
  <2>0. n \in Nat \ {0} /\ Second \in Nat /\ u \in Nat /\ v \in Nat /\ w \in Nat
        /\ i \in Nat /\ j \in Nat /\ k \in Nat /\ u + Second <= v + w
    BY <1>1, <1>3, <1>6, <1>8
  <2> HIDE DEF u, v, w
  <2>1. n * i <= u
    <3>1. u = n * (u \div n) + (u % n) /\ 0 <= u % n /\ u % n \in Int
      BY <2>0, SMTT(20)
    <3> QED BY <2>0, <3>1
  <2>2. v < n * j + n
    <3>1. v = n * (v \div n) + (v % n) /\ v % n < n /\ v % n \in Int
      BY <2>0, SMTT(20)
    <3> QED BY <2>0, <3>1
  <2>3. w < n * k + n
    <3>1. w = n * (w \div n) + (w % n) /\ w % n < n /\ w % n \in Int
      BY <2>0, SMTT(20)
    <3> QED BY <2>0, <3>1
  <2> HIDE DEF i, j, k
  <2>4. SUFFICES ASSUME j + k + 2 <= i PROVE FALSE
    BY <2>0 DEF i, j, k, u, v, w
  <2>5. n * (j + k + 2) <= n * i
    BY <2>0, <2>4
  <2>6. n * (j + k + 2) = n * j + n * k + n + n
    BY <2>0
  <2>7. n * i \in Int /\ n * j \in Int /\ n * k \in Int
    BY <2>0
  <2> QED BY <2>0, <2>1, <2>2, <2>3, <2>5, <2>6, <2>7
<1> QED BY <1>2, <1>5, <1>6, <1>7, <1>8

\* The share of a row of a table: a day's at most; it grows with the end of the row,
\* and a row cut in two counts for a second more than its parts at most.
LEMMA ShareIs ==
  ASSUME NEW a \in Segments, NEW d \in Days
  PROVE  /\ Share(a, d) \in Nat /\ Share(a, d) <= Whole /\ Whole \in Nat
         /\ \A b \in Segments : b.from = a.from /\ a.to <= b.to => Share(a, d) <= Share(b, d)
         /\ \A b, c \in Segments :
              b.from = a.from /\ b.to = c.from /\ c.to = a.to => Share(a, d) <= Share(b, d) + Share(c, d) + 1
<1> DEFINE lo == d * DayLength
           hi == (d + 1) * DayLength
<1>1. lo \in Int /\ hi \in Int /\ hi = lo + DayLength /\ DayLength \in Nat /\ lo <= hi
  <2>1. d \in Nat /\ DayLength \in Nat
    BY DaysAreNat, MomentIs
  <2> QED BY <2>1
<1>2. \A row : Within(row, d) = Clip(Moment[row.from], Moment[row.to], lo, hi)
  BY DEF Within, Clip
<1>3. \A row \in Segments : /\ row.from \in Times /\ row.to \in Times
                            /\ Moment[row.from] \in Int /\ Moment[row.to] \in Int
  <2>1. \A row \in Segments : row.from \in Times /\ row.to \in Times
    BY DEF Segments, Times
  <2> QED BY <2>1, MomentIs
<1> HIDE DEF lo, hi
<1>4. \A row \in Segments : Within(row, d) \in Nat /\ Within(row, d) <= DayLength
  <2>1. TAKE row \in Segments
  <2>2. /\ Clip(Moment[row.from], Moment[row.to], lo, hi) \in Nat
        /\ Clip(Moment[row.from], Moment[row.to], lo, hi) <= hi - lo
    BY <1>1, <1>3, ClipFits
  <2> QED BY <1>1, <1>2, <2>2
<1>5. Share(a, d) \in Nat /\ Share(a, d) <= Whole /\ Whole \in Nat
  BY <1>1, <1>4, RoundedIs DEF Share, Whole
<1>6. ASSUME NEW b \in Segments, b.from = a.from, a.to <= b.to
      PROVE  Share(a, d) <= Share(b, d)
  <2>1. Moment[a.to] <= Moment[b.to]
    BY <1>3, <1>6, MomentIs
  <2>2. Clip(Moment[a.from], Moment[a.to], lo, hi) <= Clip(Moment[a.from], Moment[b.to], lo, hi)
    BY <1>1, <1>3, <1>6, <2>1, ClipGrows
  <2>3. Within(a, d) <= Within(b, d)
    BY <1>2, <1>6, <2>2
  <2> QED BY <1>4, <2>3, RoundedIs DEF Share
<1>7. ASSUME NEW b \in Segments, NEW c \in Segments,
             b.from = a.from, b.to = c.from, c.to = a.to
      PROVE  Share(a, d) <= Share(b, d) + Share(c, d) + 1
  <2>1. Clip(Moment[a.from], Moment[a.to], lo, hi)
          <= Clip(Moment[a.from], Moment[b.to], lo, hi) + Clip(Moment[b.to], Moment[a.to], lo, hi)
    BY <1>1, <1>3, <1>7, ClipCut
  <2>2. Within(a, d) <= Within(b, d) + Within(c, d)
    BY <1>2, <1>7, <2>1
  <2> QED BY <1>4, <2>2, RoundedIs DEF Share
<1> QED BY <1>5, <1>6, <1>7

-----------------------------------------------------------------------------
\* The seconds of a table.

\* Rows are there, and a day has finitely many seconds of them.
LEMMA TimeFinite ==
  ASSUME NEW table \in Seq(Segments), NEW d \in Days
  PROVE  /\ IsFiniteSet((DOMAIN table) \X (1..Whole)) /\ Whole \in Nat
         /\ \A i \in DOMAIN table : /\ table[i] \in Segments
                                    /\ Share(table[i], d) \in Nat /\ Share(table[i], d) <= Whole
<1>1. Whole \in Nat
  BY MomentIs, RoundedIs DEF Whole
<1>2. DOMAIN table = 1..Len(table) /\ Len(table) \in Int
  BY LenProperties
<1>3. IsFiniteSet(DOMAIN table) /\ IsFiniteSet(1..Whole)
  BY <1>1, <1>2, FS_Interval
<1>4. \A i \in DOMAIN table : table[i] \in Segments
  OBVIOUS
<1> QED BY <1>1, <1>3, <1>4, ShareIs, FS_Product

\* The seconds of a day are a number.
LEMMA SecondsAreNat ==
  ASSUME NEW table \in Seq(Segments), NEW d \in Days, NEW states
  PROVE  Seconds(table, states, d) \in Nat
<1> DEFINE rows == {j \in DOMAIN table : table[j].state \in states}
           counted == UNION {{i} \X (1..Share(table[i], d)) : i \in rows}
<1>1. ASSUME NEW i \in rows
      PROVE  {i} \X (1..Share(table[i], d)) \subseteq (DOMAIN table) \X (1..Whole)
  <2>1. i \in DOMAIN table /\ Share(table[i], d) \in Nat /\ Share(table[i], d) <= Whole /\ Whole \in Nat
    BY TimeFinite
  <2>2. 1..Share(table[i], d) \subseteq 1..Whole
    BY <2>1
  <2> QED BY <2>1, <2>2
<1>2. counted \in SUBSET ((DOMAIN table) \X (1..Whole))
  <2> HIDE DEF rows
  <2> QED BY <1>1
<1>3. IsFiniteSet(counted)
  BY <1>2, TimeFinite, FS_Subset
<1>4. Cardinality(counted) \in Nat
  BY <1>3, FS_CardinalityType
<1> QED BY <1>4 DEF Seconds, Share

\* The seconds counted are the pairs of a row and a second of it.
LEMMA SecondsAreTime ==
  ASSUME NEW table \in Seq(Segments), NEW d \in Days
  PROVE  /\ Seconds(table, Counted, d) = Cardinality(Time(table, d))
         /\ IsFiniteSet(Time(table, d))
<1>1. {j \in DOMAIN table : table[j].state \in Counted} = DOMAIN table
  BY RowIntegers DEF Segments, Counted
<1> DEFINE counted == UNION {{i} \X (1..Share(table[i], d)) : i \in DOMAIN table}
<1>2. Seconds(table, Counted, d) = Cardinality(counted)
  BY <1>1 DEF Seconds, Share
<1>3. counted \subseteq Time(table, d)
  <2>1. SUFFICES ASSUME NEW i \in DOMAIN table, NEW p \in {i} \X (1..Share(table[i], d))
                 PROVE  p \in Time(table, d)
    OBVIOUS
  <2>2. Share(table[i], d) \in Nat /\ Share(table[i], d) <= Whole /\ Whole \in Nat
    BY TimeFinite
  <2>3. p[1] = i /\ p[2] \in 1..Share(table[i], d) /\ p = <<p[1], p[2]>>
    BY <2>1
  <2>4. p[2] \in 1..Whole /\ p[2] <= Share(table[i], d)
    BY <2>2, <2>3
  <2> QED BY <2>1, <2>3, <2>4 DEF Time
<1>4. Time(table, d) \subseteq counted
  <2>1. SUFFICES ASSUME NEW p \in (DOMAIN table) \X (1..Whole), p[2] <= Share(table[p[1]], d)
                 PROVE  p \in counted
    BY DEF Time
  <2>2. p[1] \in DOMAIN table /\ p[2] \in 1..Whole /\ p = <<p[1], p[2]>>
    BY <2>1
  <2>3. Share(table[p[1]], d) \in Nat /\ Whole \in Nat
    BY <2>2, TimeFinite
  <2>4. p[2] \in 1..Share(table[p[1]], d)
    BY <2>1, <2>2, <2>3
  <2>5. p \in {p[1]} \X (1..Share(table[p[1]], d))
    BY <2>2, <2>4
  <2> QED BY <2>2, <2>5
<1>5. IsFiniteSet(Time(table, d))
  <2>1. Time(table, d) \in SUBSET ((DOMAIN table) \X (1..Whole))
    BY DEF Time
  <2> QED BY <2>1, TimeFinite, FS_Subset
<1>6. counted = Time(table, d)
  <2> HIDE DEF counted
  <2> QED BY <1>3, <1>4
<1> QED BY <1>2, <1>5, <1>6

\* Rows that are there longer count for more.
LEMMA MoreTime ==
  ASSUME NEW a \in Seq(Segments), NEW b \in Seq(Segments), NEW d \in Days,
         DOMAIN a = DOMAIN b,
         \A i \in DOMAIN a : b[i].from = a[i].from /\ a[i].to <= b[i].to
  PROVE  Seconds(a, Counted, d) <= Seconds(b, Counted, d)
<1>1. Time(a, d) \subseteq Time(b, d)
  <2>1. SUFFICES ASSUME NEW p \in (DOMAIN a) \X (1..Whole), p[2] <= Share(a[p[1]], d)
                 PROVE  p[2] <= Share(b[p[1]], d)
    BY DEF Time
  <2>2. /\ a[p[1]] \in Segments /\ b[p[1]] \in Segments /\ p[1] \in DOMAIN a
        /\ Share(a[p[1]], d) \in Nat /\ Share(b[p[1]], d) \in Nat
    BY TimeFinite
  <2>3. Share(a[p[1]], d) <= Share(b[p[1]], d)
    BY <2>2, ShareIs
  <2>4. p[2] \in 1..Whole /\ Whole \in Nat
    BY TimeFinite
  <2> QED BY <2>1, <2>2, <2>3, <2>4
<1>2. Cardinality(Time(a, d)) <= Cardinality(Time(b, d))
  BY <1>1, SecondsAreTime, FS_Subset
<1> QED BY <1>2, SecondsAreTime

\* Ending a row twice leaves it where the second one put it.
LEMMA EndAtTwice ==
  ASSUME NEW table \in Seq(Segments), NEW id \in Int, NEW x \in Times, NEW y \in Times
  PROVE  EndAt(EndAt(table, id, x), id, y) = EndAt(table, id, y)
<1> DEFINE a == EndAt(table, id, x)
           b == EndAt(a, id, y)
           c == EndAt(table, id, y)
<1>1. /\ a \in Seq(Segments) /\ Len(a) = Len(table)
      /\ \A i \in 1..Len(table) : a[i] = IF i = id THEN MovedTo(table[i], x) ELSE table[i]
  BY EndAtEffect
<1>2. /\ c \in Seq(Segments) /\ Len(c) = Len(table)
      /\ \A i \in 1..Len(table) : c[i] = IF i = id THEN MovedTo(table[i], y) ELSE table[i]
  BY EndAtEffect
<1> HIDE DEF a, c
<1>3. /\ b \in Seq(Segments) /\ Len(b) = Len(a)
      /\ \A i \in 1..Len(a) : b[i] = IF i = id THEN MovedTo(a[i], y) ELSE a[i]
  BY <1>1, EndAtEffect
<1> HIDE DEF b
<1>4. \A i \in 1..Len(table) : b[i] = c[i]
  <2>1. TAKE i \in 1..Len(table)
  <2>2. MovedTo(MovedTo(table[i], x), y) = MovedTo(table[i], y)
    BY DEF MovedTo
  <2> QED BY <1>1, <1>2, <1>3, <2>2
<1>5. b = c
  BY <1>1, <1>2, <1>3, <1>4, SeqEqual
<1> QED BY <1>5 DEF a, b, c

\* A row ended later counts no fewer seconds of any day.
LEMMA EndAtLater ==
  ASSUME NEW table \in Seq(Segments), NEW id \in Int, NEW x \in Times, NEW y \in Times, x <= y,
         NEW d \in Days
  PROVE  Seconds(EndAt(table, id, x), Counted, d) <= Seconds(EndAt(table, id, y), Counted, d)
<1> DEFINE a == EndAt(table, id, x)
           b == EndAt(table, id, y)
<1>1. /\ a \in Seq(Segments) /\ Len(a) = Len(table)
      /\ \A i \in 1..Len(table) : a[i] = IF i = id THEN MovedTo(table[i], x) ELSE table[i]
  BY EndAtEffect
<1>2. /\ b \in Seq(Segments) /\ Len(b) = Len(table)
      /\ \A i \in 1..Len(table) : b[i] = IF i = id THEN MovedTo(table[i], y) ELSE table[i]
  BY EndAtEffect
<1> HIDE DEF a, b
<1>3. DOMAIN a = 1..Len(table) /\ DOMAIN b = 1..Len(table)
  BY <1>1, <1>2, LenProperties
<1>4. \A i \in 1..Len(table) : b[i].from = a[i].from /\ a[i].to <= b[i].to
  <2>1. TAKE i \in 1..Len(table)
  <2>2. CASE i = id
    BY <1>1, <1>2, <2>2, MovedToFields
  <2>3. CASE i # id
    <3>1. a[i] = table[i] /\ b[i] = table[i] /\ a[i].to \in Int
      BY <1>1, <1>2, <1>3, <2>3, RowIntegers
    <3> QED BY <3>1
  <2> QED BY <2>2, <2>3
<1>5. Seconds(a, Counted, d) <= Seconds(b, Counted, d)
  BY <1>1, <1>2, <1>3, <1>4, MoreTime
<1> QED BY <1>5 DEF a, b

-----------------------------------------------------------------------------
\* What an observation does to the time an extension will find.

\* The time the store's table will have when its open segment is extended to x; and
\* with it what may yet be lost by rounding, a second for each segment so far.
Found(s, x, d) == Seconds(EndAt(s.activities, s.memory.activity, x), Counted, d)
Worth(s, x, d) == Found(s, x, d) + Len(s.activities)

\* The row opened at that time takes over what the closed one no longer covers, but
\* for a second.
LEMMA OpenedFinds ==
  ASSUME NEW s \in Stores, s.memory.session \in 1..MaxSessions,
         NEW state \in Observed \cup {"sleeping"}, NEW at \in Times, NEW x \in Times, NEW d \in Days
  PROVE  Worth(s, x, d) <= Worth(Opened(Extend(s, at), state, at), x, d)
<1> DEFINE e == Extend(s, at)
           r == Opened(e, state, at)
           n == s.memory.activity
           k == Len(s.activities) + 1
           a == EndAt(s.activities, n, x)
           c == EndAt(r.activities, k, x)
           new == NewSegment(e.memory.session, state, at)
<1>1. /\ e \in Stores /\ e.memory = s.memory /\ DOMAIN e.activities = DOMAIN s.activities
      /\ Len(e.activities) = Len(s.activities)
      /\ \A i \in DOMAIN s.activities :
           e.activities[i] = IF i = n THEN MovedTo(s.activities[i], at) ELSE s.activities[i]
  BY ExtendRows
<1>2. s.activities \in Seq(Segments) /\ n \in Int /\ Len(s.activities) \in Nat
      /\ DOMAIN s.activities = 1..Len(s.activities) /\ e.activities \in Seq(Segments)
  BY <1>1, StoreFields, LenProperties
<1> HIDE DEF e
<1>3. /\ r.memory.activity = k /\ DOMAIN r.activities = 1..k /\ r.activities[k] = new
      /\ \A i \in DOMAIN s.activities : r.activities[i] = e.activities[i]
      /\ Len(r.activities) = k
  <2>1. /\ r.memory.activity = Len(e.activities) + 1 /\ Len(r.activities) = Len(e.activities) + 1
        /\ DOMAIN r.activities = 1..(Len(e.activities) + 1)
        /\ \A i \in DOMAIN e.activities : r.activities[i] = e.activities[i]
        /\ r.activities[Len(e.activities) + 1] = new
    <3>1. e.memory.session \in 1..MaxSessions /\ e \in Stores
      BY <1>1
    <3>2. LET q == Opened(e, state, at)
              n1 == Len(e.activities) + 1
              k1 == Len(e.applications) + 1
              row == NewSegment(e.memory.session, state, at)
          IN  /\ q.memory.session = e.memory.session /\ q.memory.activity = n1 /\ q.memory.state = state
              /\ state = "active" => q.memory.application = k1
              /\ state # "active" => q.memory.application = None
              /\ Len(q.activities) = n1 /\ DOMAIN q.activities = 1..n1
              /\ \A i \in DOMAIN e.activities : q.activities[i] = e.activities[i]
              /\ q.activities[n1] = row
              /\ state = "active" =>
                   /\ DOMAIN q.applications = 1..k1 /\ q.applications[k1] = row
                   /\ \A i \in DOMAIN e.applications : q.applications[i] = e.applications[i]
              /\ state # "active" => q.applications = e.applications
      BY <3>1, OpenedRows
    <3> QED BY <3>2, Zenon
  <2> HIDE DEF r, new
  <2> QED BY <1>1, <2>1
<1>4. r.activities = Append(e.activities, new)
  BY DEF Opened
<1>5. r.activities \in Seq(Segments)
  <2>1. e.memory.session \in 1..MaxSessions
    BY <1>1
  <2>2. Append(e.activities, new) \in Seq(Segments)
    BY <1>2, <2>1, AppendEffect
  <2> QED BY <1>4, <2>2
<1>6. new.from = at
  BY DEF NewSegment
<1> HIDE DEF r, new
<1>7. /\ a \in Seq(Segments) /\ DOMAIN a = DOMAIN s.activities
      /\ \A i \in DOMAIN a : a[i] = IF i = n THEN MovedTo(s.activities[i], x) ELSE s.activities[i]
  BY <1>2, EndAtEffect, LenProperties
<1>8. /\ c \in Seq(Segments) /\ DOMAIN c = 1..k
      /\ \A i \in 1..k : c[i] = IF i = k THEN MovedTo(r.activities[i], x) ELSE r.activities[i]
  BY <1>2, <1>3, <1>5, EndAtEffect, LenProperties
<1> HIDE DEF a, c
<1>9. \A i \in DOMAIN a : i # k /\ i \in 1..k
  BY <1>2, <1>7
<1>10. \A i \in DOMAIN a : c[i] = IF i = n THEN MovedTo(s.activities[i], at) ELSE s.activities[i]
  BY <1>1, <1>3, <1>7, <1>8, <1>9
<1>11. c[k].from = at /\ c[k].to = x /\ k \in DOMAIN c
  BY <1>2, <1>3, <1>6, <1>8, MovedToFields
<1> DEFINE u == Share(c[n], d)
           w == Share(c[k], d)
           extra == <<0, 0>>
           all == Time(c, d) \cup {extra}
           place(p) == IF p[1] # n \/ p[2] <= u THEN p
                       ELSE IF p[2] - u <= w THEN <<k, p[2] - u>> ELSE extra
           f == [p \in Time(a, d) |-> place(p)]
<1>12. n \in DOMAIN a => /\ u \in Nat /\ w \in Nat /\ w <= Whole /\ Share(a[n], d) \in Nat
                         /\ Share(a[n], d) <= u + w + 1
  <2>1. SUFFICES ASSUME n \in DOMAIN a
                 PROVE  /\ u \in Nat /\ w \in Nat /\ w <= Whole /\ Share(a[n], d) \in Nat
                        /\ Share(a[n], d) <= u + w + 1
    OBVIOUS
  <2>2. /\ a[n] \in Segments /\ c[n] \in Segments /\ c[k] \in Segments
        /\ u \in Nat /\ w \in Nat /\ w <= Whole /\ Share(a[n], d) \in Nat
    BY <1>7, <1>8, <1>9, <1>11, <2>1, TimeFinite
  <2>3. c[n].from = a[n].from /\ c[n].to = c[k].from /\ c[k].to = a[n].to
    BY <1>7, <1>10, <1>11, <2>1, MovedToFields
  <2> QED BY <2>2, <2>3, ShareIs
<1>13. ASSUME NEW p \in Time(a, d)
       PROVE  /\ p[1] \in DOMAIN a /\ p[2] \in 1..Whole /\ p = <<p[1], p[2]>>
              /\ p[2] <= Share(a[p[1]], d) /\ p[2] \in Nat /\ p[2] # 0 /\ p[1] # k /\ p[1] # 0
  <2>1. /\ p[1] \in DOMAIN a /\ p[2] \in 1..Whole /\ p = <<p[1], p[2]>> /\ p[2] <= Share(a[p[1]], d)
    BY <1>13 DEF Time
  <2>2. p[2] \in Nat /\ p[2] # 0
    BY <1>7, <2>1, TimeFinite
  <2>3. p[1] # k /\ p[1] # 0
    BY <1>2, <1>7, <1>9, <2>1
  <2> QED BY <2>1, <2>2, <2>3
<1> HIDE DEF u, w
<1>14. ASSUME NEW p \in Time(a, d)
       PROVE  place(p) \in all
  <2>1. p[1] \in DOMAIN c
    BY <1>8, <1>9, <1>13, <1>14
  <2>2. CASE p[1] # n
    <3>1. a[p[1]] = c[p[1]] /\ place(p) = p
      BY <1>7, <1>10, <1>13, <1>14, <2>2
    <3> QED BY <1>13, <1>14, <2>1, <3>1 DEF Time
  <2>3. CASE p[1] = n /\ p[2] <= u
    <3>1. place(p) = p
      BY <2>3
    <3> QED BY <1>13, <1>14, <2>1, <2>3, <3>1 DEF Time, u
  <2>4. CASE p[1] = n /\ ~(p[2] <= u)
    <3>1. CASE p[2] - u <= w
      <4>1. place(p) = <<k, p[2] - u>>
        BY <2>4, <3>1
      <4>2. u \in Nat /\ w \in Nat /\ w <= Whole /\ Whole \in Nat /\ p[2] \in Nat
        BY <1>7, <1>12, <1>13, <1>14, <2>4, TimeFinite
      <4>3. p[2] - u \in 1..Whole
        BY <2>4, <3>1, <4>2
      <4>4. <<k, p[2] - u>> \in Time(c, d)
        BY <1>11, <3>1, <4>3 DEF Time, w
      <4> QED BY <4>1, <4>4
    <3>2. CASE ~(p[2] - u <= w)
      BY <2>4, <3>2
    <3> QED BY <3>1, <3>2
  <2> QED BY <2>2, <2>3, <2>4
<1>15. ASSUME NEW p \in Time(a, d), NEW q \in Time(a, d), place(p) = place(q)
       PROVE  p = q
  <2>1. /\ p = <<p[1], p[2]>> /\ p[1] # k /\ p[1] # 0 /\ p[2] \in Nat /\ p[1] \in DOMAIN a
        /\ q = <<q[1], q[2]>> /\ q[1] # k /\ q[1] # 0 /\ q[2] \in Nat /\ q[1] \in DOMAIN a
        /\ p[2] <= Share(a[p[1]], d) /\ q[2] <= Share(a[q[1]], d)
        /\ k # 0
    BY <1>2, <1>13, <1>15
  <2> DEFINE kept(z) == z[1] # n \/ z[2] <= u
  <2>2. CASE kept(p) /\ kept(q)
    BY <1>15, <2>2
  <2>3. CASE kept(p) /\ ~kept(q)
    <3>1. place(p) = p /\ (place(q) = <<k, q[2] - u>> \/ place(q) = extra)
      BY <2>3
    <3>2. p[1] = k \/ p[1] = 0
      BY <1>15, <2>1, <3>1
    <3> QED BY <2>1, <3>2
  <2>4. CASE ~kept(p) /\ kept(q)
    <3>1. place(q) = q /\ (place(p) = <<k, p[2] - u>> \/ place(p) = extra)
      BY <2>4
    <3>2. q[1] = k \/ q[1] = 0
      BY <1>15, <2>1, <3>1
    <3> QED BY <2>1, <3>2
  <2>5. CASE ~kept(p) /\ ~kept(q)
    <3>1. p[1] = n /\ q[1] = n /\ n \in DOMAIN a /\ ~(p[2] <= u) /\ ~(q[2] <= u)
      BY <2>1, <2>5
    <3>2. u \in Nat /\ w \in Nat /\ p[2] <= u + w + 1 /\ q[2] <= u + w + 1
      <4>1. u \in Nat /\ w \in Nat /\ Share(a[n], d) \in Nat /\ Share(a[n], d) <= u + w + 1
        BY <1>12, <3>1
      <4>2. p[2] <= Share(a[n], d) /\ q[2] <= Share(a[n], d)
        BY <2>1, <3>1
      <4> QED BY <2>1, <4>1, <4>2
    <3>3. /\ place(p) = IF p[2] - u <= w THEN <<k, p[2] - u>> ELSE extra
          /\ place(q) = IF q[2] - u <= w THEN <<k, q[2] - u>> ELSE extra
      BY <3>1
    <3>4. <<k, p[2] - u>> # extra /\ <<k, q[2] - u>> # extra
      BY <2>1
    <3>5. CASE p[2] - u <= w
      <4>1. q[2] - u <= w
        BY <1>15, <3>3, <3>4, <3>5
      <4>2. p[2] - u = q[2] - u
        BY <1>15, <3>3, <3>5, <4>1
      <4> QED BY <2>1, <3>1, <3>2, <4>2
    <3>6. CASE ~(p[2] - u <= w)
      <4>1. ~(q[2] - u <= w)
        BY <1>15, <3>3, <3>4, <3>6
      <4>2. p[2] = u + w + 1 /\ q[2] = u + w + 1
        BY <2>1, <3>2, <3>6, <4>1
      <4> QED BY <2>1, <3>1, <4>2
    <3> QED BY <3>5, <3>6
  <2> QED BY <2>2, <2>3, <2>4, <2>5
<1> HIDE DEF place, extra
<1>16. IsFiniteSet(all) /\ Cardinality(all) <= Cardinality(Time(c, d)) + 1
  <2>1. IsFiniteSet(Time(c, d))
    BY <1>8, SecondsAreTime
  <2>2. Cardinality(Time(c, d)) \in Nat
    BY <2>1, FS_CardinalityType
  <2>3. /\ IsFiniteSet(Time(c, d) \cup {extra})
        /\ Cardinality(Time(c, d) \cup {extra}) =
             IF extra \in Time(c, d) THEN Cardinality(Time(c, d)) ELSE Cardinality(Time(c, d)) + 1
    BY <2>1, FS_AddElement
  <2> QED BY <2>2, <2>3
<1> HIDE DEF all
<1>17. f \in Injection(Time(a, d), all)
  <2>1. f \in [Time(a, d) -> all]
    BY <1>14
  <2>2. \A p, q \in Time(a, d) : f[p] = f[q] => p = q
    BY <1>15
  <2> HIDE DEF f
  <2> QED BY <2>1, <2>2 DEF Injection, IsInjective
<1>18. Cardinality(Time(a, d)) <= Cardinality(all)
  BY <1>16, <1>17, FS_Injection
<1>19. Seconds(a, Counted, d) <= Seconds(c, Counted, d) + 1
  <2>1. /\ Seconds(a, Counted, d) = Cardinality(Time(a, d)) /\ IsFiniteSet(Time(a, d))
        /\ Seconds(c, Counted, d) = Cardinality(Time(c, d)) /\ IsFiniteSet(Time(c, d))
    BY <1>7, <1>8, SecondsAreTime
  <2>2. /\ Cardinality(Time(a, d)) \in Nat /\ Cardinality(Time(c, d)) \in Nat
        /\ Cardinality(all) \in Nat
    BY <1>16, <2>1, FS_CardinalityType
  <2> QED BY <1>16, <1>18, <2>1, <2>2
<1>20. Seconds(a, Counted, d) \in Nat /\ Seconds(c, Counted, d) \in Nat
  BY <1>7, <1>8, SecondsAreNat
<1>21. /\ Worth(s, x, d) = Seconds(a, Counted, d) + Len(s.activities)
       /\ Worth(r, x, d) = Seconds(c, Counted, d) + (Len(s.activities) + 1)
  BY <1>3 DEF Worth, Found, a, c
<1>22. Worth(s, x, d) <= Worth(r, x, d)
  BY <1>2, <1>19, <1>20, <1>21
<1> QED BY <1>22 DEF r, e

\* An observation loses none of the seconds a summary would have found, rounding aside.
LEMMA RecordFinds ==
  ASSUME NEW s, Writable(s), NEW b, CleanInv(s, b), NEW state \in Observed \cup {"sleeping"},
         NEW at \in Times, NEW x \in Times, NEW d \in Days
  PROVE  Worth(s, x, d) <= Worth(RecordObservation(s, state, at, "none"), x, d)
<1> DEFINE r == RecordObservation(s, state, at, "none")
<1>1. s \in Stores /\ s.memory.session \in 1..MaxSessions
  BY DEF Writable
<1>2. r = IF Continues(s, state) THEN Extend(s, at) ELSE Opened(Extend(s, at), state, at)
  BY CleanRecordIs
<1> SUFFICES Worth(s, x, d) <= Worth(r, x, d)
  OBVIOUS
<1> HIDE DEF r
<1>3. CASE ~Continues(s, state)
  BY <1>1, <1>2, <1>3, OpenedFinds
<1>4. CASE Continues(s, state)
  <2>1. /\ r.activities = EndAt(s.activities, s.memory.activity, at) /\ r.memory = s.memory
    BY <1>1, <1>2, <1>4, ExtendFields
  <2>2. s.activities \in Seq(Segments) /\ s.memory.activity \in Int
    BY <1>1, StoreFields
  <2>3. Worth(r, x, d) = Worth(s, x, d)
    BY <2>1, <2>2, EndAtTwice, EndAtEffect DEF Worth, Found
  <2>4. EndAt(s.activities, s.memory.activity, x) \in Seq(Segments) /\ Len(s.activities) \in Nat
    BY <2>2, EndAtEffect, LenProperties
  <2>5. Worth(s, x, d) \in Nat
    BY <2>4, SecondsAreNat DEF Worth, Found
  <2> QED BY <2>3, <2>5
<1> QED BY <1>3, <1>4

\* A sample takes no time away that the next extension will find.
LEMMA SampleFinds ==
  ASSUME NEW s \in Stores, MemoryInv(s), s.memory.session \in 1..MaxSessions,
         Len(s.activities) + 2 <= MaxSegments, Len(s.applications) + 1 <= MaxSegments,
         NEW last \in Int, CleanInv(s, last), NEW at \in Times,
         NEW slept, slept => last + 1 \in Times,
         NEW state \in Observed, NEW x \in Times, NEW d \in Days
  PROVE  Worth(s, x, d) <=
           Worth(RecordObservation(SleepOf(s, slept, last + 1, "none"), state, at, "none"), x, d)
<1> DEFINE first == SleepOf(s, slept, last + 1, "none")
           r == RecordObservation(first, state, at, "none")
<1>1. "none" \in Failures /\ "sleeping" \in Counted /\ state \in Counted
  BY DEF Failures, Counted
<1>2. Writable(first) /\ first \in Stores /\ StoreKept(s, r)
  BY <1>1, SampledKeeps
<1>3. Writable(s)
  <2>1. Len(s.activities) \in Nat /\ Len(s.applications) \in Nat /\ MaxSegments \in Nat
    BY StoreFields, LenProperties, ActivityAssumption
  <2> QED BY <2>1 DEF Writable
<1>4. r \in Stores
  BY <1>2 DEF StoreKept
<1>5. \A q \in Stores : Worth(q, x, d) \in Nat
  <2>1. TAKE q \in Stores
  <2>2. EndAt(q.activities, q.memory.activity, x) \in Seq(Segments) /\ Len(q.activities) \in Nat
    BY StoreFields, EndAtEffect, LenProperties
  <2> QED BY <2>2, SecondsAreNat DEF Worth, Found
<1>6. CASE slept
  <2>1. first = RecordObservation(s, "sleeping", last + 1, "none")
    BY <1>6 DEF SleepOf
  <2>2. last + 1 \in Times /\ last <= last + 1
    BY <1>6
  <2> HIDE DEF first
  <2>3. CleanInv(first, last + 1)
    BY <1>1, <1>3, <2>1, <2>2, CleanRecord DEF Counted
  <2>4. Worth(s, x, d) <= Worth(first, x, d)
    BY <1>1, <1>3, <2>1, <2>2, RecordFinds DEF Counted
  <2>5. Worth(first, x, d) <= Worth(r, x, d)
    BY <1>1, <1>2, <2>3, RecordFinds DEF Counted
  <2>6. Worth(s, x, d) \in Nat /\ Worth(first, x, d) \in Nat /\ Worth(r, x, d) \in Nat
    BY <1>2, <1>4, <1>5
  <2> HIDE DEF r
  <2>7. Worth(s, x, d) <= Worth(r, x, d)
    BY <2>4, <2>5, <2>6
  <2> QED BY <2>7 DEF r, first
<1>7. CASE ~slept
  <2>1. first = s
    BY <1>7 DEF SleepOf
  <2> QED BY <1>1, <1>3, <2>1, RecordFinds DEF Counted
<1> QED BY <1>6, <1>7

-----------------------------------------------------------------------------
\* The rows of daily_summaries and the revisions queued.

DayRows == [Days -> Totals]

\* The time reported, and a second for each segment there was then: what a later
\* revision reports, with a second for each segment there is by then.
Due(row) == row.tracked + row.segments

RowInv(rows, q) ==
  /\ rows \in DayRows /\ q \subseteq Revisions
  /\ \A x \in q : x.revision <= rows[x.day].revision

GrowInv(rows, q) ==
  /\ \A x, y \in q : x.day = y.day /\ x.revision < y.revision => Due(x) <= Due(y)
  /\ \A x \in q : Due(x) <= Due(rows[x.day])

\* The row of a day after its next revision.
NextRow(rows, d, active, tracked, segments) ==
  [rows EXCEPT ![d] = [revision |-> rows[d].revision + 1, active |-> active, tracked |-> tracked,
                       segments |-> segments]]

Queue(rows, q, d, active, tracked, segments) ==
  q \cup {[day |-> d, revision |-> rows[d].revision + 1, active |-> active, tracked |-> tracked,
           segments |-> segments]}

\* The types of a queued revision.
LEMMA RevisionFields ==
  ASSUME NEW q, q \subseteq Revisions, NEW x \in q
  PROVE  /\ x.day \in Days /\ x.revision \in Nat /\ x.tracked \in Nat /\ x.segments \in Nat
         /\ Due(x) \in Nat
  BY DEF Revisions, Due

\* Writing a revision keeps what rows and queue have in common.
LEMMA RevisedRows ==
  ASSUME NEW rows, NEW q, RowInv(rows, q), NEW d \in Days, NEW active \in Nat, NEW tracked \in Nat,
         NEW segments \in Nat
  PROVE  RowInv(NextRow(rows, d, active, tracked, segments), Queue(rows, q, d, active, tracked, segments))
<1> DEFINE r == NextRow(rows, d, active, tracked, segments)
           new == [day |-> d, revision |-> rows[d].revision + 1, active |-> active, tracked |-> tracked,
                   segments |-> segments]
<1>1. rows \in DayRows /\ q \subseteq Revisions
  BY DEF RowInv
<1>2. /\ r \in DayRows /\ r[d].revision = rows[d].revision + 1 /\ rows[d].revision \in Nat
      /\ \A e \in Days : e # d => r[e] = rows[e]
  BY <1>1 DEF NextRow, DayRows, Totals, r
<1> HIDE DEF r
<1>3. new \in Revisions
  BY <1>2 DEF Revisions
<1>4. ASSUME NEW x \in q
      PROVE  x.revision <= r[x.day].revision
  <2>1. x.day \in Days /\ x.revision \in Nat /\ x.revision <= rows[x.day].revision
    BY <1>1, RevisionFields DEF RowInv
  <2>2. CASE x.day = d
    BY <1>2, <2>1, <2>2
  <2>3. CASE x.day # d
    BY <1>2, <2>1, <2>3
  <2> QED BY <2>2, <2>3
<1>5. new.revision <= r[new.day].revision
  BY <1>2
<1> QED BY <1>1, <1>2, <1>3, <1>4, <1>5 DEF RowInv, Queue, r

\* A revision that counts no less than the one before it.
LEMMA RevisedGrows ==
  ASSUME NEW rows, NEW q, RowInv(rows, q), GrowInv(rows, q),
         NEW d \in Days, NEW active \in Nat, NEW tracked \in Nat, NEW segments \in Nat,
         Due(rows[d]) <= tracked + segments
  PROVE  GrowInv(NextRow(rows, d, active, tracked, segments), Queue(rows, q, d, active, tracked, segments))
<1> DEFINE r == NextRow(rows, d, active, tracked, segments)
           new == [day |-> d, revision |-> rows[d].revision + 1, active |-> active, tracked |-> tracked,
                   segments |-> segments]
           more == Queue(rows, q, d, active, tracked, segments)
<1>1. rows \in DayRows /\ q \subseteq Revisions
  BY DEF RowInv
<1>2. /\ r \in DayRows /\ r[d].revision = rows[d].revision + 1 /\ Due(r[d]) = tracked + segments
      /\ \A e \in Days : e # d => r[e] = rows[e]
      /\ rows[d].revision \in Nat /\ Due(rows[d]) \in Nat /\ tracked + segments \in Nat
  BY <1>1 DEF NextRow, DayRows, Totals, Due, r
<1> HIDE DEF r
<1>3. more = q \cup {new}
  BY DEF Queue
<1>4. new.day = d /\ new.revision = rows[d].revision + 1 /\ Due(new) = tracked + segments
  BY DEF Due
<1> HIDE DEF new, more
<1>5. ASSUME NEW x \in q
      PROVE  /\ x.day = d => x.revision < new.revision /\ Due(x) <= tracked + segments
             /\ Due(x) <= Due(r[x.day])
  <2>1. /\ x.day \in Days /\ x.revision \in Nat /\ Due(x) \in Nat
        /\ x.revision <= rows[x.day].revision /\ Due(x) <= Due(rows[x.day])
    BY <1>1, RevisionFields DEF RowInv, GrowInv
  <2>2. CASE x.day = d
    BY <1>2, <1>4, <2>1, <2>2
  <2>3. CASE x.day # d
    BY <1>2, <2>1, <2>3
  <2> QED BY <2>2, <2>3
<1>6. ASSUME NEW x \in more, NEW y \in more, x.day = y.day, x.revision < y.revision
      PROVE  Due(x) <= Due(y)
  <2>1. CASE x \in q /\ y \in q
    BY <1>6, <2>1 DEF GrowInv
  <2>2. CASE x \in q /\ y = new
    BY <1>4, <1>5, <1>6, <2>2
  <2>3. CASE x = new /\ y \in q
    <3>1. y.revision \in Nat /\ new.revision \in Nat /\ y.revision < new.revision
      BY <1>1, <1>2, <1>4, <1>5, <1>6, <2>3, RevisionFields
    <3> QED BY <1>6, <2>3, <3>1
  <2>4. CASE x = new /\ y = new
    BY <1>2, <1>4, <1>6, <2>4
  <2> QED BY <1>3, <1>6, <2>1, <2>2, <2>3, <2>4
<1>7. \A x \in more : Due(x) <= Due(r[x.day])
  BY <1>2, <1>3, <1>4, <1>5
<1> QED BY <1>6, <1>7 DEF GrowInv, r, more

-----------------------------------------------------------------------------
\* The steps.

ReportInv == RowInv(summaries, queued) /\ takenBack \in BOOLEAN

GrownInv ==
  failures = 0 /\ ~takenBack =>
    /\ GrowInv(summaries, queued)
    /\ \A d \in Days : Due(summaries[d]) <= Worth(Store, NextSummary, d)

\* What a summary would find of a day is a number.
LEMMA WorthIsNat ==
  ASSUME NEW s \in Stores, NEW x \in Times, NEW d \in Days
  PROVE  Worth(s, x, d) \in Nat /\ Found(s, x, d) \in Nat /\ Len(s.activities) \in Nat
<1>1. EndAt(s.activities, s.memory.activity, x) \in Seq(Segments) /\ Len(s.activities) \in Nat
  BY StoreFields, EndAtEffect, LenProperties
<1> QED BY <1>1, SecondsAreNat DEF Worth, Found

\* A later summary finds no less.
LEMMA WorthLater ==
  ASSUME NEW s \in Stores, NEW x \in Times, NEW y \in Times, x <= y, NEW d \in Days
  PROVE  Worth(s, x, d) <= Worth(s, y, d)
<1>1. Found(s, x, d) <= Found(s, y, d)
  BY StoreFields, EndAtLater DEF Found
<1> QED BY <1>1, WorthIsNat DEF Worth

\* The time of the next summary is one the clock has shown.
LEMMA NextSummaryTime ==
  ASSUME TimeInv
  PROVE  NextSummary \in Times /\ NextSummary <= clock /\ clock \in Times
<1>1. clock \in 0..MaxTime /\ MaxTime \in Nat
  BY ActivityAssumption DEF TimeInv, Times
<1>2. summaryTick # Never => summaryTick.wall \in 0..clock
  BY DEF TimeInv, ClockInv
<1> QED BY <1>1, <1>2 DEF NextSummary, Times

\* The totals of a row are numbers.
LEMMA RowTotals ==
  ASSUME NEW rows, NEW q, RowInv(rows, q), NEW d \in Days
  PROVE  rows[d].tracked \in Nat /\ rows[d].segments \in Nat /\ Due(rows[d]) \in Nat
  BY DEF RowInv, DayRows, Totals, Due

\* A step that reports nothing.
LEMMA NothingReported ==
  ASSUME ReportInv, GrownInv, UNCHANGED <<summaries, queued>>, takenBack' \in BOOLEAN,
         failures' = 0 /\ ~takenBack' => failures = 0 /\ ~takenBack,
         failures' = 0 /\ ~takenBack' =>
           \A d \in Days : /\ Worth(Store, NextSummary, d) \in Nat
                           /\ Worth(Store', NextSummary', d) \in Nat
                           /\ Worth(Store, NextSummary, d) <= Worth(Store', NextSummary', d)
  PROVE  ReportInv' /\ GrownInv'
<1>1. ReportInv'
  BY DEF ReportInv
<1>2. SUFFICES ASSUME failures' = 0, ~takenBack'
               PROVE  /\ GrowInv(summaries, queued)
                      /\ \A d \in Days : Due(summaries[d]) <= Worth(Store', NextSummary', d)
  BY <1>1 DEF GrownInv
<1>3. /\ GrowInv(summaries, queued)
      /\ \A d \in Days : Due(summaries[d]) <= Worth(Store, NextSummary, d)
  BY <1>2 DEF GrownInv
<1>4. \A d \in Days : Due(summaries[d]) \in Nat
  BY RowTotals DEF ReportInv
<1> QED BY <1>2, <1>3, <1>4

\* Writing the revision of a day: its row, its queue, and no other day's.
LEMMA Written ==
  ASSUME RowInv(summaries, queued), NEW at \in Times, activities' \in Seq(Segments), WriteRevision(at)
  PROVE  LET d == Day(at)
             reached == Seconds(activities', Counted, d) + Len(activities')
         IN  /\ RowInv(summaries', queued')
             /\ GrowInv(summaries, queued) /\ Due(summaries[d]) <= reached =>
                  GrowInv(summaries', queued')
             /\ Due(summaries'[d]) = reached
             /\ \A e \in Days : e # d => summaries'[e] = summaries[e]
<1> DEFINE d == Day(at)
           active == Seconds(activities', {"active"}, d)
           tracked == Seconds(activities', Counted, d)
           segments == Len(activities')
<1>1. d \in Days
  BY DayOfTime
<1>2. active \in Nat /\ tracked \in Nat /\ segments \in Nat
  BY <1>1, SecondsAreNat, LenProperties
<1>3. summaries \in DayRows
  BY DEF RowInv
<1>4. /\ summaries' = NextRow(summaries, d, active, tracked, segments)
      /\ queued' = Queue(summaries, queued, d, active, tracked, segments)
  <2>1. summaries' = NextRow(summaries, d, active, tracked, segments)
    BY DEF WriteRevision, NextRow, Counted
  <2>2. summaries'[d] = [revision |-> summaries[d].revision + 1, active |-> active,
                         tracked |-> tracked, segments |-> segments]
    <3> HIDE DEF d, active, tracked, segments
    <3> QED BY <1>1, <1>3, <2>1 DEF NextRow, DayRows
  <2>3. queued' = queued \cup {[day |-> d, revision |-> summaries'[d].revision,
                                active |-> summaries'[d].active, tracked |-> summaries'[d].tracked,
                                segments |-> summaries'[d].segments]}
    BY DEF WriteRevision
  <2> HIDE DEF d, active, tracked, segments
  <2> QED BY <2>1, <2>2, <2>3 DEF Queue
<1> SUFFICES /\ RowInv(summaries', queued')
             /\ GrowInv(summaries, queued) /\ Due(summaries[d]) <= tracked + segments =>
                  GrowInv(summaries', queued')
             /\ Due(summaries'[d]) = tracked + segments
             /\ \A e \in Days : e # d => summaries'[e] = summaries[e]
  OBVIOUS
<1> HIDE DEF d, active, tracked, segments
<1>5. RowInv(summaries', queued')
  BY <1>1, <1>2, <1>4, RevisedRows
<1>6. GrowInv(summaries, queued) /\ Due(summaries[d]) <= tracked + segments =>
        GrowInv(summaries', queued')
  BY <1>1, <1>2, <1>4, RevisedGrows
<1>7. /\ Due(summaries'[d]) = tracked + segments
      /\ \A e \in Days : e # d => summaries'[e] = summaries[e]
  BY <1>1, <1>2, <1>3, <1>4 DEF NextRow, DayRows, Totals, Due
<1> QED BY <1>5, <1>6, <1>7

\* A step that reports the segments of a day, extended to a time that is not
\* before the one expected.
LEMMA Reported ==
  ASSUME TimeInv, StoreInv, ReportInv, GrownInv, NEW at \in Times, NextSummary <= at,
         WriteRevision(at), takenBack' = takenBack, activities' \in Seq(Segments),
         failures' = 0 =>
           /\ failures = 0
           /\ activities' = Extend(Store, at).activities
           /\ \A d \in Days : Seconds(activities', Counted, d) + Len(activities')
                                <= Worth(Store', NextSummary', d)
           /\ \A d \in Days : Worth(Store', NextSummary', d) \in Nat
  PROVE  ReportInv' /\ GrownInv'
<1>1. RowInv(summaries, queued)
  BY DEF ReportInv
<1> DEFINE today == Day(at)
           reached(d) == Seconds(activities', Counted, d) + Len(activities')
<1>2. /\ RowInv(summaries', queued')
      /\ GrowInv(summaries, queued) /\ Due(summaries[today]) <= reached(today) =>
           GrowInv(summaries', queued')
      /\ Due(summaries'[today]) = reached(today)
      /\ \A e \in Days : e # today => summaries'[e] = summaries[e]
  BY <1>1, Written
<1>3. today \in Days
  BY DayOfTime
<1>4. ReportInv'
  BY <1>2 DEF ReportInv
<1>5. SUFFICES ASSUME failures' = 0, ~takenBack'
               PROVE  /\ GrowInv(summaries', queued')
                      /\ \A d \in Days : Due(summaries'[d]) <= Worth(Store', NextSummary', d)
  BY <1>4 DEF GrownInv
<1>6. /\ GrowInv(summaries, queued)
      /\ \A d \in Days : Due(summaries[d]) <= Worth(Store, NextSummary, d)
  BY <1>5 DEF GrownInv
<1>7. Store \in Stores /\ NextSummary \in Times
  BY StoreInvFacts, NextSummaryTime
<1>8. activities' = EndAt(Store.activities, Store.memory.activity, at)
  BY <1>5, <1>7, ExtendFields
<1>9. ASSUME NEW d \in Days
      PROVE  Due(summaries[d]) <= reached(d) /\ reached(d) \in Nat /\ Due(summaries[d]) \in Nat
  <2>1. reached(d) = Worth(Store, at, d)
    <3>1. Len(activities') = Len(Store.activities)
      BY <1>7, <1>8, StoreFields, EndAtEffect
    <3> QED BY <1>8, <3>1 DEF Worth, Found
  <2>2. /\ Worth(Store, NextSummary, d) <= Worth(Store, at, d)
        /\ Worth(Store, NextSummary, d) \in Nat /\ Worth(Store, at, d) \in Nat
    BY <1>7, WorthLater, WorthIsNat
  <2>3. Due(summaries[d]) \in Nat /\ Due(summaries[d]) <= Worth(Store, NextSummary, d)
    BY <1>1, <1>6, RowTotals
  <2> QED BY <2>1, <2>2, <2>3
<1> HIDE DEF today, reached
<1>10. GrowInv(summaries', queued')
  BY <1>2, <1>3, <1>6, <1>9
<1>11. ASSUME NEW d \in Days
       PROVE  Due(summaries'[d]) <= Worth(Store', NextSummary', d)
  <2>1. Due(summaries'[d]) <= reached(d) /\ Due(summaries'[d]) \in Nat
    <3>1. CASE d = today
      BY <1>2, <1>9, <3>1
    <3>2. CASE d # today
      BY <1>2, <1>9, <3>2
    <3> QED BY <3>1, <3>2
  <2>2. reached(d) <= Worth(Store', NextSummary', d) /\ Worth(Store', NextSummary', d) \in Nat
    BY <1>5 DEF reached
  <2> QED BY <1>9, <2>1, <2>2
<1> QED BY <1>10, <1>11

\* A state without failures was reached from one without.
LEMMA FailuresClean ==
  ASSUME FailuresInv, [Next]_vars
  PROVE  failures' = 0 => failures = 0
  BY FailuresStep, ActivityAssumption DEF FailuresInv

\* Time passes, or nothing happens: the next summary is made no earlier.
LEMMA WaitReports ==
  ASSUME TimeInv, StoreInv, TimeInv', ReportInv, GrownInv,
         Tick \/ (\E n \in 1..SleepGap + 1 : Suspend(n)) \/ UNCHANGED vars,
         UNCHANGED <<summaries, queued, takenBack>>
  PROVE  ReportInv' /\ GrownInv'
<1>1. Store' = Store /\ failures' = failures
  BY DEF Tick, Suspend, vars, tableVars, Store
<1>2. NextSummary \in Times /\ NextSummary' \in Times /\ clock \in Int
  <2>1. (TimeInv => NextSummary \in Times)'
    BY NextSummaryTime, PTL
  <2> QED BY <2>1, NextSummaryTime, ActivityAssumption DEF TimeInv, Times
<1>3. NextSummary <= NextSummary'
  <2>1. CASE UNCHANGED <<clock, summaryTick>>
    <3>1. NextSummary' = NextSummary
      BY <2>1 DEF NextSummary
    <3> QED BY <1>2, <3>1, ActivityAssumption DEF Times
  <2>2. CASE Tick
    <3>1. /\ clock' = clock + 1
          /\ summaryTick' = summaryTick \/ (summaryTick = Never /\ summaryTick'.wall = clock + 1)
      BY <2>2 DEF Tick, Now
    <3>2. CASE summaryTick # Never
      BY <1>2, <3>1, <3>2, ActivityAssumption DEF NextSummary, Times
    <3>3. CASE summaryTick = Never
      <4>1. NextSummary = clock /\ NextSummary' = clock + 1
        BY <3>1, <3>3 DEF NextSummary
      <4> QED BY <1>2, <4>1
    <3> QED BY <3>2, <3>3
  <2>3. ASSUME NEW n \in 1..SleepGap + 1, Suspend(n)
        PROVE  NextSummary <= NextSummary'
    <3>1. /\ clock' = clock + n /\ n \in Nat
          /\ summaryTick # Never => summaryTick' = summaryTick
          /\ summaryTick = Never => summaryTick' = Never \/ summaryTick'.wall = clock'
      BY <2>3, ActivityAssumption DEF Suspend
    <3>2. CASE summaryTick # Never
      BY <1>2, <3>1, <3>2, ActivityAssumption DEF NextSummary, Times
    <3>3. CASE summaryTick = Never
      <4>1. NextSummary = clock /\ NextSummary' = clock + n
        BY <3>1, <3>3 DEF NextSummary
      <4> QED BY <1>2, <3>1, <4>1
    <3> QED BY <3>2, <3>3
  <2>4. UNCHANGED vars => UNCHANGED <<clock, summaryTick>>
    BY DEF vars, clockVars
  <2> QED BY <2>1, <2>2, <2>3, <2>4
<1>4. Store \in Stores
  BY StoreInvFacts
<1> DEFINE x == NextSummary
           y == NextSummary'
<1> HIDE DEF x, y
<1>5. \A d \in Days : Worth(Store, x, d) \in Nat /\ Worth(Store, y, d) \in Nat
                      /\ Worth(Store, x, d) <= Worth(Store, y, d)
  BY <1>2, <1>3, <1>4, WorthIsNat, WorthLater DEF x, y
<1>6. \A d \in Days : /\ Worth(Store, NextSummary, d) \in Nat
                      /\ Worth(Store', NextSummary', d) \in Nat
                      /\ Worth(Store, NextSummary, d) <= Worth(Store', NextSummary', d)
  BY <1>1, <1>5 DEF x, y
<1>7. takenBack' \in BOOLEAN
  BY DEF ReportInv
<1> QED BY <1>1, <1>6, <1>7, NothingReported

\* A sample reports nothing and loses nothing a summary would report.
LEMMA SampleReports ==
  ASSUME TimeInv, StoreInv, FailuresInv, CleanState, StoreInv', ReportInv, GrownInv, Sample,
         UNCHANGED <<summaries, queued, takenBack>>
  PROVE  ReportInv' /\ GrownInv'
<1>1. NextSummary' = NextSummary
  BY DEF Sample, NextSummary
<1>2. Store \in Stores /\ Store' \in Stores
  <2>1. (StoreInv => Store \in Stores)'
    BY StoreInvFacts, PTL
  <2> QED BY <2>1, StoreInvFacts
<1>3. ASSUME failures' = 0
      PROVE  failures = 0 /\ \A d \in Days : Worth(Store, NextSummary, d) <= Worth(Store', NextSummary, d)
  <2>1. /\ up /\ sampleTick # Never
        /\ SampleFrom(Store, lastSample, sampleTick)
        /\ Len(activities) + 2 <= MaxSegments /\ Len(applications) + 1 <= MaxSegments
    BY DEF Sample, Room
  <2> DEFINE slept == LongGap(lastSample, sampleTick)
             last == lastSample.wall
             at == sampleTick.wall
  <2>2. PICK state \in Observed :
          SetStore(RecordObservation(SleepOf(Store, slept, last + 1, "none"), state, at, "none"))
    BY <1>3, <2>1, SampleFromClean
  <2>3. failures = 0
    BY <1>3, <2>1, SampleFromClean
  <2>4. slept => last + 1 \in Times
    BY <2>1, SleepBeforeSample
  <2>5. at \in Times /\ last \in Int
    <3>1. at \in 0..clock /\ clock \in 0..MaxTime
      BY <2>1 DEF TimeInv, ClockInv, Times
    <3> QED BY <3>1, InstantFields, ActivityAssumption DEF Times, TimeInv
  <2>6. CleanInv(Store, last)
    BY <2>3 DEF CleanState
  <2>7. /\ Store \in Stores /\ MemoryInv(Store) /\ Store.memory.session \in 1..MaxSessions
        /\ Len(Store.activities) + 2 <= MaxSegments /\ Len(Store.applications) + 1 <= MaxSegments
    BY <2>1, StoreInvFacts
  <2> HIDE DEF slept, last, at
  <2> DEFINE r == RecordObservation(SleepOf(Store, slept, last + 1, "none"), state, at, "none")
  <2>8. \A x \in Times, d \in Days : Worth(Store, x, d) <= Worth(r, x, d)
    BY <2>4, <2>5, <2>6, <2>7, SampleFinds
  <2>9. r \in Stores
    <3>1. "none" \in Failures
      BY DEF Failures
    <3>2. StoreKept(Store, r)
      BY <2>4, <2>5, <2>7, <3>1, SampledKeeps
    <3> QED BY <3>2 DEF StoreKept
  <2>10. Store' = r
    BY <2>2, <2>9, SetStoreIs
  <2> HIDE DEF r
  <2> QED BY <2>3, <2>8, <2>10, NextSummaryTime
<1>4. takenBack' \in BOOLEAN
  BY DEF ReportInv
<1>5. \A d \in Days : Worth(Store, NextSummary, d) \in Nat /\ Worth(Store', NextSummary, d) \in Nat
  BY <1>2, NextSummaryTime, WorthIsNat
<1> QED BY <1>1, <1>3, <1>4, <1>5, NothingReported

\* A store that remembers no segment is extended by nothing.
LEMMA ForgottenFinds ==
  ASSUME NEW s \in Stores, s.memory.activity = None, NEW x, NEW d
  PROVE  Worth(s, x, d) = Seconds(s.activities, Counted, d) + Len(s.activities)
  BY StoreFields, EndAtNone DEF Worth, Found

\* A start reports nothing and loses nothing a summary would report.
LEMMA RunReports ==
  ASSUME TimeInv, StoreInv, FailuresInv, CleanState, StoreInv', ReportInv, GrownInv, Run,
         UNCHANGED <<summaries, queued, takenBack>>
  PROVE  ReportInv' /\ GrownInv'
<1>1. NextSummary' = NextSummary
  BY DEF Run, clockVars, NextSummary
<1>2. Store \in Stores /\ Store' \in Stores
  <2>1. (StoreInv => Store \in Stores)'
    BY StoreInvFacts, PTL
  <2> QED BY <2>1, StoreInvFacts
<1>3. ASSUME failures' = 0
      PROVE  failures = 0 /\ \A d \in Days : Worth(Store, NextSummary, d) <= Worth(Store', NextSummary, d)
  <2> DEFINE m == FreshMemory(sessions')
             s == [Store EXCEPT !.memory = m]
  <2>1. /\ sessions' = WithNewSession(sessions, clock) /\ Len(sessions) < MaxSessions /\ ~up
        /\ SampleFrom(s, Never, Now)
        /\ Len(activities) + 2 <= MaxSegments /\ Len(applications) + 1 <= MaxSegments
    BY DEF Run, Room
  <2>2. /\ sessions \in Seq(Sessions) /\ clock \in Times
        /\ activities \in Seq(Segments) /\ applications \in Seq(Segments)
        /\ MaxSessions \in Nat /\ Len(sessions) \in Nat
    BY ActivityAssumption, LenProperties DEF TimeInv, StoreInv
  <2>3. Len(sessions') \in 1..MaxSessions /\ Len(sessions') = Len(sessions) + 1
    BY <2>1, <2>2, NewSessionOpen
  <2>4. m = [NoMemory EXCEPT !.session = Len(sessions')]
    BY DEF FreshMemory
  <2> HIDE DEF m
  <2>5. /\ m \in Memories /\ m.session = Len(sessions') /\ m.activity = None /\ m.application = None
        /\ m.state = "none"
    BY <2>3, <2>4, FreshIs
  <2>6. /\ s = [activities |-> activities, applications |-> applications, memory |-> m]
        /\ s \in Stores /\ MemoryInv(s)
    BY <2>2, <2>3, <2>4, FreshStore
  <2> HIDE DEF s
  <2>7. s.activities = activities /\ s.applications = applications /\ s.memory = m
    BY <2>6
  <2> DEFINE slept == LongGap(Never, Now)
             last == Never.wall
             at == Now.wall
  <2>8. PICK state \in Observed :
          SetStore(RecordObservation(SleepOf(s, slept, last + 1, "none"), state, at, "none"))
    BY <1>3, <2>1, SampleFromClean
  <2>9. failures = 0
    BY <1>3, <2>1, SampleFromClean
  <2>10. ~slept /\ at \in Times /\ last \in Int
    BY <2>2, NeverIs DEF LongGap, Now
  <2>11. CleanInv(s, last)
    <3>1. /\ Store \in Stores /\ CleanInv(Store, lastSample.wall)
          /\ Store.activities = activities /\ Store.applications = applications
      BY <2>9, StoreInvFacts DEF CleanState
    <3>2. \A i \in DOMAIN activities : activities[i].session # m.session
      <4>1. \A i \in DOMAIN activities : activities[i].session <= Len(sessions)
        BY StoreInvFacts
      <4> QED BY <2>2, <2>3, <2>5, <4>1
    <3>3. m.state # "active"
      BY <2>5
    <3> HIDE DEF last
    <3> QED BY <2>5, <2>7, <3>1, <3>2, <3>3, FreshClean
  <2> HIDE DEF slept, last, at
  <2>12. /\ s.memory.session \in 1..MaxSessions
         /\ Len(s.activities) + 2 <= MaxSegments /\ Len(s.applications) + 1 <= MaxSegments
    BY <2>1, <2>3, <2>5, <2>7
  <2> DEFINE r == RecordObservation(SleepOf(s, slept, last + 1, "none"), state, at, "none")
  <2>13. \A x \in Times, d \in Days : Worth(s, x, d) <= Worth(r, x, d)
    BY <2>6, <2>10, <2>11, <2>12, SampleFinds
  <2>14. r \in Stores
    <3>1. "none" \in Failures
      BY DEF Failures
    <3>2. StoreKept(s, r)
      BY <2>6, <2>10, <2>12, <3>1, SampledKeeps
    <3> QED BY <3>2 DEF StoreKept
  <2>15. Store' = r
    BY <2>8, <2>14, SetStoreIs
  <2> HIDE DEF r
  <2>16. \A x, d : Worth(Store, x, d) = Worth(s, x, d)
    <3>1. Store.memory.activity = None /\ Store.activities = activities
      BY <2>1, StoreInvFacts, NoMemoryIs DEF StoreInv, SessionInv, None
    <3>2. s.memory.activity = None
      BY <2>5, <2>7
    <3> QED BY <1>2, <2>6, <2>7, <3>1, <3>2, ForgottenFinds
  <2> QED BY <2>9, <2>13, <2>15, <2>16, NextSummaryTime
<1>4. takenBack' \in BOOLEAN
  BY DEF ReportInv
<1>5. \A d \in Days : Worth(Store, NextSummary, d) \in Nat /\ Worth(Store', NextSummary, d) \in Nat
  BY <1>2, NextSummaryTime, WorthIsNat
<1> QED BY <1>1, <1>3, <1>4, <1>5, NothingReported

\* A crash reports nothing; what it takes back is marked.
LEMMA CrashReports ==
  ASSUME TimeInv, StoreInv, TimeInv', StoreInv', ReportInv, GrownInv, Crash,
         takenBack' = (takenBack \/ \E d \in Days : Tracked(d) + Loss(d) < summaries[d].tracked),
         UNCHANGED <<summaries, queued>>
  PROVE  ReportInv' /\ GrownInv'
<1>1. ReportInv'
  BY DEF ReportInv
<1>2. SUFFICES ASSUME failures' = 0, ~takenBack'
               PROVE  /\ GrowInv(summaries, queued)
                      /\ \A d \in Days : Due(summaries[d]) <= Worth(Store', NextSummary', d)
  BY <1>1 DEF GrownInv
<1>3. failures = 0 /\ ~takenBack /\ \A d \in Days : ~(Tracked(d) + Loss(d) < summaries[d].tracked)
  BY <1>2 DEF Crash
<1>4. GrowInv(summaries, queued)
  BY <1>3 DEF GrownInv
<1>5. (StoreInv => Store \in Stores)'
  BY StoreInvFacts, PTL
<1>6. /\ Store'.activities = activities /\ Store'.memory.activity = None
      /\ activities \in Seq(Segments)
  <2>1. activities' = activities /\ memory' = NoMemory
    BY DEF Crash, EndProcess, tableVars
  <2> QED BY <2>1, NoMemoryIs DEF Store, StoreInv, None
<1>7. ASSUME NEW d \in Days
      PROVE  Due(summaries[d]) <= Worth(Store', NextSummary', d)
  <2>1. Worth(Store', NextSummary', d) = Tracked(d) + Len(activities)
    BY <1>5, <1>6, ForgottenFinds DEF Tracked, Counted
  <2>2. /\ Tracked(d) \in Nat /\ summaries[d].tracked \in Nat /\ summaries[d].segments \in Nat
        /\ Len(activities) \in Nat
    BY <1>6, SecondsAreNat, RowTotals, LenProperties DEF Tracked, ReportInv
  <2> QED BY <1>3, <2>1, <2>2 DEF Due, Loss
<1> QED BY <1>4, <1>7

\* The store is typed wherever the invariant holds.
LEMMA StoreIsTyped ==
  StoreInv => Store \in Stores /\ Store.activities = activities /\ Store.memory = memory
              /\ activities \in Seq(Segments)
  BY StoreInvFacts DEF StoreInv

\* A summary that was made has extended the segments; the process goes on.
LEMMA PrepareReports ==
  ASSUME TimeInv, StoreInv, FailuresInv, TimeInv', StoreInv', ReportInv, GrownInv,
         failures' = 0 => failures = 0,
         NEW result \in SummaryResults, PrepareDailySummary(result), Revise(result, summaryTick.wall),
         takenBack' = takenBack
  PROVE  ReportInv' /\ GrownInv'
<1> DEFINE at == summaryTick.wall
<1>1. at = NextSummary /\ NextSummary' = clock
  BY DEF PrepareDailySummary, NextSummary
<1>2. at \in Times /\ at <= clock /\ clock \in Times /\ at \in Int
  BY <1>1, NextSummaryTime, ActivityAssumption DEF Times
<1>3. Store \in Stores /\ Store.activities = activities
  BY StoreInvFacts
<1>4. activities' \in Seq(Segments)
  BY DEF StoreInv
<1>5. failures' = 0 => result = "done"
  BY ActivityAssumption DEF PrepareDailySummary, Fails, SummaryFailures, FailuresInv
<1>6. CASE result = "done"
  <2> DEFINE r == Extend(Store, at)
  <2>1. WriteRevision(at)
    BY <1>6 DEF Revise
  <2>2. SetStore(r)
    BY <1>6 DEF PrepareDailySummary, SummaryStore
  <2>3. /\ r \in Stores /\ r.memory = Store.memory
        /\ r.activities = EndAt(Store.activities, Store.memory.activity, at)
    <3>1. r \in Stores /\ r.memory = Store.memory
      BY <1>2, <1>3, ExtendRows
    <3> HIDE DEF at
    <3>2. r.activities = EndAt(Store.activities, Store.memory.activity, at)
      BY <1>2, <1>3, ExtendFields
    <3> QED BY <3>1, <3>2
  <2> HIDE DEF r, at
  <2>4. Store' = r /\ activities' = r.activities
    BY <2>2, <2>3, SetStoreIs DEF SetStore
  <2>5. Store.activities \in Seq(Segments) /\ Store.memory.activity \in Int
    BY <1>3, StoreFields
  <2>6. ASSUME NEW d \in Days
        PROVE  /\ Worth(Store', NextSummary', d) \in Nat
               /\ Seconds(activities', Counted, d) + Len(activities') <= Worth(Store', NextSummary', d)
    <3>1. EndAt(r.activities, r.memory.activity, clock)
            = EndAt(Store.activities, Store.memory.activity, clock)
      BY <1>2, <2>3, <2>5, EndAtTwice
    <3>2. Len(r.activities) = Len(Store.activities)
      BY <1>2, <2>3, <2>5, EndAtEffect
    <3>3. Worth(Store', NextSummary', d) = Worth(Store, clock, d)
      BY <1>1, <2>4, <3>1, <3>2 DEF Worth, Found
    <3>4. Seconds(activities', Counted, d) + Len(activities') = Worth(Store, at, d)
      BY <2>3, <2>4, <3>2 DEF Worth, Found
    <3>5. Worth(Store, at, d) <= Worth(Store, clock, d) /\ Worth(Store, clock, d) \in Nat
      BY <1>2, <1>3, WorthLater, WorthIsNat
    <3> QED BY <3>3, <3>4, <3>5
  <2>7. activities' = Extend(Store, at).activities
    BY <2>4 DEF r
  <2> QED BY <1>1, <1>2, <1>4, <2>1, <2>6, <2>7, Reported
<1>7. CASE result # "done"
  <2>1. UNCHANGED <<summaries, queued>>
    BY <1>7 DEF Revise, summaryVars
  <2> QED BY <1>5, <1>7, <2>1, NothingReported DEF ReportInv
<1> QED BY <1>6, <1>7

\* The segments are extended and then forgotten, in the next session or at the end.
LEMMA ForgottenReports ==
  ASSUME TimeInv, StoreInv, StoreInv', ReportInv, GrownInv, failures' = 0 => failures = 0,
         NEW result, Revise(result, clock), takenBack' = takenBack,
         failures' = 0 => /\ result = "done"
                          /\ activities' = Extend(Store, clock).activities
                          /\ memory'.activity = None
  PROVE  ReportInv' /\ GrownInv'
<1>1. (StoreInv => Store \in Stores /\ Store.activities = activities /\ Store.memory = memory
                   /\ activities \in Seq(Segments))'
  BY StoreIsTyped, PTL
<1>2. CASE result = "done"
  <2>1. WriteRevision(clock)
    BY <1>2 DEF Revise
  <2>2. ASSUME failures' = 0, NEW d \in Days
        PROVE  /\ Worth(Store', NextSummary', d) \in Nat
               /\ Seconds(activities', Counted, d) + Len(activities') <= Worth(Store', NextSummary', d)
    <3>1. Worth(Store', NextSummary', d) = Seconds(activities', Counted, d) + Len(activities')
      BY <1>1, <2>2, ForgottenFinds
    <3>2. Seconds(activities', Counted, d) \in Nat /\ Len(activities') \in Nat
      BY <1>1, SecondsAreNat, LenProperties
    <3> QED BY <3>1, <3>2
  <2> QED BY <1>1, <2>1, <2>2, NextSummaryTime, Reported
<1>3. CASE result # "done"
  <2>1. UNCHANGED <<summaries, queued>>
    BY <1>3 DEF Revise, summaryVars
  <2> QED BY <1>3, <2>1, NothingReported DEF ReportInv
<1> QED BY <1>2, <1>3

\* A logout reports the day with the segments it ended.
LEMMA LogoutReports ==
  ASSUME TimeInv, StoreInv, FailuresInv, StoreInv', ReportInv, GrownInv,
         failures' = 0 => failures = 0,
         NEW result \in SummaryResults, Logout(result), Revise(result, clock), takenBack' = takenBack
  PROVE  ReportInv' /\ GrownInv'
<1>1. ASSUME failures' = 0
      PROVE  /\ result = "done" /\ activities' = Extend(Store, clock).activities
             /\ memory'.activity = None
  <2> DEFINE r == Extend(Store, clock)
             m == FreshMemory(sessions')
  <2>1. ~Fails(1)
    BY <1>1, ActivityAssumption DEF Fails, FailuresInv
  <2>2. result = "done" /\ SetStore([r EXCEPT !.memory = m])
    BY <2>1 DEF Logout, SummaryStore
  <2>3. r \in Stores
    BY StoreInvFacts, NextSummaryTime, ExtendRows
  <2>4. m.activity = None
    BY DEF FreshMemory, NoMemory
  <2> HIDE DEF r, m
  <2>5. [r EXCEPT !.memory = m] = [activities |-> r.activities, applications |-> r.applications,
                                   memory |-> m]
    BY <2>3 DEF Stores
  <2>6. activities' = r.activities /\ memory' = m
    BY <2>2, <2>5 DEF SetStore
  <2> QED BY <2>2, <2>4, <2>6 DEF r
<1> QED BY <1>1, ForgottenReports

\* A shutdown reports the day with the segments it ended.
LEMMA ShutdownReports ==
  ASSUME TimeInv, StoreInv, FailuresInv, StoreInv', ReportInv, GrownInv,
         failures' = 0 => failures = 0,
         NEW result \in SummaryResults, Shutdown(result), Revise(result, clock), takenBack' = takenBack
  PROVE  ReportInv' /\ GrownInv'
<1>1. ASSUME failures' = 0
      PROVE  /\ result = "done" /\ activities' = Extend(Store, clock).activities
             /\ memory'.activity = None
  <2>1. result = "done"
    BY <1>1, ActivityAssumption DEF Shutdown, Fails, SummaryFailures, FailuresInv
  <2>2. activities' = SummaryStore(clock, result).activities /\ memory' = NoMemory
    BY DEF Shutdown, EndProcess
  <2> QED BY <2>1, <2>2, NoMemoryIs DEF SummaryStore, None
<1> QED BY <1>1, ForgottenReports

\* No day has a row when the system starts.
LEMMA RevisionStart == DayInit => ReportInv /\ GrownInv
<1> SUFFICES ASSUME DayInit PROVE ReportInv /\ GrownInv
  OBVIOUS
<1> DEFINE row == [revision |-> 0, active |-> 0, tracked |-> 0, segments |-> 0]
<1>1. /\ summaries = [d \in Days |-> row] /\ queued = {} /\ takenBack = FALSE
  BY DEF DayInit
<1>2. \A d \in Days : Due(summaries[d]) = 0
  BY <1>1 DEF Due
<1>3. summaries \in DayRows
  BY <1>1 DEF DayRows, Totals
<1>4. RowInv(summaries, queued) /\ GrowInv(summaries, queued)
  BY <1>1, <1>3 DEF RowInv, GrowInv
<1>5. TimeInv /\ StoreInv
  BY TimeStart, StoreStart DEF DayInit
<1>6. \A d \in Days : Due(summaries[d]) <= Worth(Store, NextSummary, d)
  <2>1. \A d \in Days : Worth(Store, NextSummary, d) \in Nat
    BY <1>5, StoreInvFacts, NextSummaryTime, WorthIsNat
  <2> QED BY <1>2, <2>1
<1> QED BY <1>1, <1>4, <1>6 DEF ReportInv, GrownInv

\* Every step keeps the two parts of the revisions' invariant.
LEMMA RevisionStep ==
  ActivityInv /\ ReportInv /\ GrownInv /\ [DayNext]_dayVars => ReportInv' /\ GrownInv'
<1> SUFFICES ASSUME ActivityInv, ReportInv, GrownInv, [DayNext]_dayVars
             PROVE  ReportInv' /\ GrownInv'
  OBVIOUS
<1>1. [Next]_vars
  BY DEF DayNext, dayVars, Next
<1>2. TimeInv /\ StoreInv /\ FailuresInv /\ CleanState
  BY ActivityInvParts
<1>3. TimeInv' /\ StoreInv'
  BY <1>1, <1>2, TimeStep, StoreStep
<1>4. failures' = 0 => failures = 0
  BY <1>1, <1>2, FailuresClean
<1>5. CASE UNCHANGED <<summaries, queued, takenBack>> /\ UNCHANGED vars
  BY <1>2, <1>3, <1>5, WaitReports
<1>6. CASE /\ Tick \/ (\E n \in 1..SleepGap + 1 : Suspend(n)) \/ Run \/ Sample
           /\ UNCHANGED <<summaryVars, takenBack>>
  <2>1. UNCHANGED <<summaries, queued, takenBack>>
    BY <1>6 DEF summaryVars
  <2> QED BY <1>2, <1>3, <1>6, <2>1, WaitReports, RunReports, SampleReports
<1>7. CASE Crash /\ UNCHANGED summaryVars
           /\ takenBack' = (takenBack \/ \E d \in Days : Tracked(d) + Loss(d) < summaries[d].tracked)
  <2>1. UNCHANGED <<summaries, queued>>
    BY <1>7 DEF summaryVars
  <2> QED BY <1>2, <1>3, <1>7, <2>1, CrashReports
<1>8. ASSUME NEW r \in SummaryResults, takenBack' = takenBack,
             \/ PrepareDailySummary(r) /\ Revise(r, summaryTick.wall)
             \/ Logout(r) /\ Revise(r, clock)
             \/ Shutdown(r) /\ Revise(r, clock)
      PROVE  ReportInv' /\ GrownInv'
  BY <1>2, <1>3, <1>4, <1>8, PrepareReports, LogoutReports, ShutdownReports
<1> QED BY <1>5, <1>6, <1>7, <1>8 DEF DayNext, dayVars, summaryVars

\* The revisions' invariant in the parts the proofs use.
LEMMA RevisionInvParts ==
  ActivityInv => (RevisionInv <=> ReportInv /\ GrownInv)
<1> SUFFICES ASSUME ActivityInv PROVE RevisionInv <=> ReportInv /\ GrownInv
  OBVIOUS
<1>1. TypeOK /\ Store.activities = activities /\ Store.memory = memory
  BY ActivityInvParts, StoreInvFacts DEF ActivityInv
<1>2. \A d \in Days : Upcoming(d) = Found(Store, NextSummary, d)
  BY <1>1 DEF Upcoming, Found, Counted
<1>3. SummaryTypeOK /\ (\A q \in queued : q.revision <= summaries[q.day].revision) <=> ReportInv
  BY <1>1 DEF SummaryTypeOK, DayRows, ReportInv, RowInv
<1>4. SUFFICES ASSUME ReportInv
               PROVE  /\ GrowInv(summaries, queued) <=>
                           /\ \A q, r \in queued : q.day = r.day /\ q.revision < r.revision =>
                                q.tracked <= r.tracked + (r.segments - q.segments)
                           /\ \A q \in queued : q.tracked <= summaries[q.day].tracked
                                                             + (summaries[q.day].segments - q.segments)
                      /\ \A d \in Days : Due(summaries[d]) <= Worth(Store, NextSummary, d)
                                           <=> summaries[d].tracked <= Upcoming(d) + Loss(d)
  BY <1>3 DEF RevisionInv, GrownInv, RevisionsGrow
<1>5. \A q \in queued : q.day \in Days /\ q.tracked \in Nat /\ q.segments \in Nat
  BY <1>4, RevisionFields DEF ReportInv, RowInv
<1>6. \A d \in Days : summaries[d].tracked \in Nat /\ summaries[d].segments \in Nat
  BY <1>4, RowTotals DEF ReportInv
<1>7. \A q, r \in queued :
        Due(q) <= Due(r) <=> q.tracked <= r.tracked + (r.segments - q.segments)
  BY <1>5 DEF Due
<1>8. \A q \in queued :
        Due(q) <= Due(summaries[q.day]) <=>
          q.tracked <= summaries[q.day].tracked + (summaries[q.day].segments - q.segments)
  BY <1>5, <1>6 DEF Due
<1>9. ASSUME NEW d \in Days
      PROVE  Due(summaries[d]) <= Worth(Store, NextSummary, d)
               <=> summaries[d].tracked <= Upcoming(d) + Loss(d)
  <2>1. Store \in Stores /\ NextSummary \in Times
    BY ActivityInvParts, StoreInvFacts, NextSummaryTime
  <2>2. /\ Found(Store, NextSummary, d) \in Nat /\ Len(activities) \in Nat
        /\ Worth(Store, NextSummary, d) = Found(Store, NextSummary, d) + Len(activities)
    BY <1>1, <2>1, WorthIsNat DEF Worth
  <2> QED BY <1>2, <1>6, <2>2 DEF Due, Loss
<1> QED BY <1>7, <1>8, <1>9 DEF GrowInv

\* The row of a day holds its latest revision and, while no transaction fails and no
\* crash takes time back, no less than the earlier revisions and no more than the
\* segments will hold when the next summary has extended them, but for a second at
\* most for each segment opened since.
THEOREM RevisionAlways == DaySpec => []RevisionInv
<1>1. DaySpec => []ActivityInv
  BY SummariesImplementActivity, ActivityAlways, PTL
<1>2. ActivityInv /\ ReportInv /\ GrownInv => RevisionInv
  BY RevisionInvParts
<1> QED BY <1>1, <1>2, RevisionStart, RevisionStep, PTL DEF DaySpec

\* While no transaction fails and no crash takes time back, a later revision of a day
\* counts no less time than an earlier one, but for a second at most for each segment
\* opened in between.
THEOREM RevisionsAlwaysGrow == DaySpec => []RevisionsGrow
<1>1. RevisionInv => RevisionsGrow
  BY DEF RevisionInv, RevisionsGrow
<1> QED BY <1>1, RevisionAlways, PTL
=============================================================================
