-------------------------- MODULE LogoutFlowProofs --------------------------
(***************************************************************************)
(* Proofs about the Outbox and LogoutFlow, for any rows, any batch size    *)
(* and any number of logouts.  A logout only steers the outbox             *)
(* (LogoutKeepsOutbox), so what is proved of the Outbox in the first part  *)
(* holds of LogoutFlow too; LogoutInv adds where the steering stands.      *)
(***************************************************************************)
EXTENDS LogoutFlow, FiniteSetTheorems, TLAPS

-----------------------------------------------------------------------------
\* The outbox.

USE DEF vars, tableVars, callVars, lifeVars, serverVars

\* Every variable keeps its type in every step.
LEMMA TypeStep == TypeOK /\ [Next]_vars => TypeOK'
<1> SUFFICES ASSUME TypeOK, [Next]_vars PROVE TypeOK'
  OBVIOUS
<1> USE DEF TypeOK, Status, Answers, Retryable, Rejection, InStatus, SetStatus, FlushReturns
<1>1. CASE RecoverProcessing
  BY <1>1 DEF RecoverProcessing
<1>2. CASE RequeueAuthenticationFailures
  <2>1. status' \in [Items -> Status]
    BY <1>2 DEF RequeueAuthenticationFailures
  <2>2. due' \in [Items -> BOOLEAN] /\ unauthorized' \in [Items -> BOOLEAN]
    BY <1>2 DEF RequeueAuthenticationFailures
  <2> QED
    BY <1>2, <2>1, <2>2 DEF RequeueAuthenticationFailures
<1>3. CASE PurgeExpired
  BY <1>3 DEF PurgeExpired
<1>4. CASE SkipRepairs
  BY <1>4 DEF SkipRepairs
<1>5. CASE Stop
  BY <1>5 DEF Stop, Cancel, BeginShutdown, ProcessEnds
<1>6. ASSUME NEW i \in Items, Queue(i) PROVE TypeOK'
  BY <1>6 DEF Queue
<1>16. ASSUME NEW i \in Items, TimePasses(i) PROVE TypeOK'
  BY <1>16 DEF TimePasses
<1>7. ASSUME NEW B \in SUBSET Items, FlushClaim(B) PROVE TypeOK'
  BY <1>7 DEF FlushClaim
<1>8. CASE FlushFindsNothing \/ FlushClaimFails
  BY <1>8 DEF FlushFindsNothing, FlushClaimFails
<1>9. ASSUME NEW a \in Answers, NEW S \in SUBSET Items, Exchange(a, S) PROVE TypeOK'
  BY <1>9 DEF Exchange
<1>10. ASSUME NEW S \in SUBSET Items, LateArrival(S) PROVE TypeOK'
  BY <1>10 DEF LateArrival
<1>11. CASE MarkSynced
  BY <1>11 DEF MarkSynced
<1>12. CASE MarkRetry
  BY <1>12 DEF MarkRetry
<1>13. CASE MarkPermanentFailure
  BY <1>13 DEF MarkPermanentFailure
<1>14. CASE MarkFails
  BY <1>14 DEF MarkFails
<1>15. CASE UNCHANGED vars
  BY <1>15
<1> QED
  BY <1>1, <1>2, <1>3, <1>4, <1>5, <1>6, <1>7, <1>8, <1>9, <1>10, <1>11, <1>12, <1>13,
     <1>14, <1>15, <1>16 DEF Next, Start, Flush, Mark

\* The initial state has its type and satisfies the inductive invariant: no
\* row exists, so none is claimed or stored.
LEMMA InitInv == Init => OutboxInv
BY DEF Init, OutboxInv, TypeOK, NothingLost, ClaimsAreOwned, InStatus, Status, Answers

\* The start-up repairs keep the inductive invariant: recovery releases every
\* claimed row, the purge takes synced rows only.
LEMMA StartStep == OutboxInv /\ Start => OutboxInv'
<1> SUFFICES ASSUME OutboxInv, Start PROVE OutboxInv'
  OBVIOUS
<1>0. TypeOK'
  BY TypeStep DEF OutboxInv, Next
<1> USE DEF OutboxInv, TypeOK, NothingLost, ClaimsAreOwned, InStatus, SetStatus, Status
<1>1. CASE RecoverProcessing
  BY <1>0, <1>1 DEF RecoverProcessing
<1>2. CASE RequeueAuthenticationFailures
  BY <1>0, <1>2 DEF RequeueAuthenticationFailures
<1>3. CASE PurgeExpired
  BY <1>0, <1>3 DEF PurgeExpired
<1>4. CASE SkipRepairs
  BY <1>0, <1>4 DEF SkipRepairs
<1> QED
  BY <1>1, <1>2, <1>3, <1>4 DEF Start

\* Cancelling, shutting down and dying keep it: a dead process owns no call.
LEMMA StopStep == OutboxInv /\ Stop => OutboxInv'
<1> SUFFICES ASSUME OutboxInv, Stop PROVE OutboxInv'
  OBVIOUS
<1>0. TypeOK'
  BY TypeStep DEF OutboxInv, Next
<1> USE DEF OutboxInv, TypeOK, NothingLost, ClaimsAreOwned, InStatus
<1>1. CASE Cancel
  BY <1>0, <1>1 DEF Cancel
<1>2. CASE BeginShutdown
  BY <1>0, <1>2 DEF BeginShutdown
<1>3. CASE ProcessEnds
  BY <1>0, <1>3 DEF ProcessEnds
<1> QED
  BY <1>1, <1>2, <1>3 DEF Stop

\* Claiming takes rows no call owns; the exchange stores rows of the batch.
LEMMA FlushStep == OutboxInv /\ Flush => OutboxInv'
<1> SUFFICES ASSUME OutboxInv, Flush PROVE OutboxInv'
  OBVIOUS
<1>0. TypeOK'
  BY TypeStep DEF OutboxInv, Next
<1> USE DEF OutboxInv, TypeOK, NothingLost, ClaimsAreOwned, InStatus, SetStatus, FlushReturns, CanFlush
<1>1. ASSUME NEW B \in SUBSET Items, FlushClaim(B) PROVE OutboxInv'
  <2>1. \A i \in B : status[i] \in {"pending", "retry"}
    BY <1>1 DEF FlushClaim, Selection, Ready
  <2>2. batch = {} /\ answer = "none" /\ agent = "running"
    BY <1>1 DEF FlushClaim
  <2>3. InStatus("processing")' = B \cup stranded
    BY <1>1, <2>2 DEF FlushClaim
  <2>4. ClaimsAreOwned'
    BY <1>1, <2>1, <2>2, <2>3 DEF FlushClaim
  <2>5. NothingLost'
    BY <1>1, <2>1 DEF FlushClaim
  <2> QED
    BY <1>0, <1>1, <2>1, <2>2, <2>3, <2>4, <2>5 DEF FlushClaim
<1>2. CASE FlushFindsNothing \/ FlushClaimFails
  BY <1>0, <1>2 DEF FlushFindsNothing, FlushClaimFails
<1>3. ASSUME NEW a \in Answers, NEW S \in SUBSET Items, Exchange(a, S) PROVE OutboxInv'
  BY <1>0, <1>3 DEF Exchange
<1>4. CASE MarkSynced
  BY <1>0, <1>4 DEF MarkSynced
<1>5. CASE MarkRetry
  BY <1>0, <1>5 DEF MarkRetry, Retryable
<1>6. CASE MarkPermanentFailure
  BY <1>0, <1>6 DEF MarkPermanentFailure, Rejection
<1>7. CASE MarkFails
  BY <1>0, <1>7 DEF MarkFails
<1> QED
  BY <1>1, <1>2, <1>3, <1>4, <1>5, <1>6, <1>7 DEF Flush, Mark

\* The inductive invariant is kept by every step.
LEMMA InvStep == OutboxInv /\ [Next]_vars => OutboxInv'
<1> SUFFICES ASSUME OutboxInv, [Next]_vars PROVE OutboxInv'
  OBVIOUS
<1>0. TypeOK'
  BY TypeStep DEF OutboxInv
<1> USE DEF OutboxInv, TypeOK, NothingLost, ClaimsAreOwned, InStatus, SetStatus
<1>1. ASSUME NEW i \in Items, Queue(i) PROVE OutboxInv'
  <2>1. i \notin accepted \cup abandoned
    BY <1>1 DEF Queue
  <2> QED
    BY <1>0, <1>1, <2>1 DEF Queue
<1>2. ASSUME NEW i \in Items, TimePasses(i) PROVE OutboxInv'
  BY <1>0, <1>2 DEF TimePasses
<1>3. ASSUME NEW S \in SUBSET Items, LateArrival(S) PROVE OutboxInv'
  BY <1>0, <1>3 DEF LateArrival
<1>4. CASE UNCHANGED vars
  BY <1>0, <1>4
<1> QED
  BY <1>1, <1>2, <1>3, <1>4, StartStep, StopStep, FlushStep DEF Next

\* The inductive invariant holds in every reachable state: by induction along the
\* behaviour, from InitInv and InvStep.
THEOREM OutboxAlways == Spec => []OutboxInv
BY InitInv, InvStep, PTL DEF Spec

\* Every reachable state has its type, for any rows and any batch size.
THEOREM OutboxTypeOK == Spec => []TypeOK
<1>1. OutboxInv => TypeOK
  BY DEF OutboxInv
<1> QED
  BY <1>1, OutboxAlways, PTL

\* No answer, lost or late request, failed statement, crash or purge makes the
\* agent consider a record uploaded, or forget it, that the server has not
\* stored.
THEOREM RowsAreNeverLost == Spec => []NothingLost
<1>1. OutboxInv => NothingLost
  BY DEF OutboxInv
<1> QED
  BY <1>1, OutboxAlways, PTL

\* A living process owns every claimed row: no row is left claimed by an
\* earlier process, none belongs to two calls.
THEOREM ClaimedRowsAreOwned == Spec => []ClaimsAreOwned
<1>1. OutboxInv => ClaimsAreOwned
  BY DEF OutboxInv
<1> QED
  BY <1>1, OutboxAlways, PTL

\* One step respects the life of closed rows: marks touch claimed rows only,
\* and only the start re-queues refused ones.
LEMMA ClosedStep ==
  ASSUME OutboxInv, [Next]_vars, NEW i \in Items
  PROVE  /\ status[i] = "synced" => status'[i] \in {"synced", "purged"}
         /\ status[i] = "purged" => status'[i] = "purged"
         /\ status[i] = "permanently-failed" =>
              \/ status'[i] = "permanently-failed"
              \/ status'[i] = "retry" /\ unauthorized[i] /\ agent = "recovered"
<1> DEFINE Respects ==
      /\ status[i] = "synced" => status'[i] \in {"synced", "purged"}
      /\ status[i] = "purged" => status'[i] = "purged"
      /\ status[i] = "permanently-failed" =>
           \/ status'[i] = "permanently-failed"
           \/ status'[i] = "retry" /\ unauthorized[i] /\ agent = "recovered"
<1>0. i \in batch => status[i] = "processing"
  BY DEF OutboxInv, InStatus
<1> USE DEF InStatus, SetStatus
<1>1. CASE Start
  BY <1>1 DEF Start, RecoverProcessing, RequeueAuthenticationFailures, PurgeExpired, SkipRepairs
<1>2. CASE Stop
  BY <1>2 DEF Stop, Cancel, BeginShutdown, ProcessEnds
<1>3. ASSUME NEW j \in Items, Queue(j) \/ TimePasses(j) PROVE Respects
  BY <1>3 DEF Queue, TimePasses
<1>4. CASE Flush
  <2>1. ASSUME NEW B \in SUBSET Items, FlushClaim(B) PROVE Respects
    BY <2>1 DEF FlushClaim, Selection, Ready
  <2>2. CASE FlushFindsNothing \/ FlushClaimFails
    BY <2>2 DEF FlushFindsNothing, FlushClaimFails
  <2>3. ASSUME NEW a \in Answers, NEW S \in SUBSET Items, Exchange(a, S) PROVE Respects
    BY <2>3 DEF Exchange
  <2>4. CASE Mark
    BY <1>0, <2>4 DEF Mark, MarkSynced, MarkRetry, MarkPermanentFailure, MarkFails
  <2> QED
    BY <1>4, <2>1, <2>2, <2>3, <2>4 DEF Flush
<1>5. ASSUME NEW S \in SUBSET Items, LateArrival(S) PROVE Respects
  BY <1>5 DEF LateArrival
<1>6. CASE UNCHANGED vars
  BY <1>6
<1> QED
  BY <1>1, <1>2, <1>3, <1>4, <1>5, <1>6 DEF Next

\* An uploaded row is never sent again, and a refused one comes back only at a
\* start and only if it was refused for the credential.
THEOREM ClosedStaysClosed == Spec => ClosedRowsStayClosed
<1> DEFINE Respects ==
      \A i \in Items :
        /\ status[i] = "synced" => status'[i] \in {"synced", "purged"}
        /\ status[i] = "purged" => status'[i] = "purged"
        /\ status[i] = "permanently-failed" =>
             \/ status'[i] = "permanently-failed"
             \/ status'[i] = "retry" /\ unauthorized[i] /\ agent = "recovered"
<1>1. OutboxInv /\ [Next]_vars => [Respects]_vars
  BY ClosedStep
<1>2. Spec => [][Respects]_vars
  BY <1>1, OutboxAlways, PTL DEF Spec
<1> QED
  BY <1>2 DEF ClosedRowsStayClosed

-----------------------------------------------------------------------------
\* A row that cannot be decoded.

\* The rows of the table.
Queued == {i \in Items : status[i] # "unborn"}

\* The table is finite: one statement inserts one row.
LEMMA TableStep ==
  ASSUME OutboxInv, IsFiniteSet(Queued), [Next]_vars
  PROVE  IsFiniteSet(Queued')
<1>0. TypeOK /\ batch \subseteq InStatus("processing")
  BY DEF OutboxInv
<1> USE <1>0 DEF TypeOK, InStatus, SetStatus, FlushReturns
<1>1. CASE \E i \in Items : Queue(i)
  <2>1. PICK i \in Items : Queue(i)
    BY <1>1
  <2>2. Queued' = Queued \cup {i}
    BY <2>1 DEF Queue, Queued
  <2> QED BY <2>2, FS_AddElement
<1>2. Queued' \subseteq Queued \/ \E i \in Items : Queue(i)
  <2>1. CASE Start
    BY <2>1 DEF Queued, Start, RecoverProcessing, RequeueAuthenticationFailures, PurgeExpired, SkipRepairs
  <2>2. CASE Stop
    BY <2>2 DEF Queued, Stop, Cancel, BeginShutdown, ProcessEnds
  <2>3. CASE Flush
    <3>1. CASE \E B \in SUBSET Items : FlushClaim(B)
      <4>1. PICK B \in SUBSET Items : FlushClaim(B)
        BY <3>1
      <4>2. \A i \in B : status[i] \in {"pending", "retry"}
        BY <4>1 DEF FlushClaim, Selection, Ready
      <4> QED BY <4>1, <4>2 DEF FlushClaim, Queued
    <3>2. CASE FlushFindsNothing \/ FlushClaimFails
      BY <3>2 DEF Queued, FlushFindsNothing, FlushClaimFails
    <3>3. CASE \E a \in Answers, S \in SUBSET Items : Exchange(a, S)
      BY <3>3 DEF Queued, Exchange
    <3>4. CASE Mark
      BY <3>4 DEF Queued, Mark, MarkSynced, MarkRetry, MarkPermanentFailure, MarkFails
    <3> QED BY <2>3, <3>1, <3>2, <3>3, <3>4 DEF Flush
  <2>4. CASE (\E i \in Items : TimePasses(i)) \/ (\E S \in SUBSET Items : LateArrival(S)) \/ UNCHANGED vars
    BY <2>4 DEF Queued, TimePasses, LateArrival
  <2> QED BY <2>1, <2>2, <2>3, <2>4 DEF Next
<1> QED BY <1>1, <1>2, FS_Subset

\* A claim that takes as many rows as are ready takes all of them.
LEMMA SelectsAll ==
  ASSUME IsFiniteSet(Queued), NEW B \in Selection, Cardinality(Ready) <= BatchSize
  PROVE  B = Ready
<1>1. Ready \subseteq Queued
  BY DEF Ready, InStatus, Queued
<1>2. IsFiniteSet(Ready)
  BY <1>1, FS_Subset
<1>3. B \in SUBSET Ready /\ Cardinality(B) = Cardinality(Ready)
  BY <1>2, FS_CardinalityType, BatchSizeAssumption DEF Selection
<1> QED BY <1>2, <1>3, FS_Subset

\* What a waiting row that cannot be decoded keeps from happening.
UndecodableBlocks ==
  (\E u \in Undecodable : status[u] = "pending") =>
    /\ Cardinality(Ready) <= BatchSize => InStatus("processing")' \subseteq InStatus("processing")
    /\ ~FlushFindsNothing

\* Only a claim adds a claimed row.
LEMMA BlockedStep ==
  ASSUME OutboxInv, IsFiniteSet(Queued), [Next]_vars
  PROVE  [UndecodableBlocks]_vars
<1>0. TypeOK
  BY DEF OutboxInv
<1> SUFFICES ASSUME NEW u \in Undecodable, status[u] = "pending"
             PROVE  /\ Cardinality(Ready) <= BatchSize =>
                         InStatus("processing")' \subseteq InStatus("processing")
                    /\ ~FlushFindsNothing
  BY DEF UndecodableBlocks
<1>1. u \in Ready
  BY UndecodableAssumption DEF Ready, InStatus
<1>5. ~FlushFindsNothing
  BY <1>1 DEF FlushFindsNothing
<1>2. CASE \E B \in SUBSET Items : FlushClaim(B)
  <2>1. PICK B \in SUBSET Items : FlushClaim(B)
    BY <1>2
  <2>2. B \in Selection /\ u \notin B
    BY <2>1 DEF FlushClaim
  <2>3. ~(Cardinality(Ready) <= BatchSize)
    BY <1>1, <2>2, SelectsAll
  <2> QED BY <1>5, <2>1, <2>3 DEF FlushClaim
<1>4. CASE \/ FlushClaimFails \/ Mark \/ Start \/ Stop \/ UNCHANGED vars
           \/ \E a \in Answers, S \in SUBSET Items : Exchange(a, S)
           \/ \E i \in Items : Queue(i) \/ TimePasses(i)
           \/ \E S \in SUBSET Items : LateArrival(S)
  <2> USE <1>0 DEF TypeOK, InStatus, SetStatus, FlushReturns
  <2>1. CASE FlushClaimFails \/ UNCHANGED vars
    BY <1>5, <2>1 DEF FlushClaimFails
  <2>2. CASE Mark
    BY <1>5, <2>2 DEF Mark, MarkSynced, MarkRetry, MarkPermanentFailure, MarkFails
  <2>3. CASE Start
    BY <1>5, <2>3 DEF Start, RecoverProcessing, RequeueAuthenticationFailures, PurgeExpired, SkipRepairs
  <2>4. CASE Stop
    BY <1>5, <2>4 DEF Stop, Cancel, BeginShutdown, ProcessEnds
  <2>5. CASE \/ \E a \in Answers, S \in SUBSET Items : Exchange(a, S)
             \/ \E i \in Items : Queue(i) \/ TimePasses(i)
             \/ \E S \in SUBSET Items : LateArrival(S)
    BY <1>5, <2>5 DEF Exchange, Queue, TimePasses, LateArrival
  <2> QED BY <1>4, <2>1, <2>2, <2>3, <2>4, <2>5
<1> QED BY <1>2, <1>4, <1>5 DEF Next, Flush

\* The table never holds infinitely many rows.
LEMMA TableIsFinite == Spec => []IsFiniteSet(Queued)
<1>1. Init => IsFiniteSet(Queued)
  <2>1. Init => Queued = {}
    BY DEF Init, Queued
  <2> QED BY <2>1, FS_EmptySet
<1>2. OutboxInv /\ IsFiniteSet(Queued) /\ [Next]_vars => IsFiniteSet(Queued)'
  BY TableStep
<1> QED BY <1>1, <1>2, OutboxAlways, PTL DEF Spec

\* While a row that cannot be decoded waits, no call finds the outbox empty, and once
\* the waiting rows fit in one batch nothing is uploaded (ClaimReadyBatch rolls back).
THEOREM UndecodableRowsBlock == Spec => UndecodableBlocksUploads
<1>1. OutboxInv /\ IsFiniteSet(Queued) /\ [Next]_vars => [UndecodableBlocks]_vars
  BY BlockedStep
<1>2. Spec => [][UndecodableBlocks]_vars
  BY <1>1, OutboxAlways, TableIsFinite, PTL DEF Spec
<1> QED BY <1>2 DEF UndecodableBlocksUploads, UndecodableBlocks

-----------------------------------------------------------------------------
(***************************************************************************)
(* The refinement of Delivery.                                             *)
(***************************************************************************)

\* What deviceView says of a row of each status.
LEMMA DeviceOf ==
  ASSUME NEW i \in Items
  PROVE  /\ status[i] = "unborn" => deviceView[i] = "none"
         /\ status[i] = "synced" => deviceView[i] = "closed"
         /\ status[i] = "purged" => deviceView[i] = "deleted"
         /\ status[i] \notin {"unborn", "synced", "purged"} => deviceView[i] = "held"
BY DEF deviceView

\* A step that moves no row between the classes of deviceView leaves it alone.
LEMMA DeviceUnchanged ==
  ASSUME \A i \in Items : deviceView'[i] = deviceView[i]
  PROVE  deviceView' = deviceView
BY DEF deviceView

\* A step that moves exactly the rows of S to one class is an Update of Delivery.
LEMMA DeviceUpdate ==
  ASSUME NEW S, NEW k,
         \A i \in Items : deviceView'[i] = IF i \in S THEN k ELSE deviceView[i]
  PROVE  D!Update(S, k)
BY DEF deviceView, D!Update

\* The outbox starts as Delivery does: nothing recorded, nothing stored.
LEMMA DeliveryInit == Init => D!DeliveryInit
BY DEF Init, D!DeliveryInit, deviceView

\* Every step of the outbox is a step of Delivery or changes nothing of it.
LEMMA DeliveryStep == OutboxInv /\ [Next]_vars => [D!DeliveryNext]_D!dvars
<1> SUFFICES ASSUME OutboxInv, [Next]_vars PROVE D!DeliveryNext \/ UNCHANGED D!dvars
  OBVIOUS
<1>0. \A i \in batch : status[i] = "processing"
  BY DEF OutboxInv, InStatus
<1> DEFINE Stutters == deviceView' = deviceView /\ UNCHANGED accepted
<1>a. Stutters => UNCHANGED D!dvars
  BY DEF D!dvars
<1> USE DEF InStatus, SetStatus
<1>1. CASE Start
  <2>1. CASE PurgeExpired
    <3>1. PICK expired \in SUBSET InStatus("synced") : SetStatus(expired, "purged")
      BY <2>1 DEF PurgeExpired
    <3>2. \A i \in Items : deviceView'[i] = IF i \in expired THEN "deleted" ELSE deviceView[i]
      BY <3>1 DEF deviceView
    <3>3. D!Update(expired, "deleted")
      BY <3>2, DeviceUpdate
    <3>4. \A r \in expired : deviceView[r] = "closed"
      BY <3>1, DeviceOf
    <3> QED
      BY <2>1, <3>1, <3>3, <3>4 DEF D!DeliveryNext, D!Delete, PurgeExpired
  <2>2. CASE RecoverProcessing \/ RequeueAuthenticationFailures \/ SkipRepairs
    <3>1. \A i \in Items : deviceView'[i] = deviceView[i]
      BY <2>2 DEF deviceView, RecoverProcessing, RequeueAuthenticationFailures, SkipRepairs
    <3> QED
      BY <2>2, <3>1, <1>a, DeviceUnchanged DEF RecoverProcessing, RequeueAuthenticationFailures, SkipRepairs
  <2> QED
    BY <1>1, <2>1, <2>2 DEF Start
<1>2. CASE Stop
  BY <1>2, <1>a DEF Stop, Cancel, BeginShutdown, ProcessEnds, deviceView
<1>3. ASSUME NEW i \in Items, Queue(i) PROVE D!DeliveryNext
  <2>1. \A j \in Items : deviceView'[j] = IF j \in {i} THEN "held" ELSE deviceView[j]
    BY <1>3 DEF Queue, deviceView
  <2>2. D!Update({i}, "held")
    BY <2>1, DeviceUpdate
  <2>3. D!Make(i)
    BY <1>3, <2>2, DeviceOf DEF Queue, D!Make
  <2> QED
    BY <2>3 DEF D!DeliveryNext
<1>4. ASSUME NEW i \in Items, TimePasses(i) PROVE Stutters
  BY <1>4 DEF TimePasses, deviceView
<1>5. CASE Flush
  <2>1. ASSUME NEW B \in SUBSET Items, FlushClaim(B) PROVE Stutters
    <3>1. \A i \in B : status[i] \in {"pending", "retry"}
      BY <2>1 DEF FlushClaim, Selection, Ready
    <3>2. \A i \in Items : deviceView'[i] = deviceView[i]
      BY <2>1, <3>1 DEF FlushClaim, deviceView
    <3> QED
      BY <2>1, <3>2, DeviceUnchanged DEF FlushClaim
  <2>2. CASE FlushFindsNothing \/ FlushClaimFails \/ MarkFails
    BY <2>2, <1>a DEF FlushFindsNothing, FlushClaimFails, MarkFails, deviceView
  <2>3. ASSUME NEW a \in Answers, NEW S \in SUBSET Items, Exchange(a, S) PROVE D!DeliveryNext
    <3>1. D!Store(S)
      BY <1>0, <2>3, DeviceOf DEF Exchange, D!Store, deviceView
    <3> QED
      BY <3>1 DEF D!DeliveryNext
  <2>4. CASE MarkSynced
    <3>1. \A i \in Items : deviceView'[i] = IF i \in batch THEN "closed" ELSE deviceView[i]
      BY <2>4 DEF MarkSynced, deviceView
    <3>2. D!Update(batch, "closed")
      BY <3>1, DeviceUpdate
    <3>3. batch \in SUBSET Items /\ batch \subseteq accepted
      BY <2>4 DEF MarkSynced, OutboxInv, TypeOK
    <3>4. \A r \in batch : deviceView[r] = "held"
      BY <1>0, <3>3, DeviceOf
    <3>5. D!Close(batch)
      BY <2>4, <3>2, <3>3, <3>4 DEF MarkSynced, D!Close
    <3> QED
      BY <3>3, <3>5 DEF D!DeliveryNext
  <2>5. CASE MarkRetry \/ MarkPermanentFailure
    <3>1. \A i \in Items : deviceView'[i] = deviceView[i]
      BY <1>0, <2>5 DEF MarkRetry, MarkPermanentFailure, deviceView
    <3> QED
      BY <2>5, <3>1, <1>a, DeviceUnchanged DEF MarkRetry, MarkPermanentFailure
  <2> QED
    BY <1>5, <1>a, <2>1, <2>2, <2>3, <2>4, <2>5 DEF Flush, Mark
<1>6. ASSUME NEW S \in SUBSET Items, LateArrival(S) PROVE D!DeliveryNext
  <2> DEFINE New == S \ accepted
  <2>1. New \in SUBSET Items /\ accepted' = accepted \cup New
    BY <1>6 DEF LateArrival, OutboxInv, TypeOK
  <2>2. \A r \in New : status[r] \notin {"unborn", "synced", "purged"}
    BY <1>6 DEF LateArrival, OutboxInv, NothingLost
  <2>3. \A r \in New : deviceView[r] = "held"
    BY <2>1, <2>2, DeviceOf
  <2>4. D!Store(New)
    BY <1>6, <2>1, <2>3 DEF LateArrival, D!Store, deviceView
  <2> QED
    BY <2>1, <2>4 DEF D!DeliveryNext
<1>7. CASE UNCHANGED vars
  BY <1>7, <1>a DEF deviceView
<1> QED
  BY <1>1, <1>2, <1>3, <1>4, <1>5, <1>6, <1>7, <1>a DEF Next

\* The outbox keeps the promise of Delivery: nothing is closed before the server
\* stores it, nothing is deleted before it is closed, nothing reaches the server
\* that the device did not record.
THEOREM OutboxImplementsDelivery == Spec => ImplementsDelivery
BY DeliveryInit, DeliveryStep, OutboxAlways, PTL DEF Spec, ImplementsDelivery, D!DeliverySpec

-----------------------------------------------------------------------------
\* The logout.

USE DEF vars, tableVars, callVars, lifeVars, serverVars, ctlVars, history

\* Every step of a logout is a step of the outbox or leaves it alone.
LEMMA StepIsOutboxStep == [LogoutNext]_allVars => [Next]_vars
<1> SUFFICES ASSUME [LogoutNext]_allVars PROVE [Next]_vars
  OBVIOUS
<1>1. CASE SignalLogout \/ WebLogout \/ LateAcknowledgement
  BY <1>1 DEF SignalLogout, WebLogout, LateAcknowledgement
<1>2. CASE ConsumeControl
  <2>1. CASE ConsumeMarker \/ ConsumeFlag \/ ConsumeNothing \/ BeginDrain \/ PassFails
             \/ Acknowledge \/ AcknowledgeFails
    BY <2>1 DEF ConsumeMarker, ConsumeFlag, ConsumeNothing, BeginDrain, PassFails,
       Acknowledge, AcknowledgeFails
  <2>2. CASE RecordLogout \/ PrepareDailySummary
    BY <2>2 DEF RecordLogout, PrepareDailySummary, RecordRow, Next
  <2>3. CASE FlushPending
    BY <2>3 DEF FlushPending, InDrain, DrainGoesOn, DrainFails, Flush, Mark, Next
  <2> QED
    BY <1>2, <2>1, <2>2, <2>3 DEF ConsumeControl
<1>3. CASE Background \/ ProcessEndsInPass
  BY <1>3 DEF Background, ProcessEndsInPass, Next, Stop
<1>4. CASE UNCHANGED allVars
  BY <1>4 DEF allVars
<1> QED
  BY <1>1, <1>2, <1>3, <1>4 DEF LogoutNext

\* The logout flow is a use of the outbox: its behaviours are the outbox's.
THEOREM LogoutKeepsOutbox == LogoutSpec => Spec
<1>1. LogoutInit => Init
  BY DEF LogoutInit
<1> QED
  BY <1>1, StepIsOutboxStep, PTL DEF LogoutSpec, Spec

\* Initially no pass is under way and nothing has been recorded.
LEMMA LogoutInitInv == LogoutInit => LogoutInv
<1> SUFFICES ASSUME LogoutInit PROVE LogoutInv
  OBVIOUS
<1>1. OutboxInv
  BY InitInv DEF LogoutInit
<1>2. LogoutTypeOK
  BY <1>1 DEF LogoutInit, LogoutTypeOK, OutboxInv
<1> QED
  BY <1>1, <1>2 DEF LogoutInit, Init, LogoutInv, LateAckInv

\* The rows on the device are rows.
LEMMA KnownRows == Known \in SUBSET Items
BY DEF Known

\* A row waits for its first attempt only if it did before or was not recorded.
LEMMA FirstAttempts ==
  ASSUME TypeOK, [Next]_vars
  PROVE  /\ InStatus("pending")' \subseteq InStatus("pending") \cup InStatus("unborn")
         /\ InStatus("unborn")' \subseteq InStatus("unborn")
<1> USE DEF TypeOK, InStatus, SetStatus
<1>1. CASE Start
  BY <1>1 DEF Start, RecoverProcessing, RequeueAuthenticationFailures, PurgeExpired, SkipRepairs
<1>2. CASE Stop \/ UNCHANGED vars
  BY <1>2 DEF Stop, Cancel, BeginShutdown, ProcessEnds
<1>3. ASSUME NEW i \in Items, Queue(i) \/ TimePasses(i) PROVE
             /\ InStatus("pending")' \subseteq InStatus("pending") \cup InStatus("unborn")
             /\ InStatus("unborn")' \subseteq InStatus("unborn")
  BY <1>3 DEF Queue, TimePasses
<1>4. CASE Flush
  BY <1>4 DEF Flush, FlushClaim, FlushFindsNothing, FlushClaimFails, Exchange, Mark, MarkSynced,
     MarkRetry, MarkPermanentFailure, MarkFails
<1>5. ASSUME NEW S \in SUBSET Items, LateArrival(S) PROVE UNCHANGED status
  BY <1>5 DEF LateArrival
<1> QED
  BY <1>1, <1>2, <1>3, <1>4, <1>5 DEF Next

\* The type part of the inductive invariant.
LEMMA LogoutTypeStep ==
  ASSUME LogoutTypeOK, TypeOK', [LogoutNext]_allVars
  PROVE  LogoutTypeOK'
<1> USE DEF LogoutTypeOK, history
<1>1. CASE SignalLogout \/ WebLogout \/ LateAcknowledgement
  BY <1>1 DEF SignalLogout, WebLogout, LateAcknowledgement
<1>2. CASE ConsumeMarker \/ ConsumeFlag \/ ConsumeNothing
  BY <1>2 DEF ConsumeMarker, ConsumeFlag, ConsumeNothing
<1>3. CASE RecordLogout \/ PrepareDailySummary
  BY <1>3 DEF RecordLogout, PrepareDailySummary, Recorded, InStatus
<1>4. CASE BeginDrain \/ PassFails
  BY <1>4 DEF BeginDrain, PassFails
<1>5. CASE FlushPending
  BY <1>5 DEF FlushPending, InDrain, AfterDrain
<1>6. CASE Acknowledge
  BY <1>6 DEF Acknowledge
<1>7. CASE Background
  BY <1>7 DEF Background, Recorded, InStatus
<1>9. CASE AcknowledgeFails
  BY <1>9, KnownRows DEF AcknowledgeFails, GivenUp
<1>10. CASE ProcessEndsInPass
  BY <1>10, KnownRows DEF ProcessEndsInPass, GivenUp
<1>8. CASE UNCHANGED allVars
  BY <1>8 DEF allVars, ctlVars
<1> QED
  BY <1>1, <1>2, <1>3, <1>4, <1>5, <1>6, <1>7, <1>8, <1>9, <1>10 DEF LogoutNext, ConsumeControl

\* A row is recorded between passes or in the first steps of one: it belongs to
\* no batch, and the server has not seen it.
LEMMA RecordingStep ==
  ASSUME LogoutInv, OutboxInv', LogoutTypeOK', LateAckInv',
         RecordLogout \/ PrepareDailySummary
           \/ (step = "loop" /\ (\E i \in Items : Queue(i) /\ Recorded)
               /\ UNCHANGED <<marker, flag, lateAck, step, ackServer>>)
  PROVE  LogoutInv'
<1>1. step \in {"loop", "record", "summary"} /\ step' \in {step, "summary", "session"}
      /\ step # "flush" /\ step' # "flush" /\ step' # "ack"
      /\ (step' # "loop" => step # "loop")
  BY DEF RecordLogout, PrepareDailySummary
<1>2. UNCHANGED <<agent, call, batch, accepted, abandoned, ackServer, origin>>
  BY DEF RecordLogout, PrepareDailySummary, RecordRow, Recorded, Queue
<1>3. call = "idle"
  BY <1>1 DEF LogoutInv
<1>4. fresh' \subseteq fresh \cup InStatus("unborn")
  BY DEF RecordLogout, PrepareDailySummary, Recorded
<1>5. InStatus("unborn") \cap (batch \cup accepted \cup abandoned) = {}
  BY DEF LogoutInv, OutboxInv, InStatus
<1>6. fresh' \cap (batch' \cup accepted' \cup abandoned') = {}
  BY <1>2, <1>4, <1>5 DEF LogoutInv
<1> QED
  BY <1>1, <1>2, <1>3, <1>6 DEF LogoutInv

\* The drain: what leaves the device was recorded before it began, and the pass
\* goes on to the acknowledgement only when nothing was ready.
LEMMA DrainStep ==
  ASSUME LogoutInv, OutboxInv', LogoutTypeOK', LateAckInv', FlushPending
  PROVE  LogoutInv'
<1> USE DEF FlushReturns
<1>1. /\ step = "flush" /\ fresh = {} /\ fresh' = {} /\ agent = "running"
      /\ UNCHANGED <<agent, ackServer>>
      /\ origin' = IF step' = "loop" THEN "none" ELSE origin
  BY DEF LogoutInv, FlushPending, InDrain, DrainGoesOn, DrainFails, AfterDrain, FlushClaim,
     FlushFindsNothing, FlushClaimFails, Exchange, MarkSynced, MarkRetry, MarkPermanentFailure,
     MarkFails
<1>2. call' # "idle" => step' = "flush"
  BY DEF LogoutInv, FlushPending, InDrain, DrainFails, FlushFindsNothing, FlushClaimFails,
     MarkRetry, MarkPermanentFailure, MarkFails
<1>3. ASSUME step' = "ack" PROVE ackServer /\ InStatus("pending")' = {}
  <2>1. FlushFindsNothing /\ ackServer
    BY <1>3 DEF FlushPending, InDrain, AfterDrain
  <2> QED
    BY <2>1 DEF FlushFindsNothing, Ready, InStatus
<1> QED
  BY <1>1, <1>2, <1>3 DEF LogoutInv

\* An acknowledgement is given up only when nothing waits for a first attempt,
\* and nothing that was recorded before ever waits for one again.
LEMMA LateAckStep ==
  ASSUME LogoutInv, [LogoutNext]_allVars
  PROVE  LateAckInv'
<1> USE DEF LogoutInv, LateAckInv
<1>1. /\ InStatus("pending")' \subseteq InStatus("pending") \cup InStatus("unborn")
      /\ InStatus("unborn")' \subseteq InStatus("unborn")
  BY StepIsOutboxStep, FirstAttempts DEF OutboxInv
<1>2. /\ lateAck => lateAck'
      /\ covered' = covered \/ (step = "ack" /\ covered' = Known)
  BY DEF LogoutNext, SignalLogout, WebLogout, LateAcknowledgement, ConsumeControl, ConsumeMarker,
     ConsumeFlag, ConsumeNothing, RecordLogout, PrepareDailySummary, Recorded, BeginDrain,
     PassFails, FlushPending, InDrain, Acknowledge, AcknowledgeFails, GivenUp, Background,
     ProcessEndsInPass, allVars
<1>3. covered' \cap (InStatus("unborn")' \cup InStatus("pending")') = {}
  <2>1. CASE covered' = covered
    BY <1>1, <2>1
  <2>2. CASE step = "ack" /\ covered' = Known
    <3>1. covered' \cap InStatus("unborn") = {} /\ InStatus("pending") = {}
      BY <2>2 DEF Known
    <3> QED
      BY <1>1, <3>1
  <2> QED
    BY <1>2, <2>1, <2>2
<1>4. overtaken' => lateAck' /\ ~flag'
  <2>1. CASE LateAcknowledgement
    BY <2>1 DEF LateAcknowledgement
  <2>2. CASE ~LateAcknowledgement
    <3>1. overtaken' => overtaken /\ ~flag'
      BY <2>2 DEF LogoutTypeOK, LogoutNext, SignalLogout, WebLogout, ConsumeControl,
         ConsumeMarker, ConsumeFlag, ConsumeNothing, RecordLogout, PrepareDailySummary,
         BeginDrain, PassFails, FlushPending, InDrain, Acknowledge, AcknowledgeFails,
         Background, ProcessEndsInPass, Recorded, allVars
    <3> QED
      BY <1>2, <3>1
  <2> QED
    BY <2>1, <2>2
<1> QED
  BY <1>3, <1>4

\* Every step keeps the inductive invariant.
LEMMA LogoutInvStep == LogoutInv /\ [LogoutNext]_allVars => LogoutInv'
<1> SUFFICES ASSUME LogoutInv, [LogoutNext]_allVars PROVE LogoutInv'
  OBVIOUS
<1>0. OutboxInv' /\ LogoutTypeOK' /\ LateAckInv'
  <2>1. OutboxInv'
    BY StepIsOutboxStep, InvStep DEF LogoutInv
  <2> QED
    BY <2>1, LogoutTypeStep, LateAckStep DEF LogoutInv, OutboxInv
<1>1. CASE SignalLogout \/ WebLogout \/ LateAcknowledgement
  BY <1>0, <1>1 DEF SignalLogout, WebLogout, LateAcknowledgement, LogoutInv, InStatus
<1>2. CASE ConsumeMarker \/ ConsumeFlag \/ ConsumeNothing
  BY <1>0, <1>2 DEF ConsumeMarker, ConsumeFlag, ConsumeNothing, InLoop, LogoutInv, InStatus
<1>3. CASE RecordLogout \/ PrepareDailySummary
  BY <1>0, <1>3, RecordingStep
<1>4. CASE BeginDrain \/ PassFails
  BY <1>0, <1>4 DEF BeginDrain, PassFails, LogoutInv, InStatus
<1>5. CASE FlushPending
  BY <1>0, <1>5, DrainStep
<1>6. CASE Acknowledge \/ AcknowledgeFails
  BY <1>0, <1>6 DEF Acknowledge, AcknowledgeFails, LogoutInv, InStatus
<1>7. CASE Background
  <2>1. CASE step = "loop" /\ (\E i \in Items : Queue(i) /\ Recorded)
             /\ UNCHANGED <<marker, flag, lateAck, step, ackServer>>
    BY <1>0, <2>1, RecordingStep
  <2>2. CASE BeginShutdown /\ step = "loop" /\ UNCHANGED <<history, step, ackServer>>
    BY <1>0, <2>2 DEF BeginShutdown, LogoutInv
  <2>3. CASE Start /\ UNCHANGED <<history, step, ackServer>>
    <3>1. agent # "running" /\ UNCHANGED <<call, batch, accepted, abandoned>>
      BY <2>3 DEF Start, RecoverProcessing, RequeueAuthenticationFailures, PurgeExpired,
         SkipRepairs
    <3> QED
      BY <1>0, <2>3, <3>1 DEF LogoutInv
  <2>4. CASE Cancel /\ UNCHANGED <<history, step, ackServer>>
    BY <1>0, <2>4 DEF Cancel, LogoutInv, InStatus
  <2>5. CASE (\E i \in Items : TimePasses(i)) /\ UNCHANGED <<history, step, ackServer>>
    BY <1>0, <2>5 DEF TimePasses, LogoutInv, InStatus
  <2>6. CASE (\E S \in SUBSET Items : LateArrival(S)) /\ UNCHANGED <<history, step, ackServer>>
    BY <1>0, <2>6 DEF LateArrival, LogoutInv, InStatus
  <2> QED
    BY <1>7, <2>1, <2>2, <2>3, <2>4, <2>5, <2>6 DEF Background
<1>9. CASE ProcessEndsInPass
  BY <1>0, <1>9 DEF ProcessEndsInPass, ProcessEnds, LogoutInv
<1>8. CASE UNCHANGED allVars
  BY <1>0, <1>8 DEF allVars, LogoutInv, InStatus
<1> QED
  BY <1>1, <1>2, <1>3, <1>4, <1>5, <1>6, <1>7, <1>8, <1>9 DEF LogoutNext, ConsumeControl

\* The inductive invariant holds in every reachable state.
THEOREM LogoutAlways == LogoutSpec => []LogoutInv
BY LogoutInitInv, LogoutInvStep, PTL DEF LogoutSpec

\* Records leave the device in the drain of a logout only.
THEOREM UploadsNeedALogout == LogoutSpec => []UploadsOnlyAtLogout
<1>1. LogoutInv => UploadsOnlyAtLogout
  BY DEF LogoutInv, UploadsOnlyAtLogout
<1> QED
  BY <1>1, LogoutAlways, PTL

\* The flag is lowered only by an acknowledgement sent after the first attempt of
\* everything recorded by then.
THEOREM FlagWaitsForFirstAttempts == LogoutSpec => AcknowledgedAfterFirstAttempts
<1>1. ASSUME LogoutInv, [LogoutNext]_allVars, flag, ~flag'
      PROVE  \/ step = "ack" /\ InStatus("pending") = {}
             \/ lateAck /\ covered \cap InStatus("pending") = {}
  <2>1. CASE step = "ack"
    BY <1>1, <2>1 DEF LogoutInv
  <2>2. CASE LateAcknowledgement
    BY <1>1, <2>2 DEF LateAcknowledgement, LogoutInv, LateAckInv
  <2>3. step = "ack" \/ LateAcknowledgement
    BY <1>1 DEF LogoutNext, SignalLogout, WebLogout, ConsumeControl, Background, ConsumeMarker,
       ConsumeFlag, ConsumeNothing, RecordLogout, PrepareDailySummary, BeginDrain, PassFails,
       FlushPending, InDrain, Acknowledge, AcknowledgeFails, ProcessEndsInPass, allVars, ctlVars
  <2> QED
    BY <2>1, <2>2, <2>3
<1> QED
  BY <1>1, LogoutAlways, PTL DEF LogoutSpec, AcknowledgedAfterFirstAttempts

\* Only a pass the server started sends acknowledgements, and nothing but one of
\* these, in its pass or late, lowers the flag.
THEOREM AcknowledgementsAreOfServerPasses == LogoutSpec => OnlyServerPassesAcknowledge
<1>1. ASSUME LogoutInv, [LogoutNext]_allVars
      PROVE  /\ flag /\ ~flag' => \/ origin = "server" /\ step = "ack" /\ agent = "running"
                                  \/ overtaken' /\ lateAck
             /\ <<lateAck, covered>>' # <<lateAck, covered>> =>
                  origin = "server" /\ step = "ack" /\ agent = "running"
  <2>1. step = "ack" => origin = "server" /\ agent = "running"
    BY <1>1 DEF LogoutInv
  <2>2. CASE LateAcknowledgement
    BY <2>2 DEF LateAcknowledgement
  <2>3. CASE ~LateAcknowledgement
    <3>1. (flag /\ ~flag') \/ <<lateAck, covered>>' # <<lateAck, covered>> => step = "ack"
      BY <1>1, <2>3 DEF LogoutNext, SignalLogout, WebLogout, ConsumeControl, Background,
         ConsumeMarker, ConsumeFlag, ConsumeNothing, RecordLogout, PrepareDailySummary,
         BeginDrain, PassFails, FlushPending, InDrain, Acknowledge, AcknowledgeFails, Recorded,
         ProcessEndsInPass, allVars, ctlVars
    <3> QED
      BY <2>1, <3>1
  <2> QED
    BY <2>2, <2>3
<1> QED
  BY <1>1, LogoutAlways, PTL DEF LogoutSpec, OnlyServerPassesAcknowledge
=============================================================================
