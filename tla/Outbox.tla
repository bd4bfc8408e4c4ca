------------------------------- MODULE Outbox -------------------------------
(***************************************************************************)
(* The durable outbox of the desktop agent and the upload call that drains *)
(* it: the sync_outbox table of internal/store/store.go, one call of       *)
(* Synchronizer.Flush (internal/syncer/syncer.go), the start-up repairs of *)
(* Runner.Run (internal/agent/runner.go), and the ERP server that stores   *)
(* the uploaded records.                                                   *)
(*                                                                         *)
(* A record is queued in the transaction that creates it, claimed in a     *)
(* batch, sent in one HTTP request and then marked from the answer.  The   *)
(* process may stop or crash between any two of these steps; the table is  *)
(* durable, everything else is lost with the process.                      *)
(*                                                                         *)
(* Times are abstracted to what the control reads of them: whether a retry *)
(* is due (due) and whether a synced row is past its retention (any may    *)
(* be).  The timestamps themselves are modelled in RetrySchedule.          *)
(***************************************************************************)
EXTENDS Naturals, FiniteSets

CONSTANTS
  Items,        \* the outbox rows the model follows; a row id is never reused
  BatchSize,    \* SyncConfig.BatchSize: rows claimed by one Flush call
  Undecodable   \* rows whose stored payload cannot be decrypted any more

ASSUME BatchSizeAssumption == BatchSize \in Nat \ {0}
ASSUME UndecodableAssumption == Undecodable \subseteq Items

VARIABLES
  status,       \* sync_outbox.status; "unborn" before the insert, "purged" after the delete
  due,          \* next_attempt_at_utc has been reached (read, and TRUE, in "retry" only)
  unauthorized, \* last_error_code is http-401 or http-403 (read in "permanently-failed" only)
  agent,        \* where the agent process is in its life
  cancelled,    \* the context given to Runner.Run has been cancelled
  call,         \* where the Flush call is: "idle", "sent" or "answered"
  batch,        \* the rows that call has claimed
  answer,       \* what the HTTP exchange returned
  accepted,     \* rows the server has stored
  abandoned,    \* rows of requests the agent gave up on and the server may still receive
  stranded      \* rows claimed by a call of this process that could not mark them

tableVars  == <<status, due, unauthorized>>
callVars   == <<call, batch, answer>>
lifeVars   == <<agent, cancelled>>
serverVars == <<accepted, abandoned>>
vars == <<tableVars, lifeVars, callVars, serverVars, stranded>>

Status  == {"unborn", "pending", "processing", "retry", "synced",
            "permanently-failed", "purged"}

\* "rejected" is any status that is neither 2xx nor retryable; 401 and 403 are
\* kept apart as "unauthorized" because a later start re-queues those rows.
Retryable == {"network-error", "unreadable", "invalid-success", "busy"}
Rejection == {"rejected", "unauthorized"}
Answers   == {"none", "success"} \cup Retryable \cup Rejection

TypeOK ==
  /\ status \in [Items -> Status]
  /\ due \in [Items -> BOOLEAN]
  /\ unauthorized \in [Items -> BOOLEAN]
  /\ agent \in {"down", "recovered", "requeued", "running", "stopping"}
  /\ cancelled \in BOOLEAN
  /\ call \in {"idle", "sent", "answered"}
  /\ batch \in SUBSET Items
  /\ answer \in Answers
  /\ accepted \in SUBSET Items
  /\ abandoned \in SUBSET Items
  /\ stranded \in SUBSET Items

Init ==
  /\ status = [i \in Items |-> "unborn"]
  /\ due = [i \in Items |-> FALSE]
  /\ unauthorized = [i \in Items |-> FALSE]
  /\ agent = "down"
  /\ cancelled = FALSE
  /\ call = "idle" /\ batch = {} /\ answer = "none"
  /\ accepted = {} /\ abandoned = {}
  /\ stranded = {}

InStatus(s) == {i \in Items : status[i] = s}

SetStatus(S, s) == status' = [i \in Items |-> IF i \in S THEN s ELSE status[i]]

-----------------------------------------------------------------------------
(***************************************************************************)
(* Life of the process.                                                    *)
(***************************************************************************)

\* Mutant: a start that leaves claimed rows claimed.
RecoverNothing ==
  /\ agent = "down" /\ agent' = "recovered"
  /\ stranded' = {}
  /\ UNCHANGED <<tableVars, cancelled, callVars, serverVars>>

\* Runner.Run begins with RecoverProcessing: what a previous process left
\* claimed is due again at once.  If the statement fails Run returns.
RecoverProcessing ==
  /\ agent = "down"
  /\ agent' = "recovered"
  /\ SetStatus(InStatus("processing"), "retry")
  /\ due' = [i \in Items |-> due[i] \/ status[i] = "processing"]
  /\ stranded' = {}
  /\ UNCHANGED <<unauthorized, cancelled, callVars, serverVars>>

\* Mutant: the re-queue forgets which refusals it is about.
RequeueEveryFailure ==
  /\ agent = "recovered" /\ agent' = "requeued"
  /\ SetStatus(InStatus("permanently-failed"), "retry")
  /\ UNCHANGED <<due, unauthorized, cancelled, callVars, serverVars, stranded>>

\* With collection enabled, records refused for the credential are queued
\* again; a failing statement is only logged.
RequeueAuthenticationFailures ==
  /\ agent = "recovered"
  /\ agent' = "requeued"
  /\ \/ LET back == {i \in InStatus("permanently-failed") : unauthorized[i]}
        IN  /\ SetStatus(back, "retry")
            /\ due' = [i \in Items |-> due[i] \/ i \in back]
            /\ unauthorized' = [i \in Items |-> unauthorized[i] /\ i \notin back]
     \/ UNCHANGED tableVars
  /\ UNCHANGED <<cancelled, callVars, serverVars, stranded>>

\* Mutant: the purge deletes whatever is old, refused records included.
PurgeClosed ==
  /\ agent = "requeued" /\ agent' = "running"
  /\ \E expired \in SUBSET (InStatus("synced") \cup InStatus("permanently-failed")) :
       SetStatus(expired, "purged")
  /\ UNCHANGED <<due, unauthorized, cancelled, callVars, serverVars, stranded>>

\* The outbox part of PurgeExpired: any of the synced rows may be old enough,
\* at most 5000 go at once, and a failure is only logged.
PurgeExpired ==
  /\ agent = "requeued"
  /\ agent' = "running"
  /\ \E expired \in SUBSET InStatus("synced") : SetStatus(expired, "purged")
  /\ UNCHANGED <<due, unauthorized, cancelled, callVars, serverVars, stranded>>

\* Without collection both repairs are skipped.
SkipRepairs ==
  /\ agent = "recovered"
  /\ agent' = "running"
  /\ UNCHANGED <<tableVars, cancelled, callVars, serverVars, stranded>>

\* serviceProgram.Stop cancels the context; a Flush in progress sees it in its
\* HTTP request and in every later statement.
Cancel ==
  /\ agent = "running"
  /\ ~cancelled
  /\ cancelled' = TRUE
  /\ UNCHANGED <<tableVars, agent, callVars, serverVars, stranded>>

\* The select loop sees the cancelled context and enters shutdown, which writes
\* its last records under a context of its own.
BeginShutdown ==
  /\ agent = "running" /\ cancelled /\ call = "idle"
  /\ agent' = "stopping"
  /\ UNCHANGED <<tableVars, cancelled, callVars, serverVars, stranded>>

\* The process ends, after shutdown or by a crash anywhere: only the table, the
\* server and a request already on its way remain.
ProcessEnds ==
  /\ agent # "down"
  /\ agent' = "down"
  /\ cancelled' = FALSE
  /\ call' = "idle" /\ batch' = {} /\ answer' = "none"
  /\ abandoned' = IF call = "sent" THEN abandoned \cup batch ELSE abandoned
  /\ UNCHANGED <<tableVars, accepted, stranded>>

-----------------------------------------------------------------------------
(***************************************************************************)
(* Producers.                                                              *)
(***************************************************************************)

\* A record and its outbox row are inserted in one transaction, by the one
\* goroutine that also runs Flush, so never while a call is in progress; the
\* cancelled context stops it until shutdown takes a fresh one.
CanWrite ==
  /\ call = "idle"
  /\ (agent = "running" /\ ~cancelled) \/ agent = "stopping"

Queue(i) ==
  /\ CanWrite
  /\ status[i] = "unborn"
  /\ SetStatus({i}, "pending")
  /\ UNCHANGED <<due, unauthorized, lifeVars, callVars, serverVars, stranded>>

\* next_attempt_at_utc of a retry is reached.
TimePasses(i) ==
  /\ status[i] = "retry" /\ ~due[i]
  /\ due' = [due EXCEPT ![i] = TRUE]
  /\ UNCHANGED <<status, unauthorized, lifeVars, callVars, serverVars, stranded>>

-----------------------------------------------------------------------------
(***************************************************************************)
(* Synchronizer.Flush.                                                     *)
(***************************************************************************)

Ready == InStatus("pending") \cup {i \in InStatus("retry") : due[i]}

\* ORDER BY next_attempt_at_utc IS NOT NULL, ...  LIMIT batch size: rows that
\* were never tried come first; the order below that is by timestamps.
Selection ==
  {B \in SUBSET Ready :
     /\ Cardinality(B) = IF Cardinality(Ready) < BatchSize
                         THEN Cardinality(Ready) ELSE BatchSize
     /\ B \ InStatus("pending") # {} => InStatus("pending") \subseteq B}

FlushReturns == call' = "idle" /\ batch' = {} /\ answer' = "none"

CanFlush == agent = "running" /\ call = "idle"

\* ClaimReadyBatch commits, the request leaves.
FlushClaim(B) ==
  /\ CanFlush /\ ~cancelled
  /\ B \in Selection /\ B # {} /\ B \cap Undecodable = {}
  /\ SetStatus(B, "processing")
  /\ call' = "sent" /\ batch' = B
  /\ due' = [i \in Items |-> due[i] /\ i \notin B]
  /\ UNCHANGED <<unauthorized, lifeVars, answer, serverVars, stranded>>

\* Nothing is ready: Flush returns (0, nil).
FlushFindsNothing ==
  /\ CanFlush /\ ~cancelled
  /\ Ready = {}
  /\ FlushReturns
  /\ UNCHANGED <<tableVars, lifeVars, serverVars, stranded>>

\* The claim is rolled back: the context is cancelled, the database refuses, or
\* one selected row cannot be decoded.
FlushClaimFails ==
  /\ CanFlush
  /\ FlushReturns
  /\ UNCHANGED <<tableVars, lifeVars, serverVars, stranded>>

\* The exchange ends.  The server may have stored any part of the batch
\* whatever the agent hears, but a well-formed success that counts the whole
\* batch is only sent when the whole batch is stored.  A cancelled context
\* aborts the request.
Exchange(a, S) ==
  /\ call = "sent"
  /\ a \in Answers \ {"none"}
  /\ S \subseteq batch
  /\ a = "success" => S = batch
  /\ cancelled => a \in {"network-error", "unreadable"}
  /\ call' = "answered" /\ answer' = a
  /\ accepted' = accepted \cup S
  /\ abandoned' = IF a = "network-error" THEN abandoned \cup batch ELSE abandoned
  /\ UNCHANGED <<tableVars, lifeVars, batch, stranded>>

\* A request the agent no longer waits for reaches the server.
LateArrival(S) ==
  /\ S \subseteq abandoned
  /\ accepted' = accepted \cup S
  /\ UNCHANGED <<tableVars, lifeVars, callVars, abandoned, stranded>>

\* Mutant: a 2xx answer is believed without reading its body.
MarkSyncedUnread ==
  /\ call = "answered" /\ ~cancelled
  /\ answer \in {"success", "unreadable", "invalid-success"}
  /\ SetStatus(batch, "synced")
  /\ FlushReturns
  /\ UNCHANGED <<due, unauthorized, lifeVars, serverVars, stranded>>

MarkSynced ==
  /\ call = "answered" /\ ~cancelled
  /\ answer = "success"
  /\ SetStatus(batch, "synced")
  /\ FlushReturns
  /\ UNCHANGED <<due, unauthorized, lifeVars, serverVars, stranded>>

MarkRetry ==
  /\ call = "answered" /\ ~cancelled
  /\ answer \in Retryable
  /\ SetStatus(batch, "retry")
  /\ FlushReturns
  /\ UNCHANGED <<due, unauthorized, lifeVars, serverVars, stranded>>

MarkPermanentFailure ==
  /\ call = "answered" /\ ~cancelled
  /\ answer \in Rejection
  /\ SetStatus(batch, "permanently-failed")
  /\ unauthorized' = [i \in Items |-> IF i \in batch THEN answer = "unauthorized"
                                      ELSE unauthorized[i]]
  /\ FlushReturns
  /\ UNCHANGED <<due, lifeVars, serverVars, stranded>>

\* The marking statement fails (cancelled context or database error): the rows
\* keep the status "processing" and nothing but a restart looks at them again.
MarkFails ==
  /\ call = "answered"
  /\ stranded' = stranded \cup batch
  /\ FlushReturns
  /\ UNCHANGED <<tableVars, lifeVars, serverVars>>

Mark == MarkSynced \/ MarkRetry \/ MarkPermanentFailure \/ MarkFails

Flush ==
  \/ \E B \in SUBSET Items : FlushClaim(B)
  \/ FlushFindsNothing \/ FlushClaimFails
  \/ \E a \in Answers, S \in SUBSET Items : Exchange(a, S)
  \/ Mark

Start == RecoverProcessing \/ RequeueAuthenticationFailures \/ PurgeExpired \/ SkipRepairs
Stop  == Cancel \/ BeginShutdown \/ ProcessEnds

Next ==
  \/ Start \/ Stop
  \/ \E i \in Items : Queue(i) \/ TimePasses(i)
  \/ Flush
  \/ \E S \in SUBSET Items : LateArrival(S)

Spec == Init /\ [][Next]_vars

(***************************************************************************)
(* What the environment is assumed to do for ever: the service is started  *)
(* again when it is down and restarted now and then, time passes, the user *)
(* keeps logging out (each logout calls Flush), and a server that is asked *)
(* again and again accepts, and the database marks, again and again.       *)
(***************************************************************************)
Fairness ==
  /\ WF_vars(RecoverProcessing)
  /\ SF_vars(RequeueAuthenticationFailures) /\ SF_vars(PurgeExpired)
  /\ WF_vars(ProcessEnds)
  /\ \A i \in Items : WF_vars(TimePasses(i))
  /\ SF_vars(\E B \in SUBSET Items : FlushClaim(B))
  /\ SF_vars(Exchange("success", batch))
  /\ SF_vars(MarkSynced)

FairSpec == Spec /\ Fairness

-----------------------------------------------------------------------------
(***************************************************************************)
(* Properties.                                                             *)
(***************************************************************************)

\* A row the agent considers uploaded, or has forgotten, is stored by the
\* server: no answer, crash, failed statement or purge can lose a record
\* (Flush, MarkSynced, PurgeExpired, RecoverProcessing).
NothingLost ==
  \A i \in Items : status[i] \in {"synced", "purged"} => i \in accepted

\* While the process lives, the rows in status "processing" are exactly the
\* batch of the current call and those whose mark failed: a row can neither be
\* claimed twice nor left claimed by a call of an earlier process
\* (ClaimReadyBatch, RecoverProcessing).
ClaimsAreOwned ==
  /\ agent # "down" => InStatus("processing") = batch \cup stranded
  /\ batch \cap stranded = {}

\* A row that was uploaded is never sent again and a row the server refused
\* comes back only when it was refused for the credential, at a start
\* (ClaimReadyBatch, RequeueAuthenticationFailures, PurgeExpired).
ClosedRowsStayClosed ==
  [][\A i \in Items :
       /\ status[i] = "synced" => status'[i] \in {"synced", "purged"}
       /\ status[i] = "purged" => status'[i] = "purged"
       /\ status[i] = "permanently-failed" =>
            \/ status'[i] = "permanently-failed"
            \/ status'[i] = "retry" /\ unauthorized[i] /\ agent = "recovered"]_vars

\* While a row that cannot be decoded waits, no call finds the outbox empty, and
\* nothing is claimed once the waiting rows fit in one batch (ClaimReadyBatch
\* selects them all and rolls the claim back).
UndecodableBlocksUploads ==
  [][(\E u \in Undecodable : status[u] = "pending") =>
       /\ Cardinality(Ready) <= BatchSize =>
            InStatus("processing")' \subseteq InStatus("processing")
       /\ ~FlushFindsNothing]_vars

\* The inductive invariant behind NothingLost and ClaimsAreOwned: a call owns
\* rows that are claimed and only those, a successful answer means the whole
\* batch is stored, and the server knows only rows that were recorded.
OutboxInv ==
  /\ TypeOK
  /\ NothingLost
  /\ ClaimsAreOwned
  /\ batch \subseteq InStatus("processing")
  /\ agent = "down" => call = "idle"
  /\ call = "idle" => batch = {} /\ answer = "none"
  /\ answer = "success" => batch \subseteq accepted
  /\ \A i \in accepted \cup abandoned : status[i] # "unborn"

\* Every queued row is eventually uploaded or refused, if the user keeps logging
\* out and the server and the database keep working: whatever crashes, rows left
\* claimed and refusals come in between, only a waiting row that cannot be
\* decoded keeps the others back (Flush, RecoverProcessing).
EventuallySettled ==
  \A i \in Items :
    status[i] = "pending" ~>
      \/ status[i] \in {"synced", "purged", "permanently-failed"}
      \/ \E u \in Undecodable : status[u] = "pending"

-----------------------------------------------------------------------------
(***************************************************************************)
(* The outbox implements Delivery: rows that are waiting, claimed or       *)
(* refused are all held by the device.                                     *)
(***************************************************************************)
deviceView ==
  [i \in Items |-> IF status[i] = "unborn" THEN "none"
                   ELSE IF status[i] = "synced" THEN "closed"
                   ELSE IF status[i] = "purged" THEN "deleted" ELSE "held"]

D == INSTANCE Delivery WITH Records <- Items, device <- deviceView, server <- accepted

\* Every behaviour of the outbox is one the promise allows: the server stores
\* only what the device holds, the device closes only what the server stores
\* and deletes only what it has closed (the whole of Flush and the purge).
ImplementsDelivery == D!DeliverySpec
=============================================================================
