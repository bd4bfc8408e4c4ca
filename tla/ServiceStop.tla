----------------------------- MODULE ServiceStop -----------------------------
(***************************************************************************)
(* Stopping the service: serviceProgram.Start and Stop                     *)
(* (cmd/activity-watch-agent/main.go) against the goroutine of Runner.Run  *)
(* (internal/agent/runner.go) and the store they share.                    *)
(*                                                                         *)
(* Stop cancels the runner's context and waits for it, for the shutdown    *)
(* timeout and a slack; then it closes the store, whose Close clears the   *)
(* payload key before the database.  The runner notices the cancellation   *)
(* only between two handlers, and a poll of the server has a context of    *)
(* its own.  shutdown writes with a context of its own too, which ends at  *)
(* the shutdown timeout.                                                   *)
(*                                                                         *)
(* Time passes in units of the slack's scale.  A step that is due at a     *)
(* deadline is taken before time goes on.                                  *)
(***************************************************************************)
EXTENDS Integers

CONSTANTS
  ShutdownTimeout,  \* Config.ShutdownFlushTimeout
  Slack,            \* what Stop waits beyond it
  PollTimeout,      \* the longest poll of the server
  MaxTime           \* bound: time after the cancellation

ASSUME StopAssumption ==
  /\ ShutdownTimeout \in Nat \ {0} /\ Slack \in Nat \ {0} /\ PollTimeout \in Nat \ {0}
  /\ MaxTime \in Nat

VARIABLES
  host,       \* serviceProgram, and the process it lives in
  runner,     \* where Runner.Run is
  collecting, \* Runner.collectionActive, or what it will be
  session,    \* the device session of this process
  sealed,     \* the key the row being written was encrypted with
  zeroKey,    \* rows encrypted with the cleared key are in the database
  stopping,   \* whether agent-stop was recorded
  failed,     \* shutdown's firstError is set
  report,     \* what Stop returns
  elapsed,    \* time since the cancellation
  pollTime,   \* time the poll has taken
  writeTime,  \* time since shutdown began
  slow        \* history: a shutdown began later than the slack after its cancellation

vars == <<host, runner, collecting, session, sealed, zeroKey, stopping, failed, report,
          elapsed, pollTime, writeTime, slow>>

Hosts == {"off", "running", "cancelled", "returned", "cleared", "closed", "ended"}
Runners == {"none", "start", "loop", "poll", "summary", "summarySeal", "summaryCommit",
            "finalize", "stopSeal", "stopBegin", "stopCommit", "done", "canceled"}

TypeOK ==
  /\ host \in Hosts /\ runner \in Runners
  /\ collecting \in BOOLEAN /\ session \in {"none", "open", "final"}
  /\ sealed \in {"none", "key", "zero"}
  /\ zeroKey \in BOOLEAN /\ stopping \in BOOLEAN /\ failed \in BOOLEAN
  /\ report \in {"none", "ok", "error", "late", "killed"}
  /\ elapsed \in 0..MaxTime /\ pollTime \in 0..PollTimeout /\ writeTime \in 0..ShutdownTimeout
  /\ slow \in BOOLEAN

Init ==
  /\ host = "off" /\ runner = "none"
  /\ collecting \in BOOLEAN /\ session = "none"
  /\ sealed = "none" /\ zeroKey = FALSE /\ stopping = FALSE /\ failed = FALSE
  /\ report = "none"
  /\ elapsed = 0 /\ pollTime = 0 /\ writeTime = 0 /\ slow = FALSE

times == <<elapsed, pollTime, writeTime, slow>>
hostVars == <<host, report>>
writes == <<session, sealed, zeroKey, stopping, failed>>

Cancelled == host \notin {"off", "running"}
KeyCleared == host \in {"cleared", "closed", "ended"}
Closed == host \in {"closed", "ended"}

-----------------------------------------------------------------------------
(***************************************************************************)
(* The runner.                                                             *)
(***************************************************************************)

\* serviceProgram.Start.
Start ==
  /\ host = "off" /\ host' = "running"
  /\ runner' = "start"
  /\ UNCHANGED <<collecting, writes, report, times>>

\* Run before its loop: the session is started first, agent-start recorded last.
StartSession ==
  /\ runner = "start" /\ collecting /\ session = "none" /\ ~Cancelled
  /\ session' = "open"
  /\ UNCHANGED <<hostVars, runner, collecting, sealed, zeroKey, stopping, failed, times>>

Started ==
  /\ runner = "start" /\ (collecting => session = "open") /\ ~Cancelled
  /\ runner' = "loop"
  /\ UNCHANGED <<hostVars, collecting, writes, times>>

\* A cancelled start returns the context's error.
StartCancelled ==
  /\ runner = "start" /\ Cancelled /\ host # "ended"
  /\ runner' = "canceled"
  /\ UNCHANGED <<hostVars, collecting, writes, times>>

\* consumeControl: Consume asks the server under a context of its own.
BeginPoll ==
  /\ runner = "loop" /\ host # "ended"
  /\ runner' = "poll" /\ pollTime' = 0
  /\ UNCHANGED <<hostVars, collecting, writes, elapsed, writeTime, slow>>

EndPoll ==
  /\ runner = "poll" /\ host # "ended"
  /\ runner' = "loop" /\ pollTime' = 0
  /\ UNCHANGED <<hostVars, collecting, writes, elapsed, writeTime, slow>>

\* The select of Run picks the cancellation.
BeginShutdown ==
  /\ runner = "loop" /\ Cancelled /\ host # "ended"
  /\ runner' = IF collecting THEN "summary" ELSE "stopSeal"
  /\ writeTime' = 0
  /\ slow' = (slow \/ elapsed > Slack)
  /\ UNCHANGED <<hostVars, collecting, writes, elapsed, pollTime>>

Expired == writeTime = ShutdownTimeout

\* A statement that cannot run: the database is closed, the context has expired,
\* or it fails.
Fails(step, next) ==
  /\ runner = step /\ host # "ended"
  /\ runner' = next /\ sealed' = "none" /\ failed' = TRUE
  /\ UNCHANGED <<hostVars, collecting, session, zeroKey, stopping, times>>

Succeeds(step, next) ==
  /\ runner = step /\ host # "ended" /\ ~Expired
  /\ runner' = next
  /\ UNCHANGED <<hostVars, collecting, times>>

Seal == sealed' = IF KeyCleared THEN "zero" ELSE "key"

Commit ==
  /\ zeroKey' = (zeroKey \/ sealed = "zero") /\ sealed' = "none"

\* PrepareDailySummary begins its transaction, then encrypts the row, then commits:
\* a transaction that has begun survives the closing of the database.
SummaryBegins ==
  /\ Succeeds("summary", "summarySeal") /\ ~Closed
  /\ UNCHANGED writes

SummarySeals ==
  /\ Succeeds("summarySeal", "summaryCommit") /\ Seal
  /\ UNCHANGED <<session, zeroKey, stopping, failed>>

SummaryCommits ==
  /\ Succeeds("summaryCommit", "finalize") /\ Commit
  /\ UNCHANGED <<session, stopping, failed>>

FinalizeSession ==
  /\ Succeeds("finalize", "stopSeal") /\ ~Closed
  /\ session' = "final"
  /\ UNCHANGED <<sealed, zeroKey, stopping, failed>>

\* record("agent-stop") encrypts the row before its transaction begins.
StopSeals ==
  /\ Succeeds("stopSeal", "stopBegin") /\ Seal
  /\ UNCHANGED <<session, zeroKey, stopping, failed>>

StopBegins ==
  /\ Succeeds("stopBegin", "stopCommit") /\ ~Closed
  /\ UNCHANGED writes

StopCommits ==
  /\ Succeeds("stopCommit", "done") /\ Commit
  /\ stopping' = TRUE
  /\ UNCHANGED <<session, failed>>

\* shutdown: the summary, FinalizeSession even if the summary failed, and the
\* agent-stop event even if either failed.
ShutdownFails ==
  \/ \E step \in {"summary", "summarySeal", "summaryCommit"} : Fails(step, "finalize")
  \/ Fails("finalize", "stopSeal")
  \/ \E step \in {"stopSeal", "stopBegin", "stopCommit"} : Fails(step, "done")

ShutdownStep ==
  \/ SummaryBegins \/ SummarySeals \/ SummaryCommits \/ FinalizeSession
  \/ StopSeals \/ StopBegins \/ StopCommits \/ ShutdownFails

-----------------------------------------------------------------------------
(***************************************************************************)
(* The service program.                                                    *)
(***************************************************************************)

\* Stop, up to the cancellation.  A second Stop finds no cancel and returns.
Stop ==
  /\ host = "running" /\ host' = "cancelled"
  /\ elapsed' = 0
  /\ UNCHANGED <<runner, collecting, writes, report, pollTime, writeTime, slow>>

Returned == runner \in {"done", "canceled"}

\* Mutant: what shutdown returns is dropped.
StopWaitsOnly ==
  /\ host = "cancelled" /\ Returned
  /\ host' = "returned" /\ report' = "ok"
  /\ UNCHANGED <<runner, collecting, writes, times>>

\* Stop's select: the runner's result, where a cancelled context is none.
StopWaits ==
  /\ host = "cancelled" /\ Returned
  /\ host' = "returned"
  /\ report' = IF runner = "done" /\ failed THEN "error" ELSE "ok"
  /\ UNCHANGED <<runner, collecting, writes, times>>

\* Mutants: Stop waits for the shutdown timeout only, or without a limit.
StopGivesUpEarly ==
  /\ host = "cancelled" /\ elapsed >= ShutdownTimeout
  /\ host' = "returned" /\ report' = "late"
  /\ UNCHANGED <<runner, collecting, writes, times>>

StopGivesUpNever == FALSE /\ UNCHANGED vars

StopGivesUp ==
  /\ host = "cancelled" /\ elapsed >= ShutdownTimeout + Slack
  /\ host' = "returned" /\ report' = "late"
  /\ UNCHANGED <<runner, collecting, writes, times>>

\* SQLCipherStore.Close, in two steps, and the end of the process.
Close ==
  /\ \/ host = "returned" /\ host' = "cleared"
     \/ host = "cleared" /\ host' = "closed"
     \/ host = "closed" /\ host' = "ended"
  /\ UNCHANGED <<runner, collecting, writes, report, times>>

\* The process ends by itself: it crashes, or Run returns an error that is not a
\* cancellation and the program exits.
Exit ==
  /\ host \notin {"off", "ended"}
  /\ host' = "ended" /\ report' = "killed"
  /\ UNCHANGED <<runner, collecting, writes, times>>

\* The service manager starts the next process; the rows in the database stay.
NextProcess ==
  /\ host = "ended" /\ host' = "off"
  /\ runner' = "none" /\ session' = "none" /\ sealed' = "none"
  /\ stopping' = FALSE /\ failed' = FALSE /\ report' = "none"
  /\ elapsed' = 0 /\ pollTime' = 0 /\ writeTime' = 0
  /\ collecting' \in BOOLEAN
  /\ UNCHANGED <<zeroKey, slow>>

\* shutdown's context ends its statements at the timeout, a poll ends at its own,
\* and Stop's timer wakes it.
InShutdown == runner \in Runners \ {"none", "start", "loop", "poll", "done", "canceled"}

Due ==
  \/ runner = "poll" /\ pollTime = PollTimeout
  \/ InShutdown /\ Expired
  \/ host = "cancelled" /\ (Returned \/ elapsed >= ShutdownTimeout + Slack)
  \/ runner = "loop" /\ Cancelled
  \/ host \in {"returned", "cleared", "closed"}

Tick ==
  /\ host \notin {"off", "ended"} /\ ~Due
  /\ elapsed < MaxTime
  /\ elapsed' = IF Cancelled THEN elapsed + 1 ELSE elapsed
  /\ pollTime' = IF runner = "poll" THEN pollTime + 1 ELSE pollTime
  /\ writeTime' = IF InShutdown THEN writeTime + 1 ELSE writeTime
  /\ UNCHANGED <<hostVars, runner, collecting, writes, slow>>

RunnerStep ==
  \/ StartSession \/ Started \/ StartCancelled \/ BeginPoll \/ EndPoll \/ BeginShutdown
  \/ ShutdownStep

Next ==
  \/ Start \/ RunnerStep
  \/ Stop \/ StopWaits \/ StopGivesUp \/ Close \/ Exit \/ NextProcess
  \/ Tick

Spec == Init /\ [][Next]_vars

\* Time passes, whatever the runner does; the selects of Run and of Stop,
\* a poll, and the statements of shutdown and of Close do not hang for ever.  Nothing
\* makes the select of Run pick the cancellation rather than the next poll.
FairSpec ==
  /\ Spec
  /\ SF_vars(Tick)
  /\ WF_vars(BeginPoll \/ BeginShutdown) /\ WF_vars(EndPoll) /\ WF_vars(ShutdownStep)
  /\ WF_vars(StopWaits) /\ WF_vars(StopGivesUp) /\ WF_vars(Close)

-----------------------------------------------------------------------------
(***************************************************************************)
(* Properties.                                                             *)
(***************************************************************************)

\* A row is encrypted with the cleared key, and so can never be decoded, only if a
\* poll kept the runner from its shutdown for longer than the slack: otherwise the
\* shutdown timeout ends its writes before Stop gives up and closes the store.
ZeroKeyNeedsSlowPoll == zeroKey => slow

\* A stop that reports no error leaves no session open, and the stop recorded,
\* unless it cancelled the runner before its loop.
QuietStopFinalises ==
  host = "ended" /\ report = "ok" =>
    runner = "canceled" \/ (session # "open" /\ stopping)

\* A stop returns and the process ends, whatever the runner is busy with.
StopReturns == host = "cancelled" ~> host = "ended"

-----------------------------------------------------------------------------
\* What each side knows of the times: the writes of a shutdown that was not slow
\* end before Stop gives up, and the store is closed under a working runner only
\* if it did.
TimesInv ==
  /\ sealed = "zero" => slow
  /\ InShutdown => Cancelled /\ (slow \/ elapsed - writeTime <= Slack)
  /\ report = "late" => Cancelled /\ host # "cancelled" /\ elapsed >= ShutdownTimeout + Slack
  /\ host \in {"returned", "cleared", "closed"} => report = "late" \/ Returned

\* What a shutdown in which nothing has failed yet has behind it.
ShutdownInv ==
  /\ ~collecting =>
       session = "none" /\ runner \notin {"summary", "summarySeal", "summaryCommit", "finalize"}
  /\ runner \in {"stopSeal", "stopBegin", "stopCommit", "done"} /\ ~failed => session # "open"
  /\ runner = "done" /\ ~failed => stopping
  /\ report = "ok" => Cancelled /\ (runner = "canceled" \/ (runner = "done" /\ ~failed))

\* The inductive invariant: ZeroKeyNeedsSlowPoll and QuietStopFinalises with
\* what they rest on (Start, Stop, Close, Runner.Run and shutdown).
StopInv ==
  /\ TypeOK
  /\ ZeroKeyNeedsSlowPoll /\ TimesInv
  /\ QuietStopFinalises /\ ShutdownInv
=============================================================================
