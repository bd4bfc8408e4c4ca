-------------------------- MODULE ServiceStopProofs --------------------------
(***************************************************************************)
(* Proofs about ServiceStop, for any timeouts.  StopInv relates the three  *)
(* clocks: a shutdown that began within the slack after its cancellation   *)
(* has run for all but the slack of the time Stop has waited, so its       *)
(* context ends before Stop gives up and the key is cleared.               *)
(***************************************************************************)
EXTENDS ServiceStop, TLAPS

USE DEF vars, times, hostVars, writes, Cancelled

Moving == Runners \ {"none", "start", "loop", "poll", "done", "canceled"}

\* No action leaves the types (Start, Stop, Close, Runner.Run, shutdown).
LEMMA StopTypeStep == ASSUME TypeOK, [Next]_vars PROVE TypeOK'
<1>a. /\ ShutdownTimeout \in Nat /\ ShutdownTimeout > 0
      /\ PollTimeout \in Nat /\ PollTimeout > 0 /\ MaxTime \in Nat
  BY StopAssumption
<1>1. CASE RunnerStep
  <2>1. CASE StartSession \/ Started \/ StartCancelled
    BY <2>1 DEF StartSession, Started, StartCancelled, TypeOK, Runners
  <2>2. CASE BeginPoll \/ EndPoll \/ BeginShutdown
    <3>1. runner' \in Runners /\ UNCHANGED <<hostVars, collecting, writes, elapsed>>
      BY <2>2 DEF BeginPoll, EndPoll, BeginShutdown, Runners
    <3>2. pollTime' \in 0..PollTimeout /\ writeTime' \in 0..ShutdownTimeout
      BY <1>a, <2>2 DEF BeginPoll, EndPoll, BeginShutdown, TypeOK
    <3>3. slow' \in BOOLEAN
      BY <2>2 DEF BeginPoll, EndPoll, BeginShutdown, TypeOK
    <3> QED
      BY <3>1, <3>2, <3>3 DEF TypeOK
  <2>3. CASE ShutdownStep
    <3>1. /\ runner' \in Runners /\ sealed' \in {"none", "key", "zero"}
          /\ UNCHANGED <<hostVars, collecting, times>>
      BY <2>3 DEF ShutdownStep, SummaryBegins, SummarySeals, SummaryCommits, FinalizeSession,
         StopSeals, StopBegins, StopCommits, ShutdownFails, Fails, Succeeds, Seal, Commit,
         TypeOK, Runners
    <3>2. /\ session' \in {"none", "open", "final"}
          /\ zeroKey' \in BOOLEAN /\ stopping' \in BOOLEAN /\ failed' \in BOOLEAN
      BY <2>3 DEF ShutdownStep, SummaryBegins, SummarySeals, SummaryCommits, FinalizeSession,
         StopSeals, StopBegins, StopCommits, ShutdownFails, Fails, Succeeds, Seal, Commit, TypeOK
    <3> QED
      BY <3>1, <3>2 DEF TypeOK
  <2> QED
    BY <1>1, <2>1, <2>2, <2>3 DEF RunnerStep
<1>2. CASE Start \/ StopWaits \/ StopGivesUp \/ Close \/ Exit
  BY <1>2 DEF Start, StopWaits, StopGivesUp, Close, Exit, TypeOK, Hosts, Runners
<1>3. CASE Stop
  BY <1>a, <1>3 DEF Stop, TypeOK, Hosts
<1>4. CASE NextProcess
  <2>1. /\ elapsed' \in 0..MaxTime /\ pollTime' \in 0..PollTimeout
        /\ writeTime' \in 0..ShutdownTimeout
    BY <1>a, <1>4 DEF NextProcess
  <2>2. UNCHANGED <<zeroKey, slow>> /\ collecting' \in BOOLEAN
    BY <1>4 DEF NextProcess
  <2>3. stopping' = FALSE /\ failed' = FALSE
    BY <1>4 DEF NextProcess
  <2>4. /\ host' \in Hosts /\ runner' \in Runners /\ session' \in {"none", "open", "final"}
        /\ sealed' \in {"none", "key", "zero"}
        /\ report' \in {"none", "ok", "error", "late", "killed"}
    BY <1>4 DEF NextProcess, Hosts, Runners
  <2> QED
    BY <2>1, <2>2, <2>3, <2>4 DEF TypeOK
<1>5. CASE Tick
  <2>1. elapsed' \in 0..MaxTime
    BY <1>a, <1>5 DEF Tick, TypeOK
  <2>2. pollTime' \in 0..PollTimeout
    BY <1>a, <1>5 DEF Tick, Due, TypeOK
  <2>3. writeTime' \in 0..ShutdownTimeout
    BY <1>a, <1>5 DEF Tick, Due, Expired, TypeOK
  <2> QED
    BY <1>5, <2>1, <2>2, <2>3 DEF Tick, TypeOK
<1>6. CASE UNCHANGED vars
  BY <1>6 DEF TypeOK
<1> QED
  BY <1>1, <1>2, <1>3, <1>4, <1>5, <1>6 DEF Next

\* A statement of the shutdown that succeeds while the key is cleared belongs to a
\* slow shutdown (StopGivesUp against the context of shutdown).
LEMMA LateWriteIsSlow ==
  ASSUME TypeOK, TimesInv, InShutdown, ~Expired, KeyCleared, host # "ended"
  PROVE  slow
<1>1. ShutdownTimeout \in Nat /\ Slack \in Nat
  BY StopAssumption
<1>2. report = "late" /\ elapsed >= ShutdownTimeout + Slack
  BY DEF TimesInv, KeyCleared, InShutdown, Returned
<1>3. writeTime \in 0..ShutdownTimeout /\ writeTime # ShutdownTimeout /\ elapsed \in Nat
  BY StopAssumption DEF Expired, TypeOK
<1>4. ~(elapsed - writeTime <= Slack)
  BY <1>1, <1>2, <1>3
<1> QED
  BY <1>4 DEF TimesInv

\* The clocks and the key, over every step.
LEMMA TimesStep ==
  ASSUME TypeOK, TimesInv, ZeroKeyNeedsSlowPoll, [Next]_vars
  PROVE  TimesInv' /\ ZeroKeyNeedsSlowPoll'
<1>a. /\ ShutdownTimeout \in Nat /\ Slack \in Nat
      /\ elapsed \in Nat /\ writeTime \in Nat
  BY StopAssumption DEF TypeOK
<1>1. CASE StartSession \/ Started \/ StartCancelled \/ BeginPoll \/ EndPoll
  BY <1>1 DEF StartSession, Started, StartCancelled, BeginPoll, EndPoll, TimesInv,
     ZeroKeyNeedsSlowPoll, InShutdown, Returned, Runners
<1>2. CASE BeginShutdown
  <2>1. slow' \/ elapsed' - writeTime' <= Slack
    <3>1. elapsed > Slack \/ elapsed' - writeTime' <= Slack
      BY <1>a, <1>2 DEF BeginShutdown
    <3> QED
      BY <1>2, <3>1 DEF BeginShutdown
  <2> QED
    BY <1>2, <2>1 DEF BeginShutdown, TimesInv, ZeroKeyNeedsSlowPoll, InShutdown, Returned, Runners
<1>3. CASE ShutdownStep
  <2>1. /\ InShutdown /\ host # "ended" /\ UNCHANGED <<host, report, times>>
        /\ runner' \in Moving \cup {"done"}
    BY <1>3 DEF ShutdownStep, SummaryBegins, SummarySeals, SummaryCommits, FinalizeSession,
       StopSeals, StopBegins, StopCommits, ShutdownFails, Fails, Succeeds, InShutdown, Moving,
       Runners
  <2>2. sealed' = "zero" => slow
    <3>1. sealed' = "zero" => sealed = "zero" \/ (KeyCleared /\ ~Expired)
      BY <1>3 DEF ShutdownStep, SummaryBegins, SummarySeals, SummaryCommits, FinalizeSession,
         StopSeals, StopBegins, StopCommits, ShutdownFails, Fails, Succeeds, Seal, Commit
    <3> QED
      BY <2>1, <3>1, LateWriteIsSlow DEF TimesInv
  <2>3. zeroKey' => zeroKey \/ sealed = "zero"
    BY <1>3 DEF ShutdownStep, SummaryBegins, SummarySeals, SummaryCommits, FinalizeSession,
       StopSeals, StopBegins, StopCommits, ShutdownFails, Fails, Succeeds, Commit
  <2> QED
    BY <2>1, <2>2, <2>3 DEF TimesInv, ZeroKeyNeedsSlowPoll, InShutdown, Returned, Moving
<1>4. CASE Start \/ StopWaits \/ Close \/ Exit
  BY <1>4 DEF Start, StopWaits, Close, Exit, TimesInv, ZeroKeyNeedsSlowPoll, InShutdown,
     Returned, Runners
<1>5. CASE StopGivesUp
  BY <1>5 DEF StopGivesUp, TimesInv, ZeroKeyNeedsSlowPoll, InShutdown, Returned
<1>6. CASE Stop
  BY <1>6 DEF Stop, TimesInv, ZeroKeyNeedsSlowPoll, InShutdown, Returned
<1>7. CASE NextProcess
  BY <1>7 DEF NextProcess, TimesInv, ZeroKeyNeedsSlowPoll, InShutdown, Returned
<1>8. CASE Tick
  <2>1. InShutdown => Cancelled /\ (slow \/ elapsed' - writeTime' <= Slack)
    <3>1. InShutdown => Cancelled /\ elapsed' = elapsed + 1 /\ writeTime' = writeTime + 1
      BY <1>8 DEF Tick, TimesInv
    <3> QED
      BY <1>a, <3>1 DEF TimesInv
  <2>2. elapsed' >= elapsed
    BY <1>a, <1>8 DEF Tick
  <2>3. report = "late" => elapsed' >= ShutdownTimeout + Slack
    BY <1>a, <2>2, <1>8 DEF TimesInv, Tick
  <2> QED
    BY <1>8, <2>1, <2>3 DEF Tick, TimesInv, ZeroKeyNeedsSlowPoll, InShutdown, Returned
<1>9. CASE UNCHANGED vars
  BY <1>9 DEF TimesInv, ZeroKeyNeedsSlowPoll, InShutdown, Returned
<1> QED
  BY <1>1, <1>2, <1>3, <1>4, <1>5, <1>6, <1>7, <1>8, <1>9 DEF Next, RunnerStep

\* The session, the recorded stop and the reported result, over every step.
LEMMA ReportStep ==
  ASSUME TypeOK, ShutdownInv, [Next]_vars
  PROVE  ShutdownInv'
<1>1. CASE StartSession \/ Started \/ StartCancelled \/ BeginPoll \/ EndPoll \/ BeginShutdown
  BY <1>1 DEF StartSession, Started, StartCancelled, BeginPoll, EndPoll, BeginShutdown, ShutdownInv
<1>2. CASE ShutdownStep
  <2>0. UNCHANGED <<host, report, collecting>>
    BY <1>2 DEF ShutdownStep, SummaryBegins, SummarySeals, SummaryCommits, FinalizeSession,
       StopSeals, StopBegins, StopCommits, ShutdownFails, Fails, Succeeds
  <2>1. CASE SummaryBegins \/ SummarySeals \/ SummaryCommits
    <3>1. /\ runner' \in {"summarySeal", "summaryCommit", "finalize"}
          /\ runner \in {"summary", "summarySeal", "summaryCommit"} /\ session' = session
      BY <2>1 DEF SummaryBegins, SummarySeals, SummaryCommits, Succeeds
    <3> QED
      BY <2>0, <3>1 DEF ShutdownInv
  <2>2. CASE FinalizeSession
    BY <2>0, <2>2 DEF FinalizeSession, Succeeds, ShutdownInv
  <2>3. CASE StopSeals \/ StopBegins
    BY <2>0, <2>3 DEF StopSeals, StopBegins, Succeeds, ShutdownInv
  <2>4. CASE StopCommits
    BY <2>0, <2>4 DEF StopCommits, Succeeds, ShutdownInv
  <2>5. CASE ShutdownFails
    <3>1. /\ failed' = TRUE /\ runner # "done" /\ runner # "canceled" /\ session' = session
          /\ runner' # "canceled"
          /\ runner' = "finalize" => runner \in {"summary", "summarySeal", "summaryCommit"}
          /\ runner' \notin {"summary", "summarySeal", "summaryCommit"}
      BY <2>5 DEF ShutdownFails, Fails
    <3> QED
      BY <2>0, <3>1 DEF ShutdownInv
  <2> QED
    BY <1>2, <2>1, <2>2, <2>3, <2>4, <2>5 DEF ShutdownStep
<1>3. CASE Start \/ Stop \/ StopWaits \/ StopGivesUp \/ Close \/ Exit \/ NextProcess
  BY <1>3 DEF Start, Stop, StopWaits, StopGivesUp, Close, Exit, NextProcess, Returned, ShutdownInv
<1>4. CASE Tick
  BY <1>4 DEF Tick, ShutdownInv
<1>5. CASE UNCHANGED vars
  BY <1>5 DEF ShutdownInv
<1> QED
  BY <1>1, <1>2, <1>3, <1>4, <1>5 DEF Next, RunnerStep

\* A result of no error is reported of a runner that ended without one.
LEMMA QuietFromShutdown == ASSUME TypeOK, ShutdownInv PROVE QuietStopFinalises
BY DEF ShutdownInv, QuietStopFinalises, TypeOK

\* The inductive invariant of stopping, for any timeouts.
THEOREM StopAlways == Spec => []StopInv
<1>1. Init => StopInv
  <2> SUFFICES ASSUME Init PROVE StopInv
    OBVIOUS
  <2>1. TypeOK
    <3>1. 0 \in 0..MaxTime /\ 0 \in 0..PollTimeout /\ 0 \in 0..ShutdownTimeout
      BY StopAssumption
    <3>2. /\ zeroKey \in BOOLEAN /\ stopping \in BOOLEAN /\ failed \in BOOLEAN
          /\ slow \in BOOLEAN /\ collecting \in BOOLEAN
      BY DEF Init
    <3> QED
      BY <3>1, <3>2 DEF Init, TypeOK, Hosts, Runners
  <2>2. TimesInv /\ ZeroKeyNeedsSlowPoll /\ ShutdownInv
    BY DEF Init, TimesInv, ZeroKeyNeedsSlowPoll, ShutdownInv, InShutdown
  <2> QED
    BY <2>1, <2>2, QuietFromShutdown DEF StopInv
<1>2. StopInv /\ [Next]_vars => StopInv'
  <2> SUFFICES ASSUME StopInv, [Next]_vars PROVE StopInv'
    OBVIOUS
  <2>1. TypeOK'
    BY StopTypeStep DEF StopInv
  <2>2. TimesInv' /\ ZeroKeyNeedsSlowPoll'
    BY TimesStep DEF StopInv
  <2>3. ShutdownInv'
    BY ReportStep DEF StopInv
  <2>4. QuietStopFinalises'
    BY <2>1, <2>3 DEF ShutdownInv, QuietStopFinalises, TypeOK
  <2> QED
    BY <2>1, <2>2, <2>3, <2>4 DEF StopInv
<1> QED
  BY <1>1, <1>2, PTL DEF Spec

\* Whatever the timeouts are, a row is encrypted with the cleared key only after a
\* poll that held the shutdown up for longer than the slack (Stop, Close).
THEOREM ZeroKeyComesFromSlowPolls == Spec => []ZeroKeyNeedsSlowPoll
<1>1. StopInv => ZeroKeyNeedsSlowPoll
  BY DEF StopInv
<1> QED
  BY <1>1, StopAlways, PTL

\* A stop that reports no error has closed the session and recorded the stop, or
\* met the runner before its loop (Stop, shutdown).
THEOREM QuietStopsFinalise == Spec => []QuietStopFinalises
<1>1. StopInv => QuietStopFinalises
  BY DEF StopInv
<1> QED
  BY <1>1, StopAlways, PTL
=============================================================================
