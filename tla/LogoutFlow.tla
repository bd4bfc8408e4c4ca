----------------------------- MODULE LogoutFlow -----------------------------
(***************************************************************************)
(* An ERP logout, the only event that uploads: the marker file of the      *)
(* desktop client and the flag of the web client (internal/control), and   *)
(* Runner.consumeControl (internal/agent/runner.go), which records the     *)
(* logout, closes the session, drains the Outbox and acknowledges the web  *)
(* request.  One goroutine runs it all, so nothing is recorded during a    *)
(* pass; the context may be cancelled and the process may die in any step. *)
(* An acknowledgement the agent gave up on may still reach the server.     *)
(***************************************************************************)
EXTENDS Outbox

VARIABLES
  marker,     \* the logout request file exists
  flag,       \* the server asks for a flush (external)
  step,       \* where consumeControl is; "loop" outside it
  ackServer,  \* CombinedLogoutControl.pendingAcknowledger is the server control
  lateAck,    \* an acknowledgement was given up and may still arrive (external)
  covered,    \* history: the rows recorded when the latest of these was sent
  fresh,      \* history: rows recorded since the latest drain began
  origin,     \* history: what started the pass, "file" or "server"; "none" in the loop
  overtaken   \* history: the flag was last lowered by a late acknowledgement

ctlVars == <<marker, flag, step, ackServer, lateAck>>
history == <<covered, fresh, origin, overtaken>>
allVars == <<vars, ctlVars, history>>

LogoutTypeOK ==
  /\ TypeOK
  /\ marker \in BOOLEAN /\ flag \in BOOLEAN /\ ackServer \in BOOLEAN
  /\ step \in {"loop", "record", "summary", "session", "flush", "ack"}
  /\ lateAck \in BOOLEAN
  /\ covered \in SUBSET Items /\ fresh \in SUBSET Items
  /\ origin \in {"none", "file", "server"}
  /\ overtaken \in BOOLEAN

LogoutInit ==
  /\ Init
  /\ marker = FALSE /\ flag = FALSE /\ step = "loop" /\ ackServer = FALSE
  /\ lateAck = FALSE
  /\ covered = {} /\ fresh = {} /\ origin = "none" /\ overtaken = FALSE

-----------------------------------------------------------------------------
\* LogoutMarker.Signal, run by the desktop client.
SignalLogout ==
  /\ marker' = TRUE
  /\ UNCHANGED <<vars, flag, step, ackServer, lateAck, history>>

\* The web client logs out and the server raises the device's flag.
WebLogout ==
  /\ flag' = TRUE /\ overtaken' = FALSE
  /\ UNCHANGED <<vars, marker, step, ackServer, lateAck, covered, fresh, origin>>

\* An acknowledgement the agent no longer waits for reaches the server, which
\* cannot tell which request it answers.
LateAcknowledgement ==
  /\ flag /\ lateAck
  /\ flag' = FALSE /\ overtaken' = TRUE
  /\ UNCHANGED <<vars, marker, step, ackServer, lateAck, covered, fresh, origin>>

InLoop == agent = "running" /\ step = "loop"

\* Mutant: a file found after the server was asked does not forget the server.
ConsumeMarkerKeepingServer ==
  /\ InLoop /\ marker
  /\ marker' = FALSE
  /\ step' = "record" /\ origin' = "file"
  /\ UNCHANGED <<vars, flag, ackServer, lateAck, covered, fresh, overtaken>>

\* CombinedLogoutControl.Consume finds the file and removes it: the server is
\* neither asked nor acknowledged in this pass.
ConsumeMarker ==
  /\ InLoop /\ marker
  /\ marker' = FALSE /\ ackServer' = FALSE
  /\ step' = "record" /\ origin' = "file"
  /\ UNCHANGED <<vars, flag, lateAck, covered, fresh, overtaken>>

\* Mutant: the acknowledger is forgotten when the server's answer is a yes.
ConsumeFlagForgettingServer ==
  /\ InLoop /\ ~marker /\ flag
  /\ ackServer' = FALSE
  /\ step' = "record" /\ origin' = "server"
  /\ UNCHANGED <<vars, marker, flag, lateAck, covered, fresh, overtaken>>

\* No file: the server is asked, and keeps its flag.  It uses a context of its
\* own, so a cancelled service still asks.
ConsumeFlag ==
  /\ InLoop /\ ~marker /\ flag
  /\ ackServer' = TRUE
  /\ step' = "record" /\ origin' = "server"
  /\ UNCHANGED <<vars, marker, flag, lateAck, covered, fresh, overtaken>>

\* Nothing is asked, or Consume fails (the file cannot be removed, the server
\* does not answer): only the pending acknowledgement is forgotten.
ConsumeNothing ==
  /\ InLoop
  /\ ackServer' = FALSE
  /\ UNCHANGED <<vars, marker, flag, step, lateAck, history>>

\* A row is recorded during the pass, one that is followed or another.
RecordRow == (\E i \in Items : Queue(i)) \/ (CanWrite /\ UNCHANGED vars)

\* Rows recorded so far belong to the drain that begins; later ones do not.
Recorded ==
  /\ fresh' = fresh \cup (InStatus("unborn") \ {i \in Items : status'[i] = "unborn"})
  /\ UNCHANGED <<covered, origin, overtaken>>

\* record("user-logout"); the attendance check-out that follows is sent and
\* forgotten.
RecordLogout ==
  /\ step = "record"
  /\ RecordRow /\ Recorded
  /\ step' = "summary"
  /\ UNCHANGED <<marker, flag, ackServer, lateAck>>

PrepareDailySummary ==
  /\ step = "summary"
  /\ RecordRow /\ Recorded
  /\ step' = "session"
  /\ UNCHANGED <<marker, flag, ackServer, lateAck>>

\* FinalizeSession and StartSession, which change no outbox row; without
\* collection the summary and the session are both skipped.
BeginDrain ==
  /\ step = "summary" \/ (step = "session" /\ ~cancelled)
  /\ step' = "flush"
  /\ fresh' = {}
  /\ UNCHANGED <<vars, marker, flag, ackServer, lateAck, covered, origin, overtaken>>

\* The early returns: recording, the summary or the session fails.
PassFails ==
  /\ step \in {"record", "summary", "session"}
  /\ step' = "loop" /\ origin' = "none"
  /\ UNCHANGED <<vars, marker, flag, ackServer, lateAck, covered, fresh, overtaken>>

\* A step of the drain; a pass that returns to the loop was started by nothing.
InDrain(A, next) ==
  /\ step = "flush"
  /\ A
  /\ step' = next /\ origin' = IF next = "loop" THEN "none" ELSE origin
  /\ UNCHANGED <<marker, flag, ackServer, lateAck, covered, fresh, overtaken>>

\* A call of Flush that has not returned yet, or has uploaded a batch.
DrainGoesOn ==
  (\E B \in SUBSET Items : FlushClaim(B)) \/ MarkSynced
    \/ (\E a \in Answers, S \in SUBSET Items : Exchange(a, S))

\* A call that returns an error.
DrainFails == FlushClaimFails \/ MarkRetry \/ MarkPermanentFailure \/ MarkFails

AfterDrain == IF ackServer THEN "ack" ELSE "loop"

\* Mutant: the outbox is also flushed from the loop.
FlushOnTimer ==
  \/ step = "loop" /\ Flush /\ UNCHANGED <<ctlVars, history>>
  \/ InDrain(DrainGoesOn, "flush")
  \/ InDrain(FlushFindsNothing, AfterDrain)

\* Mutant: an error of Flush ends the drain but not the pass.
FlushErrorIgnored ==
  \/ InDrain(DrainGoesOn, "flush")
  \/ InDrain(FlushFindsNothing \/ DrainFails, AfterDrain)

\* flushPending: Flush is called until it returns no rows or an error; after no
\* rows Acknowledge is called, which does nothing when the file started the pass.
FlushPending ==
  \/ InDrain(DrainGoesOn, "flush")
  \/ InDrain(FlushFindsNothing, AfterDrain)
  \/ InDrain(DrainFails, "loop")

\* The rows on the device.
Known == Items \ InStatus("unborn")

\* ServerLogoutControl.Acknowledge: the server lowers its flag.
Acknowledge ==
  /\ step = "ack" /\ ~cancelled
  /\ flag' = FALSE /\ ackServer' = FALSE /\ overtaken' = (overtaken /\ ~flag)
  /\ step' = "loop" /\ origin' = "none"
  /\ UNCHANGED <<vars, marker, lateAck, covered, fresh>>

\* The request is given up, after its ten seconds or at a stop, on its way.
GivenUp == lateAck' = TRUE /\ covered' = Known

\* The answer is lost or is not the expected one, whether the server has lowered
\* the flag or not; or the request is given up and may still arrive.
AcknowledgeFails ==
  /\ step = "ack"
  /\ \/ flag' \in {flag, FALSE} /\ UNCHANGED <<lateAck, covered>>
     \/ GivenUp /\ UNCHANGED flag
  /\ overtaken' = (overtaken /\ flag' = flag)
  /\ step' = "loop" /\ origin' = "none"
  /\ UNCHANGED <<vars, marker, ackServer, fresh>>

-----------------------------------------------------------------------------
\* Everything else the runner and the service manager do: heartbeats, samples,
\* summaries and inventories only record rows, and only between passes.
Background ==
  /\ UNCHANGED <<marker, flag>>
  /\ \/ /\ step = "loop"
        /\ \/ \E i \in Items : Queue(i) /\ Recorded
           \/ BeginShutdown /\ UNCHANGED history
        /\ UNCHANGED <<step, ackServer, lateAck>>
     \/ /\ Start \/ Cancel \/ (\E i \in Items : TimePasses(i))
                \/ (\E S \in SUBSET Items : LateArrival(S))
        /\ UNCHANGED <<step, ackServer, lateAck, history>>

\* The process ends, an acknowledgement perhaps on its way.
ProcessEndsInPass ==
  /\ ProcessEnds
  /\ step' = "loop" /\ ackServer' = FALSE /\ origin' = "none"
  /\ (step = "ack" /\ GivenUp) \/ UNCHANGED <<lateAck, covered>>
  /\ UNCHANGED <<marker, flag, fresh, overtaken>>

ConsumeControl ==
  \/ ConsumeMarker \/ ConsumeFlag \/ ConsumeNothing
  \/ RecordLogout \/ PrepareDailySummary \/ BeginDrain \/ PassFails
  \/ FlushPending \/ Acknowledge \/ AcknowledgeFails

LogoutNext ==
  \/ SignalLogout \/ WebLogout \/ LateAcknowledgement
  \/ ConsumeControl
  \/ Background \/ ProcessEndsInPass

LogoutSpec == LogoutInit /\ [][LogoutNext]_allVars

(***************************************************************************)
(* The ticker polls, and each statement and exchange that is tried again   *)
(* and again succeeds again and again.                                     *)
(***************************************************************************)
LogoutFairness ==
  /\ SF_allVars(ConsumeFlag)
  /\ SF_allVars(RecordLogout) /\ SF_allVars(PrepareDailySummary) /\ SF_allVars(BeginDrain)
  /\ WF_allVars(FlushPending)
  /\ SF_allVars(InDrain(\E B \in SUBSET Items : FlushClaim(B), "flush"))
  /\ SF_allVars(InDrain(FlushFindsNothing, AfterDrain))
  /\ SF_allVars(InDrain(Exchange("success", batch), "flush"))
  /\ SF_allVars(InDrain(MarkSynced, "flush"))
  /\ SF_allVars(Acknowledge)

LogoutFairSpec == LogoutSpec /\ LogoutFairness

-----------------------------------------------------------------------------
(***************************************************************************)
(* Properties.                                                             *)
(***************************************************************************)

\* The flag is lowered only by an acknowledgement before which everything on the
\* device had its first attempt, however late it arrives: what waits for a first
\* attempt then was recorded after an acknowledgement was sent (consumeControl,
\* flushPending, Acknowledge).
AcknowledgedAfterFirstAttempts ==
  [][flag /\ ~flag' =>
       \/ step = "ack" /\ InStatus("pending") = {}
       \/ lateAck /\ covered \cap InStatus("pending") = {}]_allVars

\* server_control.go says the flag is cleared only after the complete outbox is
\* drained.  Rows whose next attempt is not due yet are not drained and do not
\* stop the acknowledgement.
AcknowledgedAfterCompleteDrain ==
  [][step = "ack" /\ flag /\ ~flag' =>
       InStatus("pending") \cup InStatus("retry") = {}]_allVars

\* What is recorded after a drain has begun leaves the device only in the drain
\* of a later logout: not at a start, a heartbeat, a summary or a shutdown
\* (the comment on flushPending; Run, shutdown).
UploadsOnlyAtLogout == fresh \cap (batch \cup accepted) = {}

\* Acknowledgements are sent by nothing but a pass the server started: a logout
\* by file sends none, though an earlier pass may have failed before its own.
\* The flag is lowered by such a pass or by an acknowledgement that one gave up,
\* which may then answer a newer request (CombinedLogoutControl).
OnlyServerPassesAcknowledge ==
  [][/\ flag /\ ~flag' => \/ origin = "server" /\ step = "ack" /\ agent = "running"
                          \/ overtaken' /\ lateAck
     /\ <<lateAck, covered>>' # <<lateAck, covered>> =>
          origin = "server" /\ step = "ack" /\ agent = "running"]_allVars

\* An acknowledgement was sent after the first attempt of every row of its time,
\* and the flag that one has lowered late is down until the next web logout.
LateAckInv ==
  /\ covered \cap (InStatus("unborn") \cup InStatus("pending")) = {}
  /\ overtaken => lateAck /\ ~flag

\* The inductive invariant: only a running service is in a pass, calls of Flush
\* happen in its drain only, nothing is recorded from there to the end of the
\* pass, and an acknowledgement is pending only in a pass the server started.
LogoutInv ==
  /\ LogoutTypeOK
  /\ OutboxInv
  /\ fresh \cap (batch \cup accepted \cup abandoned) = {}
  /\ step # "loop" => agent = "running"
  /\ call # "idle" => step = "flush"
  /\ step = "flush" => fresh = {}
  /\ step # "loop" /\ ackServer => origin = "server"
  /\ step = "ack" => ackServer /\ InStatus("pending") = {}
  /\ LateAckInv

\* A service that stays up, while no more logouts come by file, eventually
\* answers every web logout, and nothing waits for its first attempt when it
\* does.  Two things are excepted: a waiting row that cannot be decoded makes
\* every drain fail, and an acknowledgement given up earlier may arrive instead.
WebLogoutAnswered ==
  <>[](agent = "running" /\ ~cancelled /\ ~marker) =>
    (flag ~> \/ \E u \in Undecodable : status[u] = "pending"
             \/ ~flag /\ (overtaken \/ InStatus("pending") = {}))
=============================================================================
