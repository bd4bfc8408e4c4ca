--------------------------- MODULE MCDailySummary ---------------------------
\* Instance of DailySummary: a user who is active or idle.
EXTENDS DailySummary
\* Two seconds and a third between samples, midnight between two of them.
MCMoment == [t \in 0..MaxTime |-> 7 * t]
MCObserved == {"active", "idle"}
=============================================================================
