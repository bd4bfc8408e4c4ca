--------------------------- MODULE RetrySchedule ----------------------------
(***************************************************************************)
(* The timestamps of the outbox: which rows ClaimReadyBatch selects at a   *)
(* given time and in which order (internal/store/store.go), and the time   *)
(* the next attempt is put off to after a retryable answer (backoff,       *)
(* Retry-After and their cap in internal/syncer/syncer.go).                *)
(*                                                                         *)
(* Timestamps are stored and compared as RFC3339Nano text, which drops the *)
(* trailing zeros of the fraction: within one second a time without a      *)
(* fraction sorts after every time with one ('Z' is greater than '.').     *)
(* The clock counts ticks, SecondTicks to the second, the first being the  *)
(* whole second and the others one-digit fractions.  It may be set back.   *)
(***************************************************************************)
EXTENDS Integers, FiniteSets

CONSTANTS
  Rows,           \* outbox rows
  BatchSize,      \* SyncConfig.BatchSize
  SecondTicks,    \* ticks of the model's clock in a second
  BaseRetryDelay, MaxRetryDelay,  \* SyncConfig, in ticks
  MaxExponent,    \* the cap on the exponent of the backoff (20 in the code)
  Width,          \* bits of a duration (64 in the code)
  RetryAfterSeconds,  \* the numbers of seconds a server may ask to wait
  MaxTime,        \* bound: the clock stops there
  MaxSetBacks     \* bound: how often the clock is set back

ASSUME ScheduleAssumption ==
  /\ BatchSize \in Nat \ {0} /\ SecondTicks \in Nat \ {0}
  /\ BaseRetryDelay \in Nat \ {0}
  /\ MaxRetryDelay \in Nat /\ MaxRetryDelay >= BaseRetryDelay
  /\ MaxExponent \in Nat /\ Width \in Nat \ {0}
  /\ MaxRetryDelay < 2^(Width - 1)
  /\ RetryAfterSeconds \subseteq Nat
  /\ MaxTime \in Nat /\ MaxTime >= SecondTicks
  /\ MaxSetBacks \in Nat

\* A fact of arithmetic the provers do not know.
ASSUME PowerAssumption ==
  /\ \A n \in 0..MaxExponent : 2^n \in Nat \ {0}
  /\ 2^Width \in Nat \ {0} /\ 2^(Width - 1) \in Nat

VARIABLES
  clock,
  state,       \* sync_outbox.status
  created,     \* created_at_utc
  next,        \* next_attempt_at_utc, Null until a first retry
  attempts,    \* attempt_count, counted up to MaxExponent
  batch,       \* rows of the Flush call in progress
  deferredAt,  \* history: the clock when MarkRetry wrote next, Null if it did not
  setBacks     \* how often the clock was set back

vars == <<clock, state, created, next, attempts, batch, deferredAt, setBacks>>

Null == 0

TypeOK ==
  /\ clock \in 1..MaxTime
  /\ state \in [Rows -> {"unborn", "pending", "processing", "retry", "synced"}]
  /\ created \in [Rows -> 0..MaxTime]
  /\ next \in [Rows -> Nat]
  /\ attempts \in [Rows -> 0..MaxExponent]
  /\ batch \in SUBSET Rows
  /\ deferredAt \in [Rows -> 0..MaxTime]
  /\ setBacks \in 0..MaxSetBacks

Init ==
  /\ clock \in 1..SecondTicks
  /\ state = [r \in Rows |-> "unborn"]
  /\ created = [r \in Rows |-> Null]
  /\ next = [r \in Rows |-> Null]
  /\ attempts = [r \in Rows |-> 0]
  /\ batch = {}
  /\ deferredAt = [r \in Rows |-> Null]
  /\ setBacks = 0

-----------------------------------------------------------------------------
\* The place of a timestamp's text in the order of texts.
TextRank(t) == IF t % SecondTicks = 0 THEN t + SecondTicks - 1 ELSE t - 1

\* Mutants: the time is not compared at all, or with an earlier one than now.
ClaimableAnyTime(r, now) == state[r] \in {"pending", "retry"}

ClaimableLate(r, now) ==
  /\ state[r] \in {"pending", "retry"}
  /\ next[r] = Null \/ TextRank(next[r]) + SecondTicks < TextRank(now)

\* next_attempt_at_utc IS NULL OR next_attempt_at_utc <= ?
Claimable(r, now) ==
  /\ state[r] \in {"pending", "retry"}
  /\ next[r] = Null \/ TextRank(next[r]) <= TextRank(now)

\* Mutant: NULLs sort last.
AttemptRankNullsLast(r) == IF next[r] = Null THEN 2 * (MaxTime + SecondTicks + MaxRetryDelay)
                           ELSE 1 + TextRank(next[r])

\* ORDER BY next_attempt_at_utc IS NOT NULL, next_attempt_at_utc, created_at_utc
AttemptRank(r) == IF next[r] = Null THEN 0 ELSE 1 + TextRank(next[r])

Precedes(r, s) ==
  \/ AttemptRank(r) < AttemptRank(s)
  \/ /\ AttemptRank(r) = AttemptRank(s)
     /\ TextRank(created[r]) < TextRank(created[s])

Ready(now) == {r \in Rows : Claimable(r, now)}

Selection(now) ==
  {B \in SUBSET Ready(now) :
     /\ Cardinality(B) = IF Cardinality(Ready(now)) < BatchSize
                         THEN Cardinality(Ready(now)) ELSE BatchSize
     /\ \A r \in B, s \in Ready(now) \ B : ~ Precedes(s, r)}

SmallerOf(x, y) == IF x < y THEN x ELSE y

\* backoff: the jitter New installs is the constant 0.5, a factor of one.  The
\* longest-tried row of the batch decides for all of them.
Backoff(B) ==
  LET tried == CHOOSE n \in {attempts[r] : r \in B} : \A r \in B : attempts[r] <= n
  IN SmallerOf(BaseRetryDelay * 2^SmallerOf(tried, MaxExponent), MaxRetryDelay)

\* A duration is a Width-bit signed integer.
Wrap(x) == ((x + 2^(Width - 1)) % 2^Width) - 2^(Width - 1)

\* parseRetryAfter: absent or unreadable, a number of seconds, or an HTTP date,
\* which is a whole second and counts only if it is later than now.
RetryAfters(now) ==
  {0} \cup {Wrap(n * SecondTicks) : n \in RetryAfterSeconds}
      \cup {t - now : t \in {u \in now + 1 .. MaxTime : u % SecondTicks = 0}}

\* Mutant: a Retry-After that overflowed is taken for a delay.
DelayUnchecked(B, retryAfter) ==
  SmallerOf(IF retryAfter # 0 THEN retryAfter ELSE Backoff(B), MaxRetryDelay)

\* markRetry
Delay(B, retryAfter) ==
  SmallerOf(IF retryAfter > 0 THEN retryAfter ELSE Backoff(B), MaxRetryDelay)

-----------------------------------------------------------------------------
Tick ==
  /\ clock < MaxTime
  /\ clock' = clock + 1
  /\ UNCHANGED <<state, created, next, attempts, batch, deferredAt, setBacks>>

\* The wall clock is set back: a scheduled retry waits for the difference as well.
SetBack ==
  /\ setBacks < MaxSetBacks
  /\ clock' \in 1..(clock - 1)
  /\ setBacks' = setBacks + 1
  /\ UNCHANGED <<state, created, next, attempts, batch, deferredAt>>

Queue(r) ==
  /\ state[r] = "unborn" /\ batch = {}
  /\ state' = [state EXCEPT ![r] = "pending"]
  /\ created' = [created EXCEPT ![r] = clock]
  /\ UNCHANGED <<clock, next, attempts, batch, deferredAt, setBacks>>

Claim(B) ==
  /\ batch = {} /\ B # {} /\ B \in Selection(clock)
  /\ state' = [r \in Rows |-> IF r \in B THEN "processing" ELSE state[r]]
  /\ batch' = B
  /\ UNCHANGED <<clock, created, next, attempts, deferredAt, setBacks>>

MarkSynced ==
  /\ batch # {}
  /\ state' = [r \in Rows |-> IF r \in batch THEN "synced" ELSE state[r]]
  /\ batch' = {}
  /\ UNCHANGED <<clock, created, next, attempts, deferredAt, setBacks>>

\* Mutant: the exponent counts on past its cap.
MarkRetryCountsOn(retryAfter) ==
  /\ batch # {}
  /\ state' = [r \in Rows |-> IF r \in batch THEN "retry" ELSE state[r]]
  /\ next' = [r \in Rows |-> IF r \in batch THEN clock + Delay(batch, retryAfter) ELSE next[r]]
  /\ attempts' = [r \in Rows |-> IF r \in batch THEN attempts[r] + 1 ELSE attempts[r]]
  /\ deferredAt' = [r \in Rows |-> IF r \in batch THEN clock ELSE deferredAt[r]]
  /\ batch' = {}
  /\ UNCHANGED <<clock, created, setBacks>>

\* markRetry reads the clock again, after the exchange.
MarkRetry(retryAfter) ==
  /\ batch # {}
  /\ state' = [r \in Rows |-> IF r \in batch THEN "retry" ELSE state[r]]
  /\ next' = [r \in Rows |-> IF r \in batch THEN clock + Delay(batch, retryAfter) ELSE next[r]]
  /\ attempts' = [r \in Rows |-> IF r \in batch THEN SmallerOf(attempts[r] + 1, MaxExponent)
                                 ELSE attempts[r]]
  /\ deferredAt' = [r \in Rows |-> IF r \in batch THEN clock ELSE deferredAt[r]]
  /\ batch' = {}
  /\ UNCHANGED <<clock, created, setBacks>>

\* A restart in the middle of a call: RecoverProcessing makes the rows due now
\* and leaves attempt_count alone.
Restart ==
  /\ batch # {}
  /\ state' = [r \in Rows |-> IF r \in batch THEN "retry" ELSE state[r]]
  /\ next' = [r \in Rows |-> IF r \in batch THEN clock ELSE next[r]]
  /\ deferredAt' = [r \in Rows |-> IF r \in batch THEN Null ELSE deferredAt[r]]
  /\ batch' = {}
  /\ UNCHANGED <<clock, created, attempts, setBacks>>

Next ==
  \/ Tick \/ SetBack
  \/ \E r \in Rows : Queue(r)
  \/ \E B \in SUBSET Rows : Claim(B)
  \/ MarkSynced \/ Restart
  \/ \E a \in RetryAfters(clock) : MarkRetry(a)

Spec == Init /\ [][Next]_vars

-----------------------------------------------------------------------------
\* Whatever the server asks for, even a number of seconds that overflows the
\* duration, the next attempt lies in the future and at most MaxRetryDelay away
\* (parseRetryAfter, backoff and the cap of markRetry).
DeferralBounded ==
  \A r \in Rows :
    deferredAt[r] # Null => next[r] - deferredAt[r] \in 1..MaxRetryDelay

\* The text comparison costs less than a second either way: a row is claimed
\* less than a second before its time and is claimable a second after it, by the
\* clock as it is, set back or not (ClaimReadyBatch).
ClaimedNearItsTime ==
  [][\A r \in batch' \ batch : next[r] # Null => clock > next[r] - SecondTicks]_vars

OverdueIsClaimable ==
  \A r \in Rows :
    state[r] = "retry" /\ next[r] + SecondTicks <= clock => Claimable(r, clock)

\* A claim that leaves rows behind leaves the later ones, up to a second: rows
\* never tried go first, then rows by the time of their next attempt
\* (the ORDER BY of ClaimReadyBatch).
OldestFirst ==
  [][\A r \in batch' \ batch, s \in Ready(clock) \ batch' :
       batch' # {} =>
         /\ next[s] = Null => next[r] = Null /\ created[r] < created[s] + SecondTicks
         /\ next[s] # Null /\ next[r] # Null => next[r] < next[s] + SecondTicks]_vars
=============================================================================
