------------------------ MODULE RetryScheduleProofs -------------------------
(***************************************************************************)
(* Proofs about RetrySchedule, for any rows, delays, clocks and Retry-     *)
(* After.                                                                  *)
(***************************************************************************)
EXTENDS RetrySchedule, WellFoundedInduction, TLAPS

-----------------------------------------------------------------------------
\* The order of texts and the order of times.

\* The seconds that are left of a tick's number.
LEMMA SecondsRest ==
  ASSUME NEW n \in Nat \ {0}, NEW t \in Nat
  PROVE  /\ t = n * (t \div n) + (t % n)
         /\ t \div n \in Int /\ t % n \in Int /\ 0 <= t % n /\ t % n < n
  BY SMTT(20)

\* Where one time is whole, another of the same remainder is.
LEMMA NextSecond ==
  ASSUME NEW n \in Nat \ {0}, NEW x \in Nat, NEW y \in Nat, x = y + n, y % n = 0
  PROVE  x % n = 0
<1>1. /\ x = n * (x \div n) + (x % n) /\ y = n * (y \div n)
      /\ x \div n \in Int /\ y \div n \in Int /\ x % n \in Int /\ 0 <= x % n /\ x % n < n
  BY SecondsRest
<1> DEFINE a == x \div n
           b == y \div n
           c == x % n
<1> HIDE DEF a, b, c
<1>2. a \in Int /\ b \in Int /\ c \in Int /\ 0 <= c /\ c < n /\ n * a + c = n * b + n
  BY <1>1 DEF a, b, c
<1>3. n * (b + 1) = n * b + n
  BY <1>2
<1>4. CASE a <= b
  <2>1. n * a <= n * b
    BY <1>2, <1>4
  <2> QED BY <1>2, <2>1
<1>5. CASE a = b + 1
  <2>1. c = 0
    BY <1>2, <1>3, <1>5
  <2> QED BY <2>1 DEF c
<1>6. CASE b + 2 <= a
  <2>1. n * (b + 2) <= n * a
    BY <1>2, <1>6
  <2>2. n * (b + 2) = n * b + n + n
    BY <1>2
  <2> QED BY <1>2, <2>1, <2>2
<1> QED BY <1>2, <1>4, <1>5, <1>6

\* The rank of a time's text, by its second and its fraction.
LEMMA TextRankIs ==
  ASSUME NEW t \in Nat
  PROVE  /\ t % SecondTicks = 0 => TextRank(t) = t + SecondTicks - 1
         /\ t % SecondTicks # 0 => TextRank(t) = t - 1
         /\ TextRank(t) \in Int /\ t - 1 <= TextRank(t) /\ TextRank(t) <= t + SecondTicks - 1
  BY ScheduleAssumption DEF TextRank

\* A text that does not come after another one is of a time less than a second after.
LEMMA TextOrder ==
  ASSUME NEW x \in Nat, NEW y \in Nat, TextRank(x) <= TextRank(y)
  PROVE  x < y + SecondTicks
<1>1. SecondTicks \in Nat \ {0}
  BY ScheduleAssumption
<1>2. SUFFICES ASSUME y + SecondTicks <= x PROVE FALSE
  BY <1>1
<1>3. y % SecondTicks = 0 /\ x % SecondTicks # 0 /\ x = y + SecondTicks
  BY <1>1, <1>2, TextRankIs
<1> QED BY <1>1, <1>3, NextSecond

\* Times a second apart are in the order of their texts.
LEMMA TextOrderOfSeconds ==
  ASSUME NEW x \in Nat, NEW y \in Nat, x + SecondTicks <= y
  PROVE  TextRank(x) <= TextRank(y)
  BY ScheduleAssumption, TextRankIs

-----------------------------------------------------------------------------
\* The delay.

Less == {p \in Nat \X Nat : p[1] < p[2]}

\* The order of the numbers is well founded.
LEMMA LessIsWellFounded == IsWellFoundedOn(Less, Nat)
  BY NatLessThanWellFounded DEF Less, OpToRel

\* A set of numbers that is not empty has a least one.
LEMMA LeastNumber ==
  ASSUME NEW T, T \subseteq Nat, T # {}
  PROVE  \E x \in T : \A y \in T : x <= y
<1>1. PICK x \in T : \A y \in T : <<y, x>> \notin Less
  BY LessIsWellFounded, WFMin
<1>2. ASSUME NEW y \in T PROVE x <= y
  <2>1. x \in Nat /\ y \in Nat /\ <<y, x>> \notin Less
    BY <1>1
  <2>2. ~(y < x)
    BY <2>1 DEF Less
  <2> QED BY <2>1, <2>2
<1> QED BY <1>2

\* A bounded set of numbers that is not empty has a greatest one.
LEMMA GreatestNumber ==
  ASSUME NEW n \in Nat, NEW T, T \subseteq 0..n, T # {}
  PROVE  \E x \in T : \A y \in T : y <= x
<1> DEFINE U == {n - x : x \in T}
<1>1. U \subseteq Nat /\ U # {}
  <2>1. \A x \in T : x \in Int /\ x <= n /\ n - x \in Nat
    OBVIOUS
  <2> QED BY <2>1
<1>2. PICK u \in U : \A v \in U : u <= v
  BY <1>1, LeastNumber
<1>3. PICK x \in T : u = n - x
  OBVIOUS
<1>4. ASSUME NEW y \in T PROVE y <= x
  <2>1. n - y \in U
    OBVIOUS
  <2>2. n - x <= n - y
    BY <1>2, <1>3, <2>1
  <2> QED BY <2>2
<1> QED BY <1>4

\* What the backoff of an attempt is, and that it is a number.
LEMMA BackoffIs ==
  ASSUME TypeOK, NEW B, B \subseteq Rows, B # {}
  PROVE  Backoff(B) \in 1..MaxRetryDelay
<1> DEFINE A == {attempts[r] : r \in B}
           tried == CHOOSE n \in A : \A r \in B : attempts[r] <= n
           exponent == SmallerOf(tried, MaxExponent)
<1>1. MaxExponent \in Nat /\ A \subseteq 0..MaxExponent /\ A # {}
  BY ScheduleAssumption DEF TypeOK
<1>2. \E n \in A : \A r \in B : attempts[r] <= n
  <2>1. PICK n \in A : \A m \in A : m <= n
    BY <1>1, GreatestNumber
  <2> QED BY <2>1
<1>3. tried \in A
  BY <1>2
<1> HIDE DEF tried
<1>4. exponent \in 0..MaxExponent
  BY <1>1, <1>3 DEF SmallerOf
<1> HIDE DEF exponent
<1>5. 2^exponent \in Nat \ {0}
  BY <1>4, PowerAssumption
<1> DEFINE power == 2^exponent
<1>6. Backoff(B) = SmallerOf(BaseRetryDelay * power, MaxRetryDelay)
  BY DEF Backoff, tried, exponent
<1> HIDE DEF power
<1>7. BaseRetryDelay \in Nat \ {0} /\ MaxRetryDelay \in Nat /\ MaxRetryDelay >= BaseRetryDelay
      /\ power \in Nat \ {0}
  BY <1>5, ScheduleAssumption DEF power
<1>8. BaseRetryDelay * power \in Nat \ {0}
  BY <1>7
<1> QED BY <1>6, <1>7, <1>8 DEF SmallerOf

\* The delays the server asks for are numbers.
LEMMA RetryAftersAreIntegers ==
  ASSUME clock \in Nat
  PROVE  RetryAfters(clock) \subseteq Int
<1>1. MaxTime \in Nat /\ SecondTicks \in Nat /\ RetryAfterSeconds \subseteq Nat
      /\ 2^Width \in Nat \ {0} /\ 2^(Width - 1) \in Nat
  BY ScheduleAssumption, PowerAssumption
<1>2. ASSUME NEW n \in RetryAfterSeconds PROVE Wrap(n * SecondTicks) \in Int
  <2>1. n * SecondTicks \in Int
    BY <1>1
  <2> DEFINE a == n * SecondTicks + 2^(Width - 1)
             m == 2^Width
  <2>2. a \in Int /\ m \in Nat \ {0}
    BY <1>1, <2>1
  <2> HIDE DEF a, m
  <2>3. a % m \in Int
    BY <2>2
  <2>4. Wrap(n * SecondTicks) = (a % m) - 2^(Width - 1)
    BY DEF Wrap, a, m
  <2> QED BY <1>1, <2>3, <2>4
<1>3. ASSUME NEW t \in {u \in clock + 1 .. MaxTime : u % SecondTicks = 0} PROVE t - clock \in Int
  BY <1>1
<1> QED BY <1>2, <1>3 DEF RetryAfters

\* Whatever the server asks for, the delay is positive and within the cap.
LEMMA DelayIs ==
  ASSUME TypeOK, NEW B, B \subseteq Rows, B # {}, NEW a \in Int
  PROVE  Delay(B, a) \in 1..MaxRetryDelay
<1>1. Backoff(B) \in 1..MaxRetryDelay
  BY BackoffIs
<1>2. MaxRetryDelay \in Nat \ {0}
  BY ScheduleAssumption
<1> QED BY <1>1, <1>2 DEF Delay, SmallerOf

-----------------------------------------------------------------------------
\* The invariant.

ScheduleInv == TypeOK /\ DeferralBounded

\* The invariant holds when the outbox is empty.
LEMMA ScheduleStart == Init => ScheduleInv
  BY ScheduleAssumption DEF Init, ScheduleInv, TypeOK, DeferralBounded, Null

\* Every step keeps the invariant.
LEMMA ScheduleStep == ScheduleInv /\ [Next]_vars => ScheduleInv'
<1> SUFFICES ASSUME ScheduleInv, [Next]_vars PROVE ScheduleInv'
  OBVIOUS
<1>1. /\ TypeOK /\ DeferralBounded /\ clock \in 1..MaxTime /\ MaxTime \in Nat
      /\ MaxExponent \in Nat /\ MaxRetryDelay \in Nat /\ MaxSetBacks \in Nat
  BY ScheduleAssumption DEF ScheduleInv, TypeOK
<1>2. CASE Tick \/ SetBack \/ UNCHANGED vars
  BY <1>1, <1>2 DEF Tick, SetBack, vars, ScheduleInv, TypeOK, DeferralBounded
<1>3. ASSUME NEW r \in Rows, Queue(r) PROVE ScheduleInv'
  BY <1>1, <1>3 DEF Queue, ScheduleInv, TypeOK, DeferralBounded
<1>4. ASSUME NEW B \in SUBSET Rows, Claim(B) PROVE ScheduleInv'
  BY <1>1, <1>4 DEF Claim, ScheduleInv, TypeOK, DeferralBounded
<1>5. CASE MarkSynced
  BY <1>1, <1>5 DEF MarkSynced, ScheduleInv, TypeOK, DeferralBounded
<1>6. CASE Restart
  BY <1>1, <1>6 DEF Restart, ScheduleInv, TypeOK, DeferralBounded, Null
<1>7. ASSUME NEW a \in RetryAfters(clock), MarkRetry(a) PROVE ScheduleInv'
  <2> DEFINE delay == Delay(batch, a)
  <2>1. a \in Int
    BY <1>1, RetryAftersAreIntegers
  <2>2. delay \in 1..MaxRetryDelay
    BY <1>1, <1>7, <2>1, DelayIs DEF MarkRetry, TypeOK
  <2>3. /\ next' = [r \in Rows |-> IF r \in batch THEN clock + delay ELSE next[r]]
        /\ deferredAt' = [r \in Rows |-> IF r \in batch THEN clock ELSE deferredAt[r]]
        /\ attempts' = [r \in Rows |-> IF r \in batch THEN SmallerOf(attempts[r] + 1, MaxExponent)
                                       ELSE attempts[r]]
        /\ state' = [r \in Rows |-> IF r \in batch THEN "retry" ELSE state[r]]
        /\ batch' = {} /\ UNCHANGED <<clock, created, setBacks>>
    BY <1>7 DEF MarkRetry
  <2> HIDE DEF delay
  <2>4. attempts' \in [Rows -> 0..MaxExponent]
    <3>1. \A r \in Rows : SmallerOf(attempts[r] + 1, MaxExponent) \in 0..MaxExponent
      BY <1>1 DEF TypeOK, SmallerOf
    <3> QED BY <1>1, <2>3, <3>1 DEF TypeOK
  <2>5. TypeOK'
    BY <1>1, <2>2, <2>3, <2>4 DEF TypeOK
  <2>6. DeferralBounded'
    BY <1>1, <2>2, <2>3 DEF DeferralBounded, TypeOK
  <2> QED BY <2>5, <2>6 DEF ScheduleInv
<1> QED BY <1>2, <1>3, <1>4, <1>5, <1>6, <1>7 DEF Next

\* The type invariant and the bound on deferrals are inductive together: the exponent
\* stays within its cap, so that the delay stays positive.
THEOREM ScheduleAlways == Spec => []ScheduleInv
  BY ScheduleStart, ScheduleStep, PTL DEF Spec

\* Whatever the server asks for, even where the duration overflows, the next attempt
\* lies in the future and at most MaxRetryDelay away (markRetry, backoff,
\* parseRetryAfter).
THEOREM DeferralsBounded == Spec => []DeferralBounded
<1>1. ScheduleInv => DeferralBounded
  BY DEF ScheduleInv
<1> QED BY <1>1, ScheduleAlways, PTL

\* A second after its time a row is claimable, whatever the clock did meanwhile
\* (ClaimReadyBatch).
THEOREM OverdueClaimable == Spec => []OverdueIsClaimable
<1>1. ScheduleInv => OverdueIsClaimable
  <2> SUFFICES ASSUME TypeOK, NEW r \in Rows, state[r] = "retry", next[r] + SecondTicks <= clock
               PROVE  Claimable(r, clock)
    BY DEF ScheduleInv, OverdueIsClaimable
  <2>1. next[r] \in Nat /\ clock \in Nat
    BY DEF TypeOK
  <2> QED BY <2>1, TextOrderOfSeconds DEF Claimable
<1> QED BY <1>1, ScheduleAlways, PTL

\* Only Claim adds to the batch.
LEMMA OnlyClaimClaims ==
  ASSUME [Next]_vars, NEW r \in batch' \ batch
  PROVE  \E B \in SUBSET Rows : Claim(B) /\ batch' = B
  BY DEF Next, vars, Tick, SetBack, Queue, Claim, MarkSynced, MarkRetry, Restart

\* A row is claimed less than a second before its time at most (ClaimReadyBatch
\* compares texts).
THEOREM ClaimsAreTimely == Spec => ClaimedNearItsTime
<1>1. ScheduleInv /\ [Next]_vars =>
        [\A r \in batch' \ batch : next[r] # Null => clock > next[r] - SecondTicks]_vars
  <2> SUFFICES ASSUME TypeOK, [Next]_vars, NEW r \in batch' \ batch, next[r] # Null
               PROVE  clock > next[r] - SecondTicks
    BY DEF ScheduleInv
  <2>1. r \in Ready(clock) /\ r \in Rows
    BY OnlyClaimClaims DEF Claim, Selection, Ready
  <2>2. next[r] \in Nat /\ clock \in Nat /\ TextRank(next[r]) <= TextRank(clock)
    BY <2>1 DEF TypeOK, Ready, Claimable
  <2>3. next[r] < clock + SecondTicks
    BY <2>2, TextOrder
  <2> QED BY <2>2, <2>3, ScheduleAssumption
<1> QED BY <1>1, ScheduleAlways, PTL DEF Spec, ClaimedNearItsTime

\* A claim that leaves rows behind leaves the later ones, up to a second (the ORDER BY
\* of ClaimReadyBatch).
THEOREM OldestClaimedFirst == Spec => OldestFirst
<1>1. ScheduleInv /\ [Next]_vars =>
        [\A r \in batch' \ batch, s \in Ready(clock) \ batch' :
           batch' # {} =>
             /\ next[s] = Null => next[r] = Null /\ created[r] < created[s] + SecondTicks
             /\ next[s] # Null /\ next[r] # Null => next[r] < next[s] + SecondTicks]_vars
  <2> SUFFICES ASSUME TypeOK, [Next]_vars, NEW r \in batch' \ batch, NEW s \in Ready(clock) \ batch'
               PROVE  /\ next[s] = Null => next[r] = Null /\ created[r] < created[s] + SecondTicks
                      /\ next[s] # Null /\ next[r] # Null => next[r] < next[s] + SecondTicks
    BY DEF ScheduleInv
  <2>1. r \in Rows /\ s \in Rows /\ ~Precedes(s, r)
    BY OnlyClaimClaims DEF Claim, Selection, Ready
  <2>2. next[r] \in Nat /\ next[s] \in Nat /\ created[r] \in Nat /\ created[s] \in Nat
    BY <2>1 DEF TypeOK
  <2>3. /\ TextRank(next[r]) \in Int /\ TextRank(next[s]) \in Int
        /\ TextRank(created[r]) \in Int /\ TextRank(created[s]) \in Int
        /\ next[r] - 1 <= TextRank(next[r])
    BY <2>2, TextRankIs
  <2>4. ~(AttemptRank(s) < AttemptRank(r))
        /\ (AttemptRank(r) = AttemptRank(s) => ~(TextRank(created[s]) < TextRank(created[r])))
    BY <2>1 DEF Precedes
  <2>5. CASE next[s] = Null
    <3>1. next[r] = Null
      BY <2>2, <2>3, <2>4, <2>5 DEF AttemptRank, Null
    <3>2. TextRank(created[r]) <= TextRank(created[s])
      BY <2>3, <2>4, <2>5, <3>1 DEF AttemptRank
    <3> QED BY <2>2, <2>5, <3>1, <3>2, TextOrder
  <2>6. CASE next[s] # Null /\ next[r] # Null
    <3>1. TextRank(next[r]) <= TextRank(next[s])
      BY <2>3, <2>4, <2>6 DEF AttemptRank
    <3> QED BY <2>2, <2>6, <3>1, TextOrder
  <2> QED BY <2>5, <2>6
<1> QED BY <1>1, ScheduleAlways, PTL DEF Spec, OldestFirst
=============================================================================
