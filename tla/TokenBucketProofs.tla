-------------------------- MODULE TokenBucketProofs --------------------------
(***************************************************************************)
(* The token bucket's types and its rate bound, for every set of callers,    *)
(* rate, second and token size.                                             *)
(***************************************************************************)
EXTENDS TokenBucket, TLAPS

\* What was taken in excess of the refill is missing from the bucket, the
\* refill not yet credited included.
Conserved == debt + Refilled <= Capacity

BucketInv == BucketTypeOK /\ Conserved

\* The capacity and what a tick adds to the uncredited refill are naturals.
LEMMA Sizes ==
  ASSUME NEW n \in Nat
  PROVE  /\ Capacity \in Nat
         /\ Rate * n \in Nat
         /\ Rate * (n + 1) = Rate * n + Rate
  BY BucketAssumption DEF Capacity

\* The credited bucket is between empty and full.
LEMMA RefilledType ==
  ASSUME BucketTypeOK
  PROVE  Refilled \in 0..Capacity
<1> DEFINE refill == Rate * age
<1>1. Capacity \in Nat /\ refill \in Nat
  BY Sizes DEF BucketTypeOK
<1>2. tokens \in Nat /\ tokens <= Capacity
  BY <1>1 DEF BucketTypeOK
<1>3. Refilled = IF tokens + refill > Capacity THEN Capacity ELSE tokens + refill
  BY DEF Refilled
<1> HIDE DEF refill
<1>4. QED
  BY <1>1, <1>2, <1>3

\* The bucket starts full and without debt.
LEMMA BucketInitInv == BucketInit => BucketInv
<1> SUFFICES ASSUME BucketInit
             PROVE  BucketInv
  OBVIOUS
<1>1. Capacity \in Nat
  BY BucketAssumption DEF Capacity
<1>2. BucketTypeOK
  BY <1>1 DEF BucketInit, BucketTypeOK
<1>3. Refilled \in 0..Capacity
  BY <1>2, RefilledType
<1>4. QED
  BY <1>1, <1>2, <1>3 DEF BucketInit, BucketInv, Conserved

\* A call leaves the bucket alone.
LEMMA UntouchedInv ==
  ASSUME BucketInv, UNCHANGED <<tokens, age, debt>>,
         wpc' \in [Waiters -> {"idle", "try", "sleep"}],
         rest' \in [Waiters -> Nat]
  PROVE  BucketInv'
  BY DEF BucketInv, BucketTypeOK, Conserved, Refilled, Capacity

\* A call that takes a token leaves as much less in the bucket as it owes more.
LEMMA TakeInv ==
  ASSUME BucketInv, NEW w \in Waiters, Take(w)
  PROVE  BucketInv'
<1>1. Refilled \in 0..Capacity /\ Capacity \in Nat /\ Token \in Nat \ {0}
  BY RefilledType, Sizes, BucketAssumption DEF BucketInv, BucketTypeOK
<1>2. /\ tokens' = Refilled - Token /\ age' = 0 /\ debt' = debt + Token
      /\ Refilled >= Token
  BY DEF Take
<1>3. tokens' \in 0..Capacity /\ debt' \in Nat
  BY <1>1, <1>2 DEF BucketInv, BucketTypeOK
<1>4. Rate * age' = 0
  BY <1>2, BucketAssumption
<1>5. Refilled' = tokens'
  BY <1>1, <1>3, <1>4 DEF Refilled, Capacity
<1>6. Conserved'
  BY <1>1, <1>2, <1>3, <1>5 DEF BucketInv, BucketTypeOK, Conserved, Capacity
<1>7. BucketTypeOK'
  BY <1>2, <1>3 DEF Take, BucketInv, BucketTypeOK, Capacity
<1>8. QED
  BY <1>6, <1>7 DEF BucketInv

\* A call that must sleep credits the refill and takes nothing.
LEMMA SleepInv ==
  ASSUME BucketInv, NEW w \in Waiters, Sleep(w)
  PROVE  BucketInv'
<1>1. /\ Refilled \in 0..Capacity /\ Capacity \in Nat
      /\ Token \in Nat \ {0} /\ Rate \in Nat \ {0}
  BY RefilledType, Sizes, BucketAssumption DEF BucketInv, BucketTypeOK
<1>2. /\ tokens' = Refilled /\ age' = 0 /\ debt' = debt
      /\ Refilled < Token
  BY DEF Sleep
<1>3. WaitTime \in Nat
  BY <1>1, <1>2 DEF WaitTime
<1>4. Rate * age' = 0
  BY <1>1, <1>2
<1>5. Refilled' = tokens'
  BY <1>1, <1>2, <1>4 DEF Refilled, Capacity
<1>6. Conserved'
  BY <1>2, <1>5 DEF BucketInv, Conserved, Capacity
<1>7. BucketTypeOK'
  BY <1>1, <1>2, <1>3 DEF Sleep, BucketInv, BucketTypeOK, Capacity
<1>8. QED
  BY <1>6, <1>7 DEF BucketInv

\* The arithmetic of a tick, for a bucket of c units that holds t, with r still
\* to be credited, a debt of d and a refill of k per tick.
LEMMA TickArithmetic ==
  ASSUME NEW c \in Nat, NEW t \in Nat, NEW r \in Nat, NEW d \in Nat, NEW k \in Nat,
         t <= c,
         d + (IF t + r > c THEN c ELSE t + r) <= c,
         NEW r2 \in Nat, r2 = IF r >= c THEN r ELSE r + k
  PROVE  (IF d > k THEN d - k ELSE 0) + (IF t + r2 > c THEN c ELSE t + r2) <= c
  OBVIOUS

\* A tick adds at most its refill to the bucket and takes as much off the debt.
LEMMA TickInv ==
  ASSUME BucketInv, BucketTick
  PROVE  BucketInv'
<1> DEFINE refill == Rate * age
<1>1. /\ Capacity \in Nat /\ Capacity' = Capacity
      /\ refill \in Nat /\ Rate \in Nat /\ Rate * (age + 1) = refill + Rate
  BY Sizes, BucketAssumption DEF BucketInv, BucketTypeOK, Capacity
<1>2. /\ tokens \in Nat /\ tokens <= Capacity /\ debt \in Nat
      /\ tokens' = tokens
      /\ debt' = IF debt > Rate THEN debt - Rate ELSE 0
  BY <1>1 DEF BucketInv, BucketTypeOK, BucketTick
<1>3. age' \in Nat /\ Rate * age' = IF refill >= Capacity THEN refill ELSE refill + Rate
  BY <1>1 DEF BucketInv, BucketTypeOK, BucketTick, Older
<1>4. \A w \in Waiters : Down(rest[w]) \in Nat
  BY DEF BucketInv, BucketTypeOK, Down
<1>5. BucketTypeOK'
  BY <1>1, <1>2, <1>3, <1>4 DEF BucketInv, BucketTypeOK, BucketTick
<1>6. debt + (IF tokens + refill > Capacity THEN Capacity ELSE tokens + refill) <= Capacity
  BY DEF BucketInv, Conserved, Refilled
<1>7. Refilled' = IF tokens + Rate * age' > Capacity THEN Capacity ELSE tokens + Rate * age'
  BY <1>1, <1>2 DEF Refilled
<1>8. Rate * age' \in Nat
  BY <1>3, Sizes
<1>9. (IF debt > Rate THEN debt - Rate ELSE 0)
        + (IF tokens + Rate * age' > Capacity THEN Capacity ELSE tokens + Rate * age')
        <= Capacity
  <2> HIDE DEF refill
  <2>1. QED
    BY <1>1, <1>2, <1>3, <1>6, <1>8, TickArithmetic
<1>10. Conserved'
  BY <1>1, <1>2, <1>7, <1>9 DEF Conserved
<1>11. QED
  BY <1>5, <1>10 DEF BucketInv

\* A new limiter starts as at first.
LEMMA NewLimiterInv ==
  ASSUME NewLimiter
  PROVE  BucketInv'
<1>1. Capacity \in Nat /\ Capacity' = Capacity
  BY BucketAssumption DEF Capacity
<1>2. Rate * age' = 0
  BY BucketAssumption DEF NewLimiter
<1>3. Refilled' = Capacity
  BY <1>1, <1>2 DEF Refilled, NewLimiter
<1>4. BucketTypeOK'
  BY <1>1 DEF NewLimiter, BucketTypeOK
<1>5. Conserved'
  BY <1>1, <1>3 DEF NewLimiter, Conserved
<1>6. QED
  BY <1>4, <1>5 DEF BucketInv

\* Every step of the bucket keeps the invariant.
LEMMA BucketStepInv == BucketInv /\ [BucketNext]_bucketVars => BucketInv'
<1> SUFFICES ASSUME BucketInv, [BucketNext]_bucketVars
             PROVE  BucketInv'
  OBVIOUS
<1>1. ASSUME NEW w \in Waiters, Call(w) PROVE BucketInv'
  BY <1>1, UntouchedInv DEF Call, BucketInv, BucketTypeOK
<1>2. ASSUME NEW w \in Waiters, Take(w) PROVE BucketInv'
  BY <1>2, TakeInv
<1>3. ASSUME NEW w \in Waiters, Sleep(w) PROVE BucketInv'
  BY <1>3, SleepInv
<1>4. ASSUME NEW w \in Waiters, Wake(w) PROVE BucketInv'
  BY <1>4, UntouchedInv DEF Wake, BucketInv, BucketTypeOK
<1>5. ASSUME NEW w \in Waiters, Abandon(w) PROVE BucketInv'
  BY <1>5, UntouchedInv DEF Abandon, BucketInv, BucketTypeOK
<1>6. CASE BucketTick
  BY <1>6, TickInv
<1>7. CASE NewLimiter
  BY <1>7, NewLimiterInv
<1>8. CASE UNCHANGED bucketVars
  BY <1>8, UntouchedInv DEF bucketVars, BucketInv, BucketTypeOK
<1>9. QED
  BY <1>1, <1>2, <1>3, <1>4, <1>5, <1>6, <1>7, <1>8 DEF BucketNext

\* What was taken in excess of the refill is missing from the bucket in every reachable
\* state, however many callers share the limiter.
THEOREM BucketInvariant == BucketSpec => []BucketInv
<1>1. QED
  BY BucketInitInv, BucketStepInv, PTL DEF BucketSpec

\* The debt never exceeds the capacity, because the bucket cannot be overdrawn.
LEMMA ConservedBounds == BucketInv => RateBound
<1> SUFFICES ASSUME BucketInv
             PROVE  RateBound
  OBVIOUS
<1>1. Refilled \in 0..Capacity /\ Capacity \in Nat
  BY RefilledType, Sizes DEF BucketInv, BucketTypeOK
<1>2. QED
  BY <1>1 DEF BucketInv, BucketTypeOK, Conserved, RateBound

\* The limiter alone, with any number of concurrent callers, keeps its rate.
THEOREM LimiterKeepsRate == BucketSpec => []RateBound
<1>1. QED
  BY BucketInvariant, ConservedBounds, PTL
=============================================================================
