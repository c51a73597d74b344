---------------------------- MODULE TokenBucket ----------------------------
(***************************************************************************)
(* TokenBucketLimiter (internal/gateway/tracker.go).                        *)
(*                                                                          *)
(* Time passes in ticks.  The bucket is counted in units so that fractions  *)
(* of a token are whole numbers: a token is Token units, a tick refills Rate *)
(* units, a second is Second ticks, and the configured rate is therefore     *)
(* Rate * Second / Token requests per second.  No clock is kept: age is the  *)
(* time since lastRefill and rest what is left of a caller's time.After.     *)
(* A goroutine may be late: nothing forces it to run when its timer is up.   *)
(***************************************************************************)
EXTENDS Integers

CONSTANTS
  Waiters,     \* the goroutines that call Wait
  Rate,        \* units refilled per tick
  Second,      \* ticks per second
  Token        \* units per token

ASSUME BucketAssumption ==
  /\ Rate \in Nat \ {0}
  /\ Second \in Nat \ {0}
  /\ Token \in Nat \ {0}

VARIABLES
  tokens,      \* TokenBucketLimiter.tokens, in units
  age,         \* ticks since lastRefill, as far as they can matter
  wpc, rest,   \* per caller: where it is in Wait, ticks left of its sleep
  debt         \* history: the units taken in excess of the refill, over the
               \* window, of all windows that end now, where that is the most

bucketVars == <<tokens, age, wpc, rest, debt>>

\* NewTokenBucketLimiter: the capacity is one second's worth of refill.
Capacity == Rate * Second

BucketTypeOK ==
  /\ tokens \in 0..Capacity
  /\ age \in Nat
  /\ wpc \in [Waiters -> {"idle", "try", "sleep"}]
  /\ rest \in [Waiters -> Nat]
  /\ debt \in Nat

\* A new limiter is full.
BucketInit ==
  /\ tokens = Capacity /\ age = 0
  /\ wpc = [w \in Waiters |-> "idle"] /\ rest = [w \in Waiters |-> 0]
  /\ debt = 0

Call(w) ==
  /\ wpc[w] = "idle"
  /\ wpc' = [wpc EXCEPT ![w] = "try"]
  /\ UNCHANGED <<tokens, age, rest, debt>>

\* Mutant: what accrued is not capped.
Refilled_Uncapped == tokens + Rate * age
\* Mutant: the elapsed time counts in whole seconds.
Refilled_WholeSeconds ==
  LET t == tokens + Rate * Second * (age \div Second)
  IN  IF t > Capacity THEN Capacity ELSE t
\* The bucket once the elapsed time is credited.
Refilled ==
  IF tokens + Rate * age > Capacity THEN Capacity ELSE tokens + Rate * age

\* time.Duration truncates: the sleep may end a fraction too early.
WaitTime == (Token - Refilled) \div Rate

\* The critical section: refill, then take a token ...
Take(w) ==
  /\ wpc[w] = "try" /\ Refilled >= Token
  /\ tokens' = Refilled - Token /\ age' = 0
  /\ debt' = debt + Token
  /\ wpc' = [wpc EXCEPT ![w] = "idle"]
  /\ UNCHANGED rest
\* ... or work out how long to sleep.
Sleep(w) ==
  /\ wpc[w] = "try" /\ Refilled < Token
  /\ tokens' = Refilled /\ age' = 0
  /\ wpc' = [wpc EXCEPT ![w] = "sleep"]
  /\ rest' = [rest EXCEPT ![w] = WaitTime]
  /\ UNCHANGED debt

\* The timer fires and the loop goes round.
Wake(w) ==
  /\ wpc[w] = "sleep" /\ rest[w] = 0
  /\ wpc' = [wpc EXCEPT ![w] = "try"]
  /\ UNCHANGED <<tokens, age, rest, debt>>

\* ctx.Done: Wait returns the context's error.
Abandon(w) ==
  /\ wpc[w] = "sleep"
  /\ wpc' = [wpc EXCEPT ![w] = "idle"] /\ rest' = [rest EXCEPT ![w] = 0]
  /\ UNCHANGED <<tokens, age, debt>>

Down(n) == IF n > 0 THEN n - 1 ELSE 0

\* A bucket that is full anyway does not tell longer ages apart.
Older == IF Rate * age >= Capacity THEN age ELSE age + 1

\* Time passes: a tick lengthens every window by a tick's refill, and a window
\* that begins now has no excess.
BucketTick ==
  /\ age' = Older
  /\ rest' = [w \in Waiters |-> Down(rest[w])]
  /\ debt' = IF debt > Rate THEN debt - Rate ELSE 0
  /\ UNCHANGED <<tokens, wpc>>

\* The process is restarted, with a new limiter.
NewLimiter ==
  /\ tokens' = Capacity /\ age' = 0
  /\ wpc' = [w \in Waiters |-> "idle"] /\ rest' = [w \in Waiters |-> 0]
  /\ debt' = 0

BucketNext ==
  \/ \E w \in Waiters : Call(w) \/ Take(w) \/ Sleep(w) \/ Wake(w) \/ Abandon(w)
  \/ BucketTick \/ NewLimiter

BucketSpec == BucketInit /\ [][BucketNext]_bucketVars

\* Over any stretch of time in the life of a limiter, the calls to Wait that
\* succeed take no more than a full bucket and the refill of that time, however
\* many callers sleep, wake late, try again or give up in between.
RateBound == debt <= Capacity
=============================================================================
