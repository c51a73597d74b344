--------------------------- MODULE SubmissionProofs ---------------------------
(***************************************************************************)
(* The submission loop, for every topic, quantity, number of slices,         *)
(* deadline, fault and crash.  Every step of the loop is a step of the token *)
(* bucket or leaves it alone, so what is proved of the bucket holds of the   *)
(* loop; the merged fills report what the slices executed at once; and the   *)
(* slices never add up to more than the order and the rounding of each.      *)
(***************************************************************************)
EXTENDS Submission, TokenBucketProofs, WellFoundedInduction

\* The intents worker is the limiter's caller.
LEMMA WorkerIsWaiter == Worker \in Waiters
  BY SubmissionAssumption

\* A step of the loop is a call, a retry, a sleep or a give-up in the limiter, a
\* tick, a new limiter, or nothing to it.
LEMMA StepOfBucket == [Next]_vars => [BucketNext]_bucketVars
<1> SUFFICES ASSUME [Next]_vars
             PROVE  [BucketNext]_bucketVars
  OBVIOUS
<1>1. CASE FetchIntent
  BY <1>1, WorkerIsWaiter DEF FetchIntent, BucketNext
<1>2. CASE TakeToken
  BY <1>2, WorkerIsWaiter DEF TakeToken, BucketNext
<1>3. CASE AwaitToken
  BY <1>3, WorkerIsWaiter DEF AwaitToken, BucketNext
<1>4. CASE WaitCancelled
  BY <1>4, WorkerIsWaiter DEF WaitCancelled, BucketNext
<1>5. CASE Tick
  BY <1>5 DEF Tick, BucketNext
<1>6. CASE Crash
  BY <1>6 DEF Crash, BucketNext
<1>7. CASE Boot \/ AddPending \/ Stop \/ CancelRoot \/ RestingTrade \/ StreamFill
  BY <1>7 DEF Boot, AddPending, Stop, CancelRoot, RestingTrade, StreamFill
<1>8. CASE SkipSlice \/ SimulatorFills \/ SliceNotSent \/ SendSlice \/ SliceReturns
             \/ SliceUnanswered \/ PauseEnds \/ PauseCut
  BY <1>8 DEF SkipSlice, SimulatorFills, SliceNotSent, SendSlice, SliceReturns,
              SliceUnanswered, PauseEnds, PauseCut, LoopFrame, SliceFrame
<1>9. CASE MarkRejected \/ MarkSubmitted \/ PublishFill \/ CommitOffset
  BY <1>9 DEF MarkRejected, MarkSubmitted, PublishFill, CommitOffset, ResultFrame
<1>10. CASE UNCHANGED vars
  BY <1>10 DEF vars
<1>11. QED
  BY <1>1, <1>2, <1>3, <1>4, <1>5, <1>6, <1>7, <1>8, <1>9, <1>10
     DEF Next, WorkerSteps

\* The submission loop implements the token bucket.
THEOREM SubmissionUsesBucket == Spec => BucketSpec
<1>1. Init => BucketInit
  BY DEF Init
<1>2. QED
  BY <1>1, StepOfBucket, PTL DEF Spec, BucketSpec

\* Whatever happens to the intents, over any stretch of time the worker begins
\* no more submissions than a full bucket and its refill allow.
THEOREM SubmissionKeepsRate == Spec => []RateBound
<1>1. QED
  BY SubmissionUsesBucket, LimiterKeepsRate, PTL

-----------------------------------------------------------------------------
(* The weights of defaultVWAPProfile.                                       *)

\* A set of naturals that is not empty has a least element.
LEMMA Least ==
  ASSUME NEW T \in SUBSET Nat, T # {}
  PROVE  \E m \in T : \A k \in T : m <= k
<1>1. PICK m \in T : \A y \in T : ~(<<y, m>> \in OpToRel(<, Nat))
  BY NatLessThanWellFounded, WFMin
<1>2. \A y \in T : ~(y < m)
  BY <1>1 DEF OpToRel
<1> QED
  BY <1>2

\* There is at least one slice.
LEMMA SlicesType == Slices \in Nat \ {0}
  BY SubmissionAssumption

\* No slice has a negative weight.
LEMMA WeightType == \A i \in 1..Slices : Weight(i) \in Nat
  BY SlicesType DEF Weight

\* f has the sums of the weights up to n.
Sums(f, n) ==
  /\ f \in [0..n -> Nat]
  /\ f[0] = 0
  /\ \A i \in 1..n : f[i] = f[i - 1] + Weight(i)

\* The weights can be added up: the least n for which they could not would be
\* reached from the sums up to n - 1.
LEMMA SumsExist == \E f : Sums(f, Slices)
<1> DEFINE T == {n \in 0..Slices : ~\E f : Sums(f, n)}
<1> SUFFICES ASSUME T # {} PROVE FALSE
  BY SlicesType
<1>1. PICK n \in T : \A k \in T : n <= k
  <2>1. T \in SUBSET Nat
    BY SlicesType
  <2> HIDE DEF T
  <2> QED
    BY <2>1, Least
<1>2. CASE n = 0
  <2>1. Sums([i \in 0..0 |-> 0], 0)
    BY DEF Sums
  <2> QED
    BY <1>2, <2>1
<1>3. CASE n # 0
  <2>1. n \in 1..Slices /\ n - 1 \in 0..Slices /\ n - 1 \notin T
    BY <1>1, <1>3, SlicesType
  <2>2. PICK f : Sums(f, n - 1)
    BY <2>1
  <2> DEFINE g == [i \in 0..n |-> IF i = n THEN f[n - 1] + Weight(n) ELSE f[i]]
  <2>3. f \in [0..(n - 1) -> Nat] /\ f[0] = 0 /\ Weight(n) \in Nat /\ n \in Nat /\ n > 0
    BY <2>1, <2>2, WeightType, SlicesType DEF Sums
  <2>4. g \in [0..n -> Nat] /\ g[0] = 0
    BY <2>3
  <2>5. \A i \in 1..n : g[i] = g[i - 1] + Weight(i)
    <3> SUFFICES ASSUME NEW i \in 1..n PROVE g[i] = g[i - 1] + Weight(i)
      OBVIOUS
    <3>1. CASE i = n
      <4>1. g[n] = f[n - 1] + Weight(n) /\ g[n - 1] = f[n - 1]
        BY <2>3
      <4> QED
        BY <3>1, <4>1
    <3>2. CASE i # n
      <4>1. g[i] = f[i] /\ g[i - 1] = f[i - 1] /\ i \in 1..(n - 1)
        BY <2>3, <3>2
      <4> QED
        BY <2>2, <4>1 DEF Sums
    <3> QED
      BY <3>1, <3>2
  <2>6. Sums(g, n)
    BY <2>4, <2>5 DEF Sums
  <2> QED
    BY <2>6
<1> QED
  BY <1>2, <1>3

\* So WeightUpTo is the function its recursive definition describes ...
LEMMA WeightUpToDef ==
  /\ WeightUpTo[0] = 0
  /\ \A i \in 1..Slices : WeightUpTo[i] = WeightUpTo[i - 1] + Weight(i)
<1> DEFINE Eq(g) == g = [i \in 0..Slices |-> IF i = 0 THEN 0 ELSE g[i - 1] + Weight(i)]
<1>1. \E g : Eq(g)
  <2>1. PICK f : Sums(f, Slices)
    BY SumsExist
  <2>2. Eq(f)
    BY <2>1, SlicesType DEF Sums
  <2> QED
    BY <2>2
<1>2. Eq(WeightUpTo)
  <2>1. WeightUpTo = CHOOSE g : Eq(g)
    BY DEF WeightUpTo
  <2> QED
    BY <1>1, <2>1
<1> QED
  BY <1>2, SlicesType

\* ... its values are naturals and never decrease ...
LEMMA WeightUpToGrows ==
  \A n \in 0..Slices : WeightUpTo[n] \in Nat /\ \A k \in 0..n : WeightUpTo[k] <= WeightUpTo[n]
<1> DEFINE Grown(n) == WeightUpTo[n] \in Nat /\ \A k \in 0..n : WeightUpTo[k] <= WeightUpTo[n]
           T == {n \in 0..Slices : ~Grown(n)}
<1> SUFFICES ASSUME T # {} PROVE FALSE
  OBVIOUS
<1>1. PICK n \in T : \A k \in T : n <= k
  <2>1. T \in SUBSET Nat
    BY SlicesType
  <2> HIDE DEF T
  <2> QED
    BY <2>1, Least
<1>2. n # 0
  BY <1>1, WeightUpToDef
<1>3. n \in 1..Slices /\ Grown(n - 1)
  BY <1>1, <1>2, SlicesType
<1>4. WeightUpTo[n] = WeightUpTo[n - 1] + Weight(n) /\ Weight(n) \in Nat
  BY <1>3, WeightUpToDef, WeightType
<1>5. Grown(n)
  <2>1. \A k \in 0..n : k = n \/ k \in 0..(n - 1)
    BY <1>3, SlicesType
  <2>2. \A k \in 0..(n - 1) : Grown(k)
    BY <1>1, <1>3, SlicesType
  <2>3. WeightUpTo[n] \in Nat /\ \A k \in 0..(n - 1) : WeightUpTo[k] <= WeightUpTo[n]
    BY <1>3, <1>4, <2>2
  <2> QED
    BY <2>1, <2>3
<1> QED
  BY <1>1, <1>5

\* ... and with more than one slice the total, by which executeVWAP divides, is
\* not zero.
LEMMA TotalWeight == Slices > 1 => WeightUpTo[Slices] \in Nat \ {0}
<1>1. Slices > 1 => WeightUpTo[1] > 0
  BY WeightUpToDef, SlicesType DEF Weight
<1>2. WeightUpTo[1] <= WeightUpTo[Slices] /\ WeightUpTo[1] \in Nat /\ WeightUpTo[Slices] \in Nat
  BY WeightUpToGrows, SlicesType
<1> QED
  BY <1>1, <1>2

-----------------------------------------------------------------------------
(* The quantities of the slices.                                            *)

\* The share of the order that the first k slices stand for, and of the whole.
UpTo(k) == IF algo = "TWAP" THEN k ELSE WeightUpTo[k]

Slicing == algo \in Algos /\ algo \in {"TWAP", "VWAP"}

\* What rounding may add to k slices, doubled.
Slack(k) == IF backend = "binance" THEN k * Lot ELSE 0

\* e units are no more than the first k slices' share of the order of p and their
\* rounding.
WithinShare(e, p, k) ==
  2 * (e * UpTo(Slices)) <= 2 * (Qty[p] * UpTo(k)) + Slack(k) * UpTo(Slices)

\* Shares are naturals, none more than that of all slices, which is not 0.
LEMMA Shares ==
  ASSUME Slicing
  PROVE  /\ UpTo(Slices) \in Nat \ {0}
         /\ \A k \in 0..Slices : UpTo(k) \in Nat /\ UpTo(k) <= UpTo(Slices)
<1>1. CASE algo = "TWAP"
  BY <1>1, SubmissionAssumption DEF UpTo
<1>2. CASE algo = "VWAP"
  <2>1. Slices > 1 /\ Slices \in 0..Slices
    BY <1>2, SubmissionAssumption DEF Slicing
  <2>2. /\ WeightUpTo[Slices] \in Nat \ {0}
        /\ \A k \in 0..Slices : WeightUpTo[k] \in Nat /\ WeightUpTo[k] <= WeightUpTo[Slices]
    BY <2>1, TotalWeight, WeightUpToGrows
  <2> QED
    BY <1>2, <2>2 DEF UpTo
<1> QED
  BY <1>1, <1>2 DEF Slicing

\* An integer quotient rounds down.
LEMMA Quotient ==
  ASSUME NEW a \in Nat, NEW b \in Nat \ {0}
  PROVE  a \div b \in Nat /\ (a \div b) * b <= a /\ a < (a \div b) * b + b
OBVIOUS

\* One without remainder does not round.
LEMMA ExactQuotient ==
  ASSUME NEW a \in Nat, NEW b \in Nat \ {0}, a % b = 0
  PROVE  (a \div b) * b = a
OBVIOUS

\* A slice is a quantity, exactly its share of the order.
LEMMA SliceShare ==
  ASSUME Slicing, NEW p \in Parents, NEW i \in 1..Slices
  PROVE  /\ Share(p, i) \in Nat
         /\ \E share \in Nat : /\ UpTo(i) = UpTo(i - 1) + share
                               /\ Share(p, i) * UpTo(Slices) = Qty[p] * share
<1>0. Qty[p] \in Nat /\ Slices \in Nat \ {0}
  BY SubmissionAssumption
<1>1. CASE algo = "TWAP"
  <2>1. Share(p, i) = Qty[p] \div Slices /\ UpTo(Slices) = Slices
    BY <1>1 DEF Share, UpTo
  <2>2. Qty[p] % Slices = 0
    BY <1>1, SharesAreWhole DEF Slicing
  <2>3. Qty[p] \div Slices \in Nat /\ (Qty[p] \div Slices) * Slices = Qty[p]
    BY <1>0, <2>2, Quotient, ExactQuotient
  <2>4. UpTo(i) = UpTo(i - 1) + 1 /\ Qty[p] * 1 = Qty[p]
    BY <1>0, <1>1 DEF UpTo
  <2> QED
    BY <2>1, <2>3, <2>4
<1>2. CASE algo = "VWAP"
  <2> DEFINE total == WeightUpTo[Slices]
             part == Qty[p] * Weight(i)
  <2>1. Share(p, i) = part \div total /\ UpTo(Slices) = total
    BY <1>2 DEF Share, UpTo
  <2>2. Weight(i) \in Nat /\ total \in Nat \ {0}
    BY <1>2, WeightType, Shares DEF UpTo
  <2>3. part \in Nat
    BY <1>0, <2>2
  <2>4. UpTo(i) = UpTo(i - 1) + Weight(i)
    BY <1>2, WeightUpToDef DEF UpTo
  <2>5. part % total = 0
    BY <1>2, SharesAreWhole DEF Slicing
  <2> HIDE DEF total
  <2>6. part \div total \in Nat /\ (part \div total) * total = part
    <3> HIDE DEF part
    <3> QED
      BY <2>2, <2>3, <2>5, Quotient, ExactQuotient
  <2> QED
    BY <2>1, <2>2, <2>4, <2>6
<1> QED
  BY <1>1, <1>2 DEF Slicing

\* What may be placed of a share, nothing included: lots near it at Binance, the
\* share itself at the simulator.
PlacedSizes(q) == IF backend = "binance" THEN ChildSizes(q) \cup {0} ELSE {0, q}

\* It is no more than half a lot above the share.
LEMMA SizeWithinHalfALot ==
  ASSUME NEW q \in Nat, NEW s \in PlacedSizes(q)
  PROVE  s \in Nat /\ 2 * s <= 2 * q + Slack(1)
<1> DEFINE n == q \div Lot
<1>1. Lot \in Nat \ {0}
  BY SubmissionAssumption
<1>2. n \in Nat
  BY <1>1, Quotient
<1> HIDE DEF n
<1>3. Lot * n \in Nat /\ Lot * (n + 1) \in Nat
  BY <1>1, <1>2
<1>4. s \in ChildSizes(q) => s \in Nat /\ 2 * s <= 2 * q + Lot
  BY <1>1, <1>3 DEF ChildSizes, n
<1> QED
  BY <1>1, <1>4 DEF PlacedSizes, Slack

\* What the venue executes in one go is no more than there is.
LEMMA PortionTypes ==
  ASSUME NEW s \in Nat, NEW q \in Portions(s)
  PROVE  q \in Nat /\ q <= s
<1> DEFINE n == s \div Lot
<1>1. PICK k \in 0..n : q = Lot * k
  BY DEF Portions
<1>2. Lot \in Nat \ {0} /\ n \in Nat /\ n * Lot <= s
  BY SubmissionAssumption, Quotient
<1> HIDE DEF n
<1>3. Lot * k \in Nat /\ Lot * k <= n * Lot
  BY <1>2
<1> QED
  BY <1>1, <1>2, <1>3

\* Slack grows by a lot per slice.
LEMMA SlackTypes ==
  /\ \A k \in Nat : Slack(k) \in Nat /\ Slack(k + 1) = Slack(k) + Slack(1)
  /\ \A k \in 0..Slices : Slack(k) <= Slack(Slices)
<1>1. Lot \in Nat /\ Slices \in Nat
  BY SubmissionAssumption
<1>2. \A k \in Nat : k * Lot \in Nat /\ (k + 1) * Lot = k * Lot + 1 * Lot
  BY <1>1
<1>3. \A k \in 0..Slices : k * Lot <= Slices * Lot
  BY <1>1
<1> QED
  BY <1>2, <1>3 DEF Slack

\* Adding a slice, or nothing, stays within the share.
LEMMA OneMoreSlice ==
  ASSUME Slicing, NEW p \in Parents, NEW i \in 1..Slices, NEW e \in Nat, WithinShare(e, p, i - 1),
         NEW q \in PlacedSizes(Share(p, i))
  PROVE  WithinShare(e + q, p, i)
<1> DEFINE w == UpTo(Slices)
           before == UpTo(i - 1)
           slack == Slack(i - 1)
           one == Slack(1)
           part == Share(p, i)
<1>1. Qty[p] \in Nat /\ w \in Nat /\ before \in Nat /\ slack \in Nat /\ one \in Nat
      /\ Slack(i) = slack + one
  <2>1. i - 1 \in 0..Slices /\ i - 1 \in Nat /\ (i - 1) + 1 = i
    BY SubmissionAssumption
  <2>2. Slack(i - 1) \in Nat /\ Slack((i - 1) + 1) = Slack(i - 1) + Slack(1) /\ Slack(1) \in Nat
    BY <2>1, SlackTypes
  <2> QED
    BY <2>1, <2>2, Shares, SubmissionAssumption
<1>2. PICK share \in Nat : UpTo(i) = before + share /\ part * w = Qty[p] * share
  BY SliceShare
<1>3. part \in Nat
  BY SliceShare
<1>4. q \in Nat /\ 2 * q <= 2 * part + one
  BY <1>3, SizeWithinHalfALot
<1>5. 2 * (e * w) <= 2 * (Qty[p] * before) + slack * w
  BY DEF WithinShare
<1> HIDE DEF w, before, slack, one, part
<1>6. 2 * (q * w) <= 2 * (Qty[p] * share) + one * w
  <2>1. (2 * q) * w <= (2 * part + one) * w
    BY <1>1, <1>3, <1>4
  <2>2. (2 * part + one) * w = 2 * (part * w) + one * w /\ (2 * q) * w = 2 * (q * w)
    BY <1>1, <1>3, <1>4
  <2> QED
    BY <1>2, <2>1, <2>2
<1>7. /\ (e + q) * w = e * w + q * w
      /\ Qty[p] * (before + share) = Qty[p] * before + Qty[p] * share
      /\ (slack + one) * w = slack * w + one * w
  BY <1>1, <1>4
<1>8. 2 * ((e + q) * w) <= 2 * (Qty[p] * (before + share)) + (slack + one) * w
  <2>1. /\ e * w \in Nat /\ q * w \in Nat /\ Qty[p] * before \in Nat /\ Qty[p] * share \in Nat
        /\ slack * w \in Nat /\ one * w \in Nat
    BY <1>1, <1>4
  <2> QED
    BY <1>5, <1>6, <1>7, <2>1
<1> QED
  BY <1>1, <1>2, <1>8 DEF WithinShare, w

\* Nothing placed is within the share of no slice.
LEMMA NoSlice ==
  ASSUME Slicing, NEW p \in Parents
  PROVE  WithinShare(0, p, 0)
<1>1. Qty[p] \in Nat /\ UpTo(Slices) \in Nat /\ UpTo(0) \in Nat /\ Slack(0) \in Nat
  BY Shares, SlackTypes, SubmissionAssumption
<1>2. 0 * UpTo(Slices) = 0 /\ Qty[p] * UpTo(0) \in Nat /\ Slack(0) * UpTo(Slices) \in Nat
  BY <1>1
<1> QED
  BY <1>2 DEF WithinShare

\* The share of some slices is no more than the order and all of its rounding.
LEMMA ShareOfOrder ==
  ASSUME Slicing, NEW p \in Parents, NEW k \in 0..Slices, NEW e \in Nat, WithinShare(e, p, k)
  PROVE  2 * e <= 2 * Qty[p] + Rounding
<1> DEFINE w == UpTo(Slices)
           part == UpTo(k)
           slack == Slack(k)
           all == Slack(Slices)
<1>1. /\ Qty[p] \in Nat /\ w \in Nat \ {0} /\ part \in Nat /\ part <= w
      /\ 2 * (e * w) <= 2 * (Qty[p] * part) + slack * w
  BY Shares, SubmissionAssumption DEF WithinShare
<1>2. all = Rounding /\ all \in Nat /\ slack \in Nat /\ slack <= all
  BY SlackTypes, SlicesType DEF Slack, Rounding
<1> HIDE DEF w, part, slack, all
<1>3. Qty[p] * part <= Qty[p] * w /\ slack * w <= all * w
  BY <1>1, <1>2
<1>4. (2 * e) * w <= (2 * Qty[p] + all) * w
  <2>1. (2 * e) * w = 2 * (e * w) /\ (2 * Qty[p] + all) * w = 2 * (Qty[p] * w) + all * w
    BY <1>1, <1>2
  <2>2. /\ e * w \in Nat /\ Qty[p] * w \in Nat /\ Qty[p] * part \in Nat
        /\ slack * w \in Nat /\ all * w \in Nat
    BY <1>1, <1>2
  <2> QED
    BY <1>1, <1>3, <2>1, <2>2
<1>5. 2 * e <= 2 * Qty[p] + all
  <2> DEFINE a == 2 * e
             b == 2 * Qty[p] + all
  <2>1. a \in Nat /\ b \in Nat /\ a * w <= b * w
    BY <1>1, <1>2, <1>4
  <2> HIDE DEF a, b
  <2>2. a <= b
    BY <1>1, <2>1
  <2> QED
    BY <2>2 DEF a, b
<1> QED
  BY <1>2, <1>5

-----------------------------------------------------------------------------
(* Types and control.                                                       *)

Busy == {"limit", "pending", "slice", "call", "pause", "failed", "done", "publish", "commit"}
Executing == {"slice", "call", "pause", "done"}

\* What the worker's position says of its registers.
Control ==
  /\ spc \in Busy => cur \in Parents /\ pos \in 1..Len(Intents)
  /\ spc \notin Busy => cur = NoParent
  /\ spc \in {"slice", "call", "pause"} => slice \in 1..Slices
  /\ spc \in Executing \cup {"publish"} => algo \in {"TWAP", "VWAP"}
  /\ res.total > 0 => res.last # 0

SubmissionType == BucketInv /\ TypeOK /\ Control

\* The statements of the order store keep the table a table.
LEMMA TableTypes ==
  ASSUME NEW table \in [Ids -> Row], NEW id \in Ids, NEW state \in OrderStates, NEW n \in Nat
  PROVE  /\ SaveOrder(table, id, state) \in [Ids -> Row]
         /\ UpdateRow(table, id, state, n) \in [Ids -> Row]
         /\ RecordFillCosts(table, id, n) \in [Ids -> Row]
         /\ LookupFilledQty(table, id) \in Nat
<1>1. SaveOrder(table, id, state) \in [Ids -> Row]
  BY DEF SaveOrder, Row, StatesOrAbsent
<1>2. UpdateRow(table, id, state, n) \in [Ids -> Row]
  BY DEF UpdateRow, Row, StatesOrAbsent
<1>3. RecordFillCosts(table, id, n) \in [Ids -> Row]
  BY DEF RecordFillCosts, Row
<1>4. LookupFilledQty(table, id) \in Nat
  BY DEF LookupFilledQty, Row
<1> QED
  BY <1>1, <1>2, <1>3, <1>4

\* An intent's own ID and the IDs of its children.
LEMMA IdTypes == \A p \in Parents : \A i \in 0..Slices : <<p, i>> \in Ids /\ <<p, 0>> \in Ids
  BY SubmissionAssumption DEF Ids

\* The configuration is fixed, and offsets, faults and restarts keep their ranges.
LEMMA WorldTypeStep ==
  ASSUME SubmissionType, [Next]_vars
  PROVE  /\ algo' \in Algos /\ backend' \in Backends /\ cancelled' \in BOOLEAN
         /\ algo' = algo /\ backend' = backend
         /\ faults' \in 0..MaxFaults /\ restarts' \in 0..MaxRestarts
         /\ committed' \in 0..Len(Intents) /\ pos' \in 0..Len(Intents)
<1>1. /\ algo \in Algos /\ backend \in Backends /\ cancelled \in BOOLEAN
      /\ faults \in 0..MaxFaults /\ restarts \in 0..MaxRestarts
      /\ committed \in 0..Len(Intents) /\ pos \in 0..Len(Intents)
  BY DEF SubmissionType, TypeOK
<1>2. MaxFaults \in Nat /\ MaxRestarts \in Nat /\ Len(Intents) \in Nat
  BY SubmissionAssumption
<1>3. CASE FetchIntent
  BY <1>1, <1>2, <1>3 DEF FetchIntent, worldVars
<1>4. CASE CommitOffset
  BY <1>1, <1>2, <1>4 DEF CommitOffset, Fault, ResultFrame
<1>5. CASE Crash
  <2>1. /\ restarts < MaxRestarts /\ restarts' = restarts + 1 /\ cancelled' = FALSE
        /\ pos' = committed /\ UNCHANGED <<algo, backend, faults, committed>>
    BY <1>5 DEF Crash
  <2>2. cancelled' \in BOOLEAN
    BY <2>1
  <2>3. restarts' \in 0..MaxRestarts
    BY <1>1, <1>2, <2>1
  <2> QED
    BY <1>1, <2>1, <2>2, <2>3
<1>6. CASE TakeToken \/ AwaitToken \/ WaitCancelled \/ Stop \/ Tick \/ CancelRoot \/ RestingTrade
             \/ UNCHANGED vars
  BY <1>1, <1>6 DEF TakeToken, AwaitToken, WaitCancelled, Stop, Tick, CancelRoot, RestingTrade,
     LimiterFrame, worldVars, vars
<1>9. CASE Boot \/ AddPending \/ StreamFill
  BY <1>1, <1>2, <1>9 DEF Boot, AddPending, StreamFill, StoreWrite, Fault
<1>7. CASE SkipSlice \/ SimulatorFills \/ SliceNotSent \/ SendSlice \/ SliceReturns
             \/ SliceUnanswered \/ PauseEnds \/ PauseCut
  BY <1>1, <1>2, <1>7 DEF SkipSlice, SimulatorFills, SliceNotSent, SendSlice, SliceReturns,
     SliceUnanswered, PauseEnds, PauseCut, LoopFrame, SliceFrame, Fault
<1>8. CASE MarkRejected \/ MarkSubmitted \/ PublishFill
  BY <1>1, <1>2, <1>8 DEF MarkRejected, MarkSubmitted, PublishFill, StoreWrite, ResultFrame, Fault
<1> QED
  BY <1>3, <1>4, <1>5, <1>6, <1>7, <1>8, <1>9 DEF Next, WorkerSteps

\* The store's table and the tracker keep their types, across restarts too.
LEMMA TableTypeStep ==
  ASSUME SubmissionType, [Next]_vars
  PROVE  db' \in [Ids -> Row] /\ states' \in [Ids -> StatesOrAbsent]
<1>1. db \in [Ids -> Row] /\ states \in [Ids -> StatesOrAbsent]
  BY DEF SubmissionType, TypeOK
<1>2. CASE Boot
  <2>1. PICK preloaded, listed, saved : BootLeaves(preloaded, listed, saved)
    BY <1>2 DEF Boot
  <2>2. states' \in [Ids -> StatesOrAbsent]
    BY <1>1, <2>1 DEF BootLeaves, StatesOrAbsent, OrderStates, Row
  <2>3. db' \in [Ids -> Row]
    BY <1>1, <2>1 DEF BootLeaves, StatesOrAbsent, OrderStates, Row
  <2> QED
    BY <2>2, <2>3
<1>8. CASE StreamFill
  <2>1. chan \subseteq Reports
    BY DEF SubmissionType, TypeOK
  <2> QED
    BY <1>1, <1>8, <2>1 DEF StreamFill, Reports, StatesOrAbsent, OrderStates
<1>3. CASE AddPending
  <2>1. cur \in Parents
    BY <1>3 DEF AddPending, SubmissionType, Control, Busy
  <2>2. <<cur, 0>> \in Ids
    BY <2>1, IdTypes, SubmissionAssumption
  <2> QED
    BY <1>1, <1>3, <2>2, TableTypes DEF AddPending, StoreWrite, OrderStates, StatesOrAbsent
<1>4. CASE MarkRejected
  <2>1. cur \in Parents
    BY <1>4 DEF MarkRejected, SubmissionType, Control, Busy
  <2>2. <<cur, 0>> \in Ids
    BY <2>1, IdTypes, SubmissionAssumption
  <2>3. Updated(db, <<cur, 0>>, "REJECTED") \in [Ids -> Row]
    BY <1>1, <2>2, TableTypes DEF Updated, OrderStates
  <2> QED
    BY <1>1, <1>4, <2>2, <2>3 DEF MarkRejected, StoreWrite, OrderStates, StatesOrAbsent
<1>5. CASE MarkSubmitted
  <2> DEFINE child == <<cur, res.last>>
             parent == Updated(db, <<cur, 0>>, "SUBMITTED")
             costs == Share(cur, res.last)
  <2>1. cur \in Parents /\ res.last \in 0..Slices /\ res.total \in Nat
    BY <1>5 DEF MarkSubmitted, SubmissionType, Control, Busy, TypeOK
  <2>2. <<cur, 0>> \in Ids /\ child \in Ids
    BY <2>1, IdTypes
  <2>3. parent \in [Ids -> Row]
    BY <1>1, <2>2, TableTypes DEF Updated, OrderStates
  <2>4. MergedQty > 0 => costs \in Nat
    <3>1. Slicing
      BY <1>5 DEF MarkSubmitted, SubmissionType, Control, Executing, TypeOK, Slicing
    <3>2. MergedQty > 0 => res.last \in 1..Slices
      BY <2>1, SubmissionAssumption DEF MergedQty, SubmissionType, Control
    <3> QED
      BY <2>1, <3>1, <3>2, SliceShare
  <2>5. /\ states' = [states EXCEPT ![<<cur, 0>>] = "SUBMITTED", ![child] = "FILLED"]
           \/ states' = [states EXCEPT ![<<cur, 0>>] = "SUBMITTED"]
        /\ \/ db' \in {db, parent}
           \/ MergedQty > 0 /\ db' = RecordFillCosts(UpdateRow(parent, child, "FILLED", 0), child, costs)
    BY <1>5 DEF MarkSubmitted, StoreWrite
  <2> HIDE DEF child, parent, costs
  <2>6. MergedQty > 0 =>
          RecordFillCosts(UpdateRow(parent, child, "FILLED", 0), child, costs) \in [Ids -> Row]
    BY <2>2, <2>3, <2>4, TableTypes DEF OrderStates
  <2> QED
    BY <1>1, <2>2, <2>3, <2>5, <2>6 DEF OrderStates, StatesOrAbsent
<1>6. CASE FetchIntent \/ TakeToken \/ AwaitToken \/ WaitCancelled \/ Stop \/ Tick \/ CancelRoot
             \/ Crash \/ PublishFill \/ CommitOffset \/ RestingTrade \/ UNCHANGED vars
  BY <1>1, <1>6 DEF FetchIntent, TakeToken, AwaitToken, WaitCancelled, Stop, Tick, CancelRoot, Crash,
     RestingTrade, PublishFill, CommitOffset, LimiterFrame, StatesOrAbsent, vars
<1>7. CASE SkipSlice \/ SimulatorFills \/ SliceNotSent \/ SendSlice \/ SliceReturns
             \/ SliceUnanswered \/ PauseEnds \/ PauseCut
  BY <1>1, <1>7 DEF SkipSlice, SimulatorFills, SliceNotSent, SendSlice, SliceReturns,
     SliceUnanswered, PauseEnds, PauseCut, LoopFrame, SliceFrame
<1> QED
  BY <1>2, <1>3, <1>4, <1>5, <1>6, <1>7, <1>8 DEF Next, WorkerSteps

\* Down stays within what it counts down from.
LEMMA DownType ==
  ASSUME NEW n \in Nat
  PROVE  Down(n) \in 0..n
  BY DEF Down

\* The worker's position and its registers keep their types and fit each other.
LEMMA LoopTypeStep ==
  ASSUME SubmissionType, [Next]_vars
  PROVE  /\ spc' \in Busy \cup {"boot", "fetch", "stopped"}
         /\ cur' \in Parents \cup {NoParent}
         /\ spc' \in Busy => cur' \in Parents /\ pos' \in 1..Len(Intents)
         /\ spc' \notin Busy => cur' = NoParent
         /\ slice' \in 0..Slices
         /\ spc' \in {"slice", "call", "pause"} => slice' \in 1..Slices
         /\ spc' \in Executing \cup {"publish"} => algo' \in {"TWAP", "VWAP"}
<1>1. /\ spc \in Busy \cup {"boot", "fetch", "stopped"} /\ cur \in Parents \cup {NoParent}
      /\ slice \in 0..Slices /\ Slices \in Nat \ {0} /\ pos \in 0..Len(Intents) /\ Len(Intents) \in Nat
      /\ algo \in {"TWAP", "VWAP", "other"}
  BY SubmissionAssumption DEF SubmissionType, TypeOK, Busy
<1>2. /\ spc \in Busy => cur \in Parents /\ pos \in 1..Len(Intents)
      /\ spc \notin Busy => cur = NoParent
      /\ spc \in {"slice", "call", "pause"} => slice \in 1..Slices
      /\ spc \in Executing \cup {"publish"} => algo \in {"TWAP", "VWAP"}
  BY DEF SubmissionType, Control
<1>3. CASE FetchIntent
  <2>1. /\ pos < Len(Intents) /\ pos' = pos + 1 /\ cur' = Intents[pos + 1]
        /\ spc' \in {"commit", "limit"} /\ slice' = slice
    BY <1>3 DEF FetchIntent, sliceVars
  <2>2. cur' \in Parents
    BY <1>1, <2>1, SubmissionAssumption
  <2> QED
    BY <1>1, <2>1, <2>2 DEF Busy, Executing
<1>4. CASE TakeToken \/ AwaitToken \/ WaitCancelled \/ AddPending
  BY <1>1, <1>2, <1>4 DEF TakeToken, AwaitToken, WaitCancelled, AddPending, LimiterFrame, sliceVars,
     worldVars, Busy, Executing
<1>5. CASE SkipSlice \/ SimulatorFills \/ SliceNotSent \/ SliceReturns \/ SliceUnanswered
  <2>1. /\ spc \in {"slice", "call"} /\ UNCHANGED <<cur, pos, algo>>
        /\ \/ slice < Slices /\ spc' = "pause" /\ slice' = slice + 1
           \/ spc' = "done" /\ slice' = slice
    BY <1>5 DEF SkipSlice, SimulatorFills, SliceNotSent, SliceReturns, SliceUnanswered, NextSlice,
       LoopFrame, SliceFrame
  <2> QED
    BY <1>1, <1>2, <2>1 DEF Busy, Executing
<1>6. CASE SendSlice \/ PauseEnds \/ PauseCut
  BY <1>1, <1>2, <1>6 DEF SendSlice, PauseEnds, PauseCut, LoopFrame, SliceFrame, sliceVars, Busy, Executing
<1>7. CASE MarkRejected \/ MarkSubmitted \/ PublishFill \/ CommitOffset
  BY <1>1, <1>2, <1>7 DEF MarkRejected, MarkSubmitted, PublishFill, CommitOffset, ResultFrame, ToFetch,
     sliceVars, Busy, Executing
<1>8. CASE Boot \/ Stop \/ Tick \/ CancelRoot \/ RestingTrade \/ StreamFill \/ UNCHANGED vars
  BY <1>1, <1>2, <1>8 DEF Boot, Stop, Tick, CancelRoot, RestingTrade, StreamFill, vars,
       sliceVars, worldVars, Busy, Executing
<1>9. CASE Crash
  BY <1>1, <1>9 DEF Crash, Busy, Executing
<1> QED
  BY <1>3, <1>4, <1>5, <1>6, <1>7, <1>8, <1>9 DEF Next, WorkerSteps

\* The timers only count down from what they were set to.
LEMMA TimerTypeStep ==
  ASSUME SubmissionType, [Next]_vars
  PROVE  timer' \in Nat /\ left' \in 0..SubmitTimeout
<1>1. timer \in Nat /\ left \in 0..SubmitTimeout /\ SubmitTimeout \in Nat
  BY SubmissionAssumption DEF SubmissionType, TypeOK
<1>2. CASE Tick
  <2>1. Down(timer) \in 0..timer /\ Down(left) \in 0..left
    BY <1>1, DownType
  <2> QED
    BY <1>1, <1>2, <2>1 DEF Tick
<1>3. Interval \in Nat
  <2>1. Duration \in Nat /\ Slices \in Nat \ {0}
    BY SubmissionAssumption
  <2> QED
    BY <2>1, Quotient DEF Interval
<1>4. CASE SkipSlice \/ SimulatorFills \/ SliceNotSent \/ SliceReturns \/ SliceUnanswered
             \/ SendSlice \/ PauseEnds \/ PauseCut
  BY <1>1, <1>3, <1>4 DEF SkipSlice, SimulatorFills, SliceNotSent, SliceReturns, SliceUnanswered,
     NextSlice, SendSlice, PauseEnds, PauseCut, LoopFrame, SliceFrame, sliceVars
<1>5. CASE Boot \/ FetchIntent \/ TakeToken \/ AwaitToken \/ WaitCancelled \/ Stop \/ CancelRoot
             \/ RestingTrade \/ StreamFill \/ UNCHANGED vars
  BY <1>1, <1>5 DEF Boot, FetchIntent, TakeToken, AwaitToken, WaitCancelled, Stop, CancelRoot,
     RestingTrade, StreamFill, LimiterFrame, sliceVars, vars
<1>6. CASE AddPending
  BY <1>1, <1>6 DEF AddPending
<1>7. CASE Crash
  BY <1>1, <1>7 DEF Crash
<1>8. CASE MarkRejected \/ MarkSubmitted \/ PublishFill \/ CommitOffset
  BY <1>1, <1>8 DEF MarkRejected, MarkSubmitted, PublishFill, CommitOffset, ToFetch, sliceVars
<1> QED
  BY <1>2, <1>4, <1>5, <1>6, <1>7, <1>8 DEF Next, WorkerSteps

\* What a slice that is sent does at the venue: nothing, or it places a quantity
\* of which it executes some at once and leaves some to rest.
LEMMA SentSlice ==
  ASSUME SubmissionType, SendSlice
  PROVE  /\ spc = "slice" /\ cur \in Parents /\ slice \in 1..Slices /\ Slicing
         /\ <<cur, slice>> \in Ids /\ Share(cur, slice) \in Nat /\ backend = "binance"
         /\ \/ ans' = Refusal /\ UNCHANGED <<open, chan, placed, executed>>
            \/ \E s \in PlacedSizes(Share(cur, slice)) : \E q \in Nat : \E resting \in Nat :
                 /\ s \in Nat /\ q <= s
                 /\ ans' = q /\ Place(s) /\ ExecuteAtOnce(q)
                 /\ open' = [open EXCEPT ![<<cur, slice>>] = resting]
                 /\ Traded(<<cur, slice>>, q, s - q)
<1>1. spc = "slice" /\ backend = "binance"
  BY DEF SendSlice
<1>2. cur \in Parents /\ slice \in 1..Slices /\ Slicing
  BY <1>1 DEF SubmissionType, TypeOK, Control, Busy, Executing, Slicing
<1>3. Share(cur, slice) \in Nat
  BY <1>2, SliceShare
<1>4. <<cur, slice>> \in Ids
  <2>1. slice \in 0..Slices
    BY <1>2, SlicesType
  <2> QED
    BY <1>2, <2>1, IdTypes
<1> DEFINE part == Share(cur, slice)
<1>5. \/ ans' = Refusal /\ UNCHANGED <<open, chan, placed, executed>>
      \/ \E s \in ChildSizes(part) \ {0} : \E q \in Portions(s) : \E resting \in {0, s - q} :
           /\ ans' = q /\ Place(s) /\ ExecuteAtOnce(q)
           /\ open' = [open EXCEPT ![<<cur, slice>>] = resting]
           /\ Traded(<<cur, slice>>, q, s - q)
  BY DEF SendSlice, venueVars
<1> HIDE DEF part
<1>6. ASSUME NEW s \in ChildSizes(part), NEW q \in Portions(s), NEW resting \in {0, s - q}
      PROVE  s \in PlacedSizes(part) /\ s \in Nat /\ q \in Nat /\ q <= s /\ resting \in Nat
  <2>1. s \in PlacedSizes(part) /\ part \in Nat
    BY <1>1, <1>3 DEF PlacedSizes, part
  <2>2. s \in Nat
    BY <2>1, SizeWithinHalfALot
  <2>3. q \in Nat /\ q <= s
    BY <2>2, PortionTypes
  <2> QED
    BY <2>1, <2>2, <2>3
<1>7. \/ ans' = Refusal /\ UNCHANGED <<open, chan, placed, executed>>
      \/ \E s \in PlacedSizes(part) : \E q \in Nat : \E resting \in Nat :
           /\ s \in Nat /\ q <= s
           /\ ans' = q /\ Place(s) /\ ExecuteAtOnce(q)
           /\ open' = [open EXCEPT ![<<cur, slice>>] = resting]
           /\ Traded(<<cur, slice>>, q, s - q)
  BY <1>5, <1>6
<1> QED
  BY <1>1, <1>2, <1>3, <1>4, <1>7 DEF part

\* The answer to a slice is a quantity or a refusal.
LEMMA AnswerType ==
  ASSUME SubmissionType, SendSlice
  PROVE  ans' \in Nat \cup {Refusal}
  BY SentSlice

\* The result and the answer on its way keep their types, and a result with a quantity
\* names the slice that brought it.
LEMMA ResultTypeStep ==
  ASSUME SubmissionType, [Next]_vars
  PROVE  /\ res' \in [last : 0..Slices, total : Nat] /\ ans' \in Nat \cup {Refusal}
         /\ res'.total > 0 => res'.last # 0
<1>1. /\ res \in [last : 0..Slices, total : Nat] /\ ans \in Nat \cup {Refusal}
      /\ slice \in 0..Slices /\ Slices \in Nat \ {0}
      /\ res.total > 0 => res.last # 0
  BY SlicesType DEF SubmissionType, TypeOK, Control
<1>2. NoResult \in [last : 0..Slices, total : Nat] /\ NoResult.total = 0
  BY SlicesType DEF NoResult
<1>3. CASE spc \in {"slice", "call"} /\ (SimulatorFills \/ SliceReturns \/ SendSlice)
  <2>1. slice \in 1..Slices /\ Share(cur, slice) \in Nat
    BY <1>3, SliceShare DEF SubmissionType, Control, Executing, Busy, Slicing, TypeOK
  <2>2. \/ res' = res
        \/ \E q \in Nat : res' = [last |-> slice, total |-> res.total + q]
    BY <1>1, <1>3, <2>1 DEF SimulatorFills, SliceReturns, SendSlice, Aggregate, Refusal
  <2>3. ans' \in Nat \cup {Refusal}
    <3>1. CASE SimulatorFills \/ SliceReturns
      BY <1>1, <3>1 DEF SimulatorFills, SliceReturns
    <3>2. CASE SendSlice
      BY <3>2, AnswerType
    <3> QED
      BY <1>3, <3>1, <3>2
  <2> QED
    BY <1>1, <2>1, <2>2, <2>3
<1>4. CASE SkipSlice \/ SliceNotSent \/ SliceUnanswered \/ PauseEnds \/ PauseCut
  BY <1>1, <1>4 DEF SkipSlice, SliceNotSent, SliceUnanswered, PauseEnds, PauseCut, sliceVars
<1>5. CASE Boot \/ FetchIntent \/ TakeToken \/ AwaitToken \/ WaitCancelled \/ Stop \/ Tick
             \/ CancelRoot \/ RestingTrade \/ StreamFill \/ UNCHANGED vars
  BY <1>1, <1>5 DEF Boot, FetchIntent, TakeToken, AwaitToken, WaitCancelled, Stop, Tick, CancelRoot,
     RestingTrade, StreamFill, LimiterFrame, sliceVars, vars
<1>6. CASE AddPending \/ Crash
  BY <1>1, <1>2, <1>6 DEF AddPending, Crash
<1>7. CASE MarkRejected \/ MarkSubmitted \/ PublishFill \/ CommitOffset
  BY <1>1, <1>2, <1>7 DEF MarkRejected, MarkSubmitted, PublishFill, CommitOffset, ToFetch, sliceVars
<1> QED
  BY <1>3, <1>4, <1>5, <1>6, <1>7 DEF Next, WorkerSteps, SimulatorFills, SliceReturns, SendSlice

\* The venue accepts a slice of the order in hand and executes some of it, or
\* nothing changes.
LEMMA ExecutedStep ==
  ASSUME SubmissionType, [Next]_vars
  PROVE  \/ UNCHANGED <<placed, executed>>
         \/ /\ SimulatorFills \/ SendSlice
            /\ spc = "slice" /\ cur \in Parents /\ slice \in 1..Slices /\ Slicing
            /\ \E s \in PlacedSizes(Share(cur, slice)), q \in Nat :
                 /\ s \in Nat
                 /\ placed' = [placed EXCEPT ![cur] = @ + s]
                 /\ executed' = [executed EXCEPT ![cur] = @ + q]
<1>1. CASE SimulatorFills
  <2>1. spc = "slice" /\ backend = "sim"
    BY <1>1 DEF SimulatorFills
  <2>2. cur \in Parents /\ slice \in 1..Slices /\ Slicing
    BY <2>1 DEF SubmissionType, TypeOK, Control, Busy, Executing, Slicing
  <2>3. Share(cur, slice) \in Nat /\ Share(cur, slice) \in PlacedSizes(Share(cur, slice))
    BY <2>1, <2>2, SliceShare DEF PlacedSizes
  <2>4. /\ placed' = [placed EXCEPT ![cur] = @ + Share(cur, slice)]
        /\ executed' = [executed EXCEPT ![cur] = @ + Share(cur, slice)]
    BY <1>1 DEF SimulatorFills, Place, ExecuteAtOnce
  <2> QED
    BY <1>1, <2>1, <2>2, <2>3, <2>4
<1>2. CASE SendSlice
  BY <1>2, SentSlice DEF Place, ExecuteAtOnce
<1>3. CASE Boot \/ FetchIntent \/ TakeToken \/ AwaitToken \/ WaitCancelled \/ AddPending \/ Stop
             \/ Tick \/ CancelRoot \/ Crash \/ RestingTrade \/ StreamFill \/ UNCHANGED vars
  BY <1>3 DEF Boot, FetchIntent, TakeToken, AwaitToken, WaitCancelled, AddPending, Stop, Tick,
     CancelRoot, Crash, RestingTrade, StreamFill, LimiterFrame, histVars, vars
<1>4. CASE SkipSlice \/ SliceNotSent \/ SliceReturns \/ SliceUnanswered \/ PauseEnds \/ PauseCut
  BY <1>4 DEF SkipSlice, SliceNotSent, SliceReturns, SliceUnanswered, PauseEnds, PauseCut, LoopFrame
<1>5. CASE MarkRejected \/ MarkSubmitted \/ PublishFill \/ CommitOffset
  BY <1>5 DEF MarkRejected, MarkSubmitted, PublishFill, CommitOffset, ResultFrame
<1> QED
  BY <1>1, <1>2, <1>3, <1>4, <1>5 DEF Next, WorkerSteps

\* Reports are of trades.
LEMMA TradedType ==
  ASSUME SubmissionType, NEW id \in Ids, NEW q \in Nat, NEW remain, Traded(id, q, remain)
  PROVE  chan' \subseteq Reports
<1>1. chan \subseteq Reports
  BY DEF SubmissionType, TypeOK
<1>2. \A st \in {"PARTIALLY_FILLED", "FILLED"} : [order |-> id, qty |-> q, status |-> st] \in Reports
  BY DEF Reports
<1> QED
  BY <1>1, <1>2 DEF Traded

\* What rests and what is reported keep their types.
LEMMA VenueTypeStep ==
  ASSUME SubmissionType, [Next]_vars
  PROVE  open' \in [Ids -> Nat] /\ chan' \subseteq Reports
<1>1. open \in [Ids -> Nat] /\ chan \subseteq Reports
  BY DEF SubmissionType, TypeOK
<1>2. CASE SendSlice
  <2>1. CASE UNCHANGED <<open, chan>>
    BY <1>1, <2>1
  <2>2. CASE ~UNCHANGED <<open, chan>>
    <3>1. <<cur, slice>> \in Ids
      BY <1>2, SentSlice
    <3>2. PICK s, q \in Nat, resting \in Nat :
             /\ open' = [open EXCEPT ![<<cur, slice>>] = resting]
             /\ Traded(<<cur, slice>>, q, s - q)
      BY <1>2, <2>2, SentSlice
    <3>3. open' \in [Ids -> Nat]
      BY <1>1, <3>1, <3>2
    <3> QED
      BY <3>1, <3>2, <3>3, TradedType
  <2> QED
    BY <2>1, <2>2
<1>3. CASE RestingTrade
  <2>1. PICK id \in Ids : \E q \in Portions(open[id]) \ {0} :
           open' = [open EXCEPT ![id] = @ - q] /\ Traded(id, q, open[id] - q)
    BY <1>3 DEF RestingTrade
  <2>2. PICK q \in Portions(open[id]) :
           open' = [open EXCEPT ![id] = @ - q] /\ Traded(id, q, open[id] - q)
    BY <2>1
  <2>3. open[id] \in Nat
    BY <1>1
  <2>4. q \in Nat /\ q <= open[id]
    BY <2>3, PortionTypes
  <2>5. open' \in [Ids -> Nat]
    BY <1>1, <2>2, <2>4
  <2> QED
    BY <2>2, <2>4, <2>5, TradedType
<1>4. CASE StreamFill
  BY <1>1, <1>4 DEF StreamFill
<1>5. CASE Boot \/ FetchIntent \/ TakeToken \/ AwaitToken \/ WaitCancelled \/ AddPending \/ Stop
             \/ Tick \/ CancelRoot \/ Crash \/ UNCHANGED vars
  BY <1>1, <1>5 DEF Boot, FetchIntent, TakeToken, AwaitToken, WaitCancelled, AddPending, Stop, Tick,
     CancelRoot, Crash, LimiterFrame, venueVars, vars
<1>6. CASE SkipSlice \/ SimulatorFills \/ SliceNotSent \/ SliceReturns \/ SliceUnanswered
             \/ PauseEnds \/ PauseCut
  BY <1>1, <1>6 DEF SkipSlice, SimulatorFills, SliceNotSent, SliceReturns, SliceUnanswered, PauseEnds,
     PauseCut, LoopFrame, venueVars
<1>7. CASE MarkRejected \/ MarkSubmitted \/ PublishFill \/ CommitOffset
  BY <1>1, <1>7 DEF MarkRejected, MarkSubmitted, PublishFill, CommitOffset, ResultFrame, venueVars
<1> QED
  BY <1>2, <1>3, <1>4, <1>5, <1>6, <1>7 DEF Next, WorkerSteps

\* A merged fill of the order in hand is published, or none.
LEMMA PublishedStep ==
  ASSUME SubmissionType, [Next]_vars
  PROVE  /\ \/ published' = published
            \/ /\ PublishFill /\ cur \in Parents /\ res.total \in Nat
               /\ published' = [published EXCEPT ![cur] = @ + res.total]
         /\ topic' \subseteq Fills
<1>0. topic \subseteq Fills /\ chan \subseteq Reports
  BY DEF SubmissionType, TypeOK
<1>1. CASE PublishFill
  <2>1. cur \in Parents /\ res.last \in 0..Slices /\ res.total \in Nat
    BY <1>1 DEF PublishFill, SubmissionType, TypeOK, Control, Busy
  <2>2. MergedFill \in Fills
    BY <2>1, IdTypes DEF MergedFill, MergedQty, Fills
  <2> QED
    BY <1>0, <1>1, <2>1, <2>2 DEF PublishFill, Reported, MergedQty
<1>2. CASE StreamFill
  <2>1. \A f \in Reports : [order |-> f.order, path |-> "ws", qty |-> f.qty] \in Fills
    BY DEF Reports, Fills
  <2>2. published' = published
    BY <1>2 DEF StreamFill, histVars
  <2>3. topic' \subseteq Fills
    BY <1>0, <1>2, <2>1 DEF StreamFill
  <2> QED
    BY <2>2, <2>3
<1>3. CASE Boot \/ FetchIntent \/ TakeToken \/ AwaitToken \/ WaitCancelled \/ AddPending \/ Stop
             \/ Tick \/ CancelRoot \/ Crash \/ RestingTrade \/ UNCHANGED vars
  BY <1>0, <1>3 DEF Boot, FetchIntent, TakeToken, AwaitToken, WaitCancelled, AddPending, Stop, Tick,
     CancelRoot, Crash, RestingTrade, LimiterFrame, histVars, vars
<1>4. CASE SkipSlice \/ SimulatorFills \/ SliceNotSent \/ SendSlice \/ SliceReturns \/ SliceUnanswered
             \/ PauseEnds \/ PauseCut
  BY <1>0, <1>4 DEF SkipSlice, SimulatorFills, SliceNotSent, SendSlice, SliceReturns, SliceUnanswered,
     PauseEnds, PauseCut, LoopFrame, SliceFrame
<1>5. CASE MarkRejected \/ MarkSubmitted \/ CommitOffset
  BY <1>0, <1>5 DEF MarkRejected, MarkSubmitted, CommitOffset
<1> QED
  BY <1>1, <1>2, <1>3, <1>4, <1>5 DEF Next, WorkerSteps

\* Only an order that is in hand becomes cut or lost, and none stops being so.
LEMMA CutStep ==
  ASSUME SubmissionType, [Next]_vars
  PROVE  /\ cut' = cut \/ (cut' = cut \cup {cur} /\ spc \in {"pending", "pause"})
         /\ lost' = lost \/ lost' = lost \cup {cur} \/ lost' = lost \cup ({cur} \ {NoParent})
         /\ cut' \subseteq Parents /\ lost' \subseteq Parents
<1>1. cut \subseteq Parents /\ lost \subseteq Parents /\ cur \in Parents \cup {NoParent}
  BY DEF SubmissionType, TypeOK
<1>2. spc \in Busy => cur \in Parents
  BY DEF SubmissionType, Control
<1>3. CASE FetchIntent \/ TakeToken \/ AwaitToken \/ WaitCancelled \/ Stop \/ Tick
             \/ CancelRoot \/ RestingTrade \/ StreamFill \/ UNCHANGED vars
  BY <1>1, <1>3 DEF FetchIntent, TakeToken, AwaitToken, WaitCancelled, Stop, Tick, CancelRoot,
     RestingTrade, StreamFill, LimiterFrame, histVars, vars
<1>4. CASE Boot \/ AddPending \/ Crash
  BY <1>1, <1>2, <1>4 DEF Boot, AddPending, Crash, Busy
<1>5. CASE SkipSlice \/ SimulatorFills \/ SliceNotSent \/ SendSlice \/ SliceReturns \/ SliceUnanswered
             \/ PauseEnds \/ PauseCut
  BY <1>1, <1>2, <1>5 DEF SkipSlice, SimulatorFills, SliceNotSent, SendSlice, SliceReturns,
     SliceUnanswered, PauseEnds, PauseCut, Busy
<1>6. CASE MarkRejected \/ MarkSubmitted \/ PublishFill \/ CommitOffset
  BY <1>1, <1>2, <1>6 DEF MarkRejected, MarkSubmitted, PublishFill, CommitOffset, ResultFrame, Busy
<1> QED
  BY <1>3, <1>4, <1>5, <1>6 DEF Next, WorkerSteps

\* An order is forgotten when it is being saved or at boot, and stays so.
LEMMA ForgottenStep ==
  ASSUME SubmissionType, [Next]_vars
  PROVE  forgotten \subseteq forgotten' /\ forgotten' \subseteq Parents
<1>1. forgotten \subseteq Parents /\ (spc \in Busy => cur \in Parents)
  BY DEF SubmissionType, TypeOK, Control
<1>2. CASE AddPending
  BY <1>1, <1>2 DEF AddPending, Busy
<1>3. CASE Boot
  <2>1. PICK preloaded, listed, saved : BootLeaves(preloaded, listed, saved)
    BY <1>3 DEF Boot
  <2> QED
    BY <1>1, <2>1 DEF BootLeaves
<1>4. CASE FetchIntent \/ TakeToken \/ AwaitToken \/ WaitCancelled \/ Stop \/ Tick \/ CancelRoot
             \/ Crash \/ RestingTrade \/ StreamFill \/ UNCHANGED vars
  BY <1>1, <1>4 DEF FetchIntent, TakeToken, AwaitToken, WaitCancelled, Stop, Tick, CancelRoot, Crash,
     RestingTrade, StreamFill, LimiterFrame, histVars, vars
<1>5. CASE SkipSlice \/ SimulatorFills \/ SliceNotSent \/ SendSlice \/ SliceReturns \/ SliceUnanswered
             \/ PauseEnds \/ PauseCut
  BY <1>1, <1>5 DEF SkipSlice, SimulatorFills, SliceNotSent, SendSlice, SliceReturns, SliceUnanswered,
     PauseEnds, PauseCut, LoopFrame, SliceFrame
<1>6. CASE MarkRejected \/ MarkSubmitted \/ PublishFill \/ CommitOffset
  BY <1>1, <1>6 DEF MarkRejected, MarkSubmitted, PublishFill, CommitOffset, ResultFrame
<1> QED
  BY <1>2, <1>3, <1>4, <1>5, <1>6 DEF Next, WorkerSteps

\* Types and control hold at first.
LEMMA SubmissionTypeInit == Init => SubmissionType
<1> SUFFICES ASSUME Init PROVE SubmissionType
  OBVIOUS
<1>1. BucketInv
  BY BucketInitInv DEF Init
<1>2. db \in [Ids -> Row] /\ states \in [Ids -> StatesOrAbsent]
  BY DEF Init, Row, NoRow, StatesOrAbsent
<1>3. res \in [last : 0..Slices, total : Nat] /\ res.total = 0
  BY SlicesType DEF Init, NoResult
<1>4. /\ committed \in 0..Len(Intents) /\ pos \in 0..Len(Intents) /\ slice \in 0..Slices
      /\ left \in 0..SubmitTimeout /\ faults \in 0..MaxFaults /\ restarts \in 0..MaxRestarts
      /\ open \in [Ids -> Nat]
  BY SubmissionAssumption DEF Init
<1>5. cancelled \in BOOLEAN
  BY DEF Init
<1>6. TypeOK
  BY <1>1, <1>2, <1>3, <1>4, <1>5 DEF Init, TypeOK, BucketInv
<1>7. Control
  BY <1>3 DEF Init, Control, Busy, Executing
<1> QED
  BY <1>1, <1>6, <1>7 DEF SubmissionType

\* Every step keeps types and control.
LEMMA SubmissionTypeStep == SubmissionType /\ [Next]_vars => SubmissionType'
<1> SUFFICES ASSUME SubmissionType, [Next]_vars PROVE SubmissionType'
  OBVIOUS
<1>1. BucketInv'
  BY StepOfBucket, BucketStepInv DEF SubmissionType
<1>2. /\ placed' \in [Parents -> Nat] /\ executed' \in [Parents -> Nat]
      /\ published' \in [Parents -> Nat]
  <2>1. /\ placed \in [Parents -> Nat] /\ executed \in [Parents -> Nat]
        /\ published \in [Parents -> Nat]
    BY DEF SubmissionType, TypeOK
  <2>2. placed' \in [Parents -> Nat] /\ executed' \in [Parents -> Nat]
    BY <2>1, ExecutedStep
  <2>3. published' \in [Parents -> Nat]
    BY <2>1, PublishedStep
  <2> QED
    BY <2>2, <2>3
<1>3. TypeOK'
  BY <1>1, <1>2, CutStep, ForgottenStep, WorldTypeStep, TableTypeStep, LoopTypeStep, TimerTypeStep,
     ResultTypeStep, VenueTypeStep, PublishedStep
     DEF TypeOK, BucketInv, Busy
<1>4. Control'
  BY LoopTypeStep, ResultTypeStep DEF Control
<1> QED
  BY <1>1, <1>3, <1>4 DEF SubmissionType

\* Every variable of the submission loop keeps its type: in particular no
\* register leaves its range at the end of the loop over the slices.
THEOREM SubmissionTypeCorrect == Spec => []TypeOK
<1>1. SubmissionType => TypeOK
  BY DEF SubmissionType
<1> QED
  BY <1>1, SubmissionTypeInit, SubmissionTypeStep, PTL DEF Spec

-----------------------------------------------------------------------------
(* What is reported is what was executed.                                   *)

\* What the worker knows to be executed of p and has not reported: the result so
\* far and the answer that is on its way.
InHand(p) ==
  IF p = cur /\ spc \in Executing \cup {"failed", "publish"}
    THEN res.total + (IF spc = "call" /\ ans > 0 THEN ans ELSE 0)
    ELSE 0

\* The books of p balance, or p is cut or lost and the rest was not reported.
Balanced(p) ==
  /\ published[p] + InHand(p) <= executed[p]
  /\ p \notin cut \cup lost => published[p] + InHand(p) = executed[p]

\* MarkRejected drops what was collected: only of an order that is cut.
Accounts ==
  /\ \A p \in Parents : Balanced(p)
  /\ spc = "failed" => cur \in cut \/ res.total = 0

\* Every quantity of the books is a natural.
LEMMA BookTypes ==
  ASSUME SubmissionType, NEW p \in Parents
  PROVE  /\ published[p] \in Nat /\ executed[p] \in Nat /\ InHand(p) \in Nat
         /\ res.total \in Nat /\ ans \in Nat \cup {Refusal}
<1>1. /\ published[p] \in Nat /\ executed[p] \in Nat
      /\ res.total \in Nat /\ ans \in Nat \cup {Refusal}
  BY DEF SubmissionType, TypeOK
<1> QED
  BY <1>1 DEF InHand, Refusal

\* Most steps leave the books of an order alone.
LEMMA BooksKept ==
  ASSUME SubmissionType, [Next]_vars, NEW p \in Parents, Balanced(p),
         published'[p] = published[p], executed'[p] = executed[p], InHand(p)' = InHand(p)
  PROVE  Balanced(p)'
<1>1. cut \subseteq cut' /\ lost \subseteq lost'
  BY CutStep
<1> QED
  BY <1>1, BookTypes DEF Balanced

\* Every step keeps the books of every order balanced.
LEMMA AccountsStep ==
  ASSUME SubmissionType, Accounts, [Next]_vars, NEW p \in Parents
  PROVE  Balanced(p)'
<1>1. /\ published[p] \in Nat /\ executed[p] \in Nat /\ InHand(p) \in Nat
      /\ res.total \in Nat /\ ans \in Nat \cup {Refusal}
      /\ p # NoParent /\ Balanced(p)
  BY BookTypes, SubmissionAssumption DEF Accounts
<1>2. cut \subseteq cut' /\ lost \subseteq lost'
  BY CutStep
<1>3. executed \in [Parents -> Nat] /\ published \in [Parents -> Nat]
  BY DEF SubmissionType, TypeOK
<1>4. spc \notin Busy => cur # p
  BY <1>1 DEF SubmissionType, Control
<1>5. CASE Boot \/ TakeToken \/ AwaitToken \/ WaitCancelled \/ Stop \/ Tick \/ CancelRoot
             \/ RestingTrade \/ StreamFill \/ UNCHANGED vars
  <2>1. published' = published /\ executed' = executed
    BY <1>5 DEF Boot, TakeToken, AwaitToken, WaitCancelled, Stop, Tick, CancelRoot, RestingTrade,
       StreamFill, LimiterFrame, histVars, vars
  <2>2. InHand(p)' = InHand(p)
    BY <1>5 DEF Boot, TakeToken, AwaitToken, WaitCancelled, Stop, Tick, CancelRoot, RestingTrade,
       StreamFill, LimiterFrame, vars, sliceVars, InHand, Executing
  <2> QED
    BY <1>1, <2>1, <2>2, BooksKept
<1>6. CASE FetchIntent \/ AddPending \/ CommitOffset
  <2>1. published' = published /\ executed' = executed
    BY <1>6 DEF FetchIntent, AddPending, CommitOffset, ResultFrame, histVars
  <2>2. InHand(p) = 0 /\ InHand(p)' = 0
    BY <1>1, <1>6 DEF FetchIntent, AddPending, CommitOffset, ToFetch, NoResult, InHand, Executing
  <2> QED
    BY <1>1, <2>1, <2>2, BooksKept
<1>7. CASE SkipSlice \/ SliceNotSent \/ PauseEnds \/ PauseCut \/ SliceReturns
  <2>1. published' = published /\ executed' = executed
    BY <1>7 DEF SkipSlice, SliceNotSent, PauseEnds, PauseCut, SliceReturns, LoopFrame, SliceFrame
  <2>2. InHand(p)' = InHand(p)
    BY <1>1, <1>7 DEF SkipSlice, SliceNotSent, PauseEnds, PauseCut, SliceReturns, LoopFrame, SliceFrame, NextSlice,
       sliceVars, Aggregate, Refusal, InHand, Executing
  <2> QED
    BY <1>1, <2>1, <2>2, BooksKept
<1>8. CASE SimulatorFills \/ SendSlice
  <2>1. published' = published /\ cur' = cur /\ cut' = cut /\ lost' = lost /\ spc = "slice"
    BY <1>8 DEF SimulatorFills, SendSlice, SliceFrame
  <2>2. CASE p # cur
    <3>1. executed'[p] = executed[p]
      BY <1>3, <2>2, ExecutedStep
    <3>2. InHand(p)' = InHand(p)
      BY <2>1, <2>2 DEF InHand
    <3> QED
      BY <1>1, <2>1, <3>1, <3>2, BooksKept
  <2>3. CASE p = cur
    <3>1. InHand(p) = res.total
      BY <1>1, <2>1, <2>3 DEF InHand, Executing
    <3>2. CASE SimulatorFills
      <4> DEFINE part == Share(cur, slice)
      <4>1. part \in Nat
        BY <2>1, SliceShare DEF SubmissionType, Control, TypeOK, Busy, Executing, Slicing
      <4>2. /\ executed'[p] = executed[p] + part
            /\ res'.total = res.total + part /\ spc' \in {"pause", "done"}
        BY <1>3, <2>3, <3>2 DEF SimulatorFills, ExecuteAtOnce, Aggregate, NextSlice
      <4> HIDE DEF part
      <4>3. InHand(p)' = res'.total
        BY <1>1, <2>1, <2>3, <4>1, <4>2 DEF InHand, Executing
      <4> QED
        BY <1>1, <2>1, <3>1, <4>1, <4>2, <4>3 DEF Balanced
    <3>3. CASE SendSlice
      <4>1. spc' = "call" /\ res' = res
        BY <3>3 DEF SendSlice
      <4>2. \/ ans' = Refusal /\ executed' = executed
            \/ \E q \in Nat : ans' = q /\ executed'[p] = executed[p] + q
        BY <1>3, <2>3, <3>3, SentSlice DEF ExecuteAtOnce
      <4>3. \E q \in Nat : InHand(p)' = InHand(p) + q /\ executed'[p] = executed[p] + q
        BY <1>1, <2>1, <2>3, <3>1, <4>1, <4>2 DEF InHand, Executing, Refusal
      <4> QED
        BY <1>1, <2>1, <4>3 DEF Balanced
    <3> QED
      BY <1>8, <3>2, <3>3
  <2> QED
    BY <2>2, <2>3
<1>9. CASE SliceUnanswered
  <2>1. /\ published' = published /\ executed' = executed /\ cur' = cur /\ cut' = cut /\ res' = res
        /\ lost' = IF ans > 0 THEN lost \cup {cur} ELSE lost
        /\ spc = "call" /\ spc' \in {"pause", "done"}
    BY <1>9 DEF SliceUnanswered, LoopFrame, SliceFrame, NextSlice
  <2>2. /\ InHand(p)' <= InHand(p) /\ InHand(p)' \in Nat
        /\ (p = cur /\ ans > 0) \/ InHand(p)' = InHand(p)
    BY <1>1, <2>1 DEF InHand, Executing, Refusal
  <2> QED
    BY <1>1, <2>1, <2>2 DEF Balanced
<1>10. CASE MarkRejected
  <2>1. /\ published' = published /\ executed' = executed /\ cur' = cur /\ cut' = cut /\ lost' = lost
        /\ spc = "failed" /\ spc' = "commit"
    BY <1>10 DEF MarkRejected, ResultFrame
  <2>2. InHand(p)' = 0 /\ (p = cur => InHand(p) = res.total) /\ (p # cur => InHand(p) = 0)
    BY <1>1, <2>1 DEF InHand, Executing
  <2>3. p = cur => p \in cut \/ res.total = 0
    BY <2>1 DEF Accounts
  <2> QED
    BY <1>1, <2>1, <2>2, <2>3 DEF Balanced
<1>11. CASE MarkSubmitted
  <2>1. /\ published' = published /\ executed' = executed /\ cur' = cur /\ res' = res
        /\ spc = "done" /\ spc' = IF res.total > 0 THEN "publish" ELSE "commit"
    BY <1>11 DEF MarkSubmitted, ResultFrame, MergedQty, sliceVars
  <2>2. InHand(p)' = InHand(p)
    BY <1>1, <2>1 DEF InHand, Executing
  <2> QED
    BY <1>1, <2>1, <2>2, BooksKept
<1>12. CASE PublishFill
  <2>1. /\ executed' = executed /\ cut' = cut /\ spc = "publish"
        /\ \/ /\ published' = [published EXCEPT ![cur] = @ + res.total] /\ cur' = cur
              /\ spc' = "commit" /\ lost' = lost
           \/ /\ published' = published \/ published' = [published EXCEPT ![cur] = @ + res.total]
              /\ cur' = NoParent /\ lost' = lost \cup {cur}
    BY <1>12 DEF PublishFill, ResultFrame, Reported, MergedQty, ToFetch
  <2>2. InHand(p)' = 0 /\ (p = cur => InHand(p) = res.total) /\ (p # cur => InHand(p) = 0)
    BY <1>1, <2>1 DEF InHand, Executing
  <2>3. CASE p # cur
    BY <1>1, <1>3, <2>1, <2>2, <2>3 DEF Balanced
  <2>4. CASE p = cur
    <3>1. /\ published'[p] \in {published[p], published[p] + res.total}
          /\ published'[p] = published[p] + res.total \/ p \in lost'
      BY <1>3, <2>1, <2>4
    <3> QED
      BY <1>1, <2>1, <2>2, <2>4, <3>1 DEF Balanced
  <2> QED
    BY <2>3, <2>4
<1>13. CASE Crash
  <2>1. /\ published' = published /\ executed' = executed /\ cut' = cut
        /\ lost' = lost \cup ({cur} \ {NoParent}) /\ cur' = NoParent
    BY <1>13 DEF Crash
  <2>2. InHand(p)' = 0 /\ (p # cur => InHand(p) = 0)
    BY <1>1, <2>1 DEF InHand
  <2> QED
    BY <1>1, <2>1, <2>2 DEF Balanced
<1> QED
  BY <1>5, <1>6, <1>7, <1>8, <1>9, <1>10, <1>11, <1>12, <1>13 DEF Next, WorkerSteps

\* A submission fails before the first slice, or by a pause that was cut.
LEMMA FailedStep ==
  ASSUME SubmissionType, Accounts, [Next]_vars
  PROVE  spc' = "failed" => cur' \in cut' \/ res'.total = 0
<1> SUFFICES ASSUME spc' = "failed" PROVE cur' \in cut' \/ res'.total = 0
  OBVIOUS
<1>1. CASE AddPending \/ PauseCut
  BY <1>1 DEF AddPending, PauseCut, LoopFrame, SliceFrame, NoResult
<1>2. CASE Tick \/ CancelRoot \/ RestingTrade \/ StreamFill \/ UNCHANGED vars
  BY <1>2 DEF Tick, CancelRoot, RestingTrade, StreamFill, vars, sliceVars, histVars, Accounts
<1>3. CASE Boot \/ FetchIntent \/ TakeToken \/ AwaitToken \/ WaitCancelled \/ Stop \/ Crash
  BY <1>3 DEF Boot, FetchIntent, TakeToken, AwaitToken, WaitCancelled, Stop, Crash
<1>4. CASE SkipSlice \/ SimulatorFills \/ SliceNotSent \/ SendSlice \/ SliceReturns \/ SliceUnanswered
             \/ PauseEnds
  BY <1>4 DEF SkipSlice, SimulatorFills, SliceNotSent, SendSlice, SliceReturns, SliceUnanswered,
     PauseEnds, NextSlice
<1>5. CASE MarkRejected \/ MarkSubmitted \/ PublishFill \/ CommitOffset
  BY <1>5 DEF MarkRejected, MarkSubmitted, PublishFill, CommitOffset, ToFetch
<1> QED
  BY <1>1, <1>2, <1>3, <1>4, <1>5 DEF Next, WorkerSteps

\* The merged fills never report more of an order than its slices executed at
\* once, and report all of it once the worker is done with an order that was
\* neither cut nor lost; the stream's fills of the same children come on top.
THEOREM ReportsAreExact == Spec => []ReportedIsExecuted
<1>1. Init => Accounts
  <2> SUFFICES ASSUME Init, NEW p \in Parents PROVE Balanced(p)
    BY DEF Init, Accounts
  <2>1. InHand(p) = 0 /\ published[p] = 0 /\ executed[p] = 0
    BY DEF Init, InHand, Executing
  <2> QED
    BY <2>1 DEF Balanced
<1>2. SubmissionType /\ Accounts /\ [Next]_vars => Accounts'
  BY AccountsStep, FailedStep DEF Accounts
<1>3. SubmissionType /\ Accounts => ReportedIsExecuted
  <2> SUFFICES ASSUME SubmissionType, Accounts, NEW p \in Parents
               PROVE  /\ published[p] <= executed[p]
                      /\ p \notin cut \cup lost \cup {cur} => published[p] = executed[p]
    BY DEF ReportedIsExecuted
  <2>1. published[p] \in Nat /\ executed[p] \in Nat /\ InHand(p) \in Nat /\ Balanced(p)
    BY BookTypes DEF Accounts
  <2>2. p # cur => InHand(p) = 0
    BY DEF InHand
  <2> QED
    BY <2>1, <2>2 DEF Balanced
<1> QED
  BY <1>1, <1>2, <1>3, SubmissionTypeInit, SubmissionTypeStep, PTL DEF Spec

-----------------------------------------------------------------------------
(* An order that was begun is known: to the store, and to the tracker.      *)

Active(p) == <<p, 0>> \in GetActiveOrders(db)
Tracked(p) == states[<<p, 0>>] # Absent

\* Orders that may be begun again: their intent may be new to the tracker.
Excused == cut \cup forgotten

\* An order of which something was placed is active in the store, so that a
\* crash does not make its intent a new one, unless it is excused.
Begun ==
  /\ \A p \in Parents :
       p \notin Excused /\ placed[p] > 0 => Active(p) /\ (spc # "boot" => Tracked(p))
  /\ spc \in {"limit", "pending", "failed"} => cur \in Excused \/ placed[cur] = 0
  /\ spc \in Executing => cur \in Excused \/ (Active(cur) /\ Tracked(cur))

\* No order stops being excused.
LEMMA ExcusedStep ==
  ASSUME SubmissionType, [Next]_vars
  PROVE  Excused \subseteq Excused'
  BY CutStep, ForgottenStep DEF Excused

\* What the statements of the store do to the state of a row: SaveOrder writes
\* its own row ...
LEMMA SavedState ==
  ASSUME NEW table \in [Ids -> Row], NEW id \in Ids, NEW state, NEW i \in Ids
  PROVE  SaveOrder(table, id, state)[i].state = IF i = id THEN state ELSE table[i].state
  BY DEF SaveOrder, Row

\* ... UpdateOrderState too, if there is one ...
LEMMA UpdatedState ==
  ASSUME NEW table \in [Ids -> Row], NEW id \in Ids, NEW state, NEW n, NEW i \in Ids
  PROVE  UpdateRow(table, id, state, n)[i].state =
           IF i = id /\ table[id].state # Absent THEN state ELSE table[i].state
  BY DEF UpdateRow, Row

\* ... and RecordFillCosts writes none.
LEMMA CostsState ==
  ASSUME NEW table \in [Ids -> Row], NEW id \in Ids, NEW n, NEW i \in Ids
  PROVE  RecordFillCosts(table, id, n)[i].state = table[i].state
  BY DEF RecordFillCosts, Row

\* An order is active when its row exists and is not terminal.
LEMMA ActiveRow ==
  ASSUME SubmissionType, NEW p \in Parents
  PROVE  Active(p) <=> db[<<p, 0>>].state \notin TerminalStates \cup {Absent}
<1>1. db \in [Ids -> Row] /\ <<p, 0>> \in Ids
  BY IdTypes, SlicesType DEF SubmissionType, TypeOK
<1> QED
  BY <1>1 DEF Active, GetActiveOrders

\* Only a rejection ends an active order.
LEMMA ActiveStep ==
  ASSUME SubmissionType, [Next]_vars, NEW p \in Parents, Active(p)
  PROVE  Active(p)' \/ (MarkRejected /\ p = cur)
<1> DEFINE row == <<p, 0>>
           Live(t) == t[row].state \notin TerminalStates \cup {Absent}
<1>0. SubmissionType'
  BY SubmissionTypeStep
<1>1. row \in Ids /\ db \in [Ids -> Row] /\ Live(db)
  BY IdTypes, SlicesType, ActiveRow DEF SubmissionType, TypeOK
<1>2. Live(db') => Active(p)'
  <2>1. db' \in [Ids -> Row]
    BY <1>0 DEF SubmissionType, TypeOK
  <2> QED
    BY <1>1, <2>1 DEF Active, GetActiveOrders
<1>3. CASE AddPending
  <2>1. cur \in Parents
    BY <1>3 DEF AddPending, SubmissionType, Control, Busy
  <2>2. <<cur, 0>> \in Ids
    BY <2>1, IdTypes, SlicesType
  <2>3. db' \in {db, SaveOrder(db, <<cur, 0>>, "PENDING")}
    BY <1>3 DEF AddPending, StoreWrite
  <2>4. SaveOrder(db, <<cur, 0>>, "PENDING")[row].state \in {"PENDING", db[row].state}
    <3> HIDE DEF row
    <3> QED
      BY <1>1, <2>2, SavedState
  <2> QED
    BY <1>1, <1>2, <2>3, <2>4 DEF TerminalStates, Absent
<1>4. CASE MarkSubmitted
  <2> DEFINE child == <<cur, res.last>>
             parent == Updated(db, <<cur, 0>>, "SUBMITTED")
             final == RecordFillCosts(UpdateRow(parent, child, "FILLED", 0), child, Share(cur, res.last))
  <2>1. cur \in Parents /\ res.last \in 0..Slices /\ res.total \in Nat /\ (res.total > 0 => res.last # 0)
    BY <1>4 DEF MarkSubmitted, SubmissionType, TypeOK, Control, Busy
  <2>2. <<cur, 0>> \in Ids /\ child \in Ids
    BY <2>1, IdTypes
  <2>3. parent \in [Ids -> Row] /\ Live(parent)
    <3>1. LookupFilledQty(db, <<cur, 0>>) \in Nat /\ parent \in [Ids -> Row]
      BY <1>1, <2>2, TableTypes DEF Updated, OrderStates
    <3>2. parent[row].state \in {"SUBMITTED", db[row].state}
      <4> HIDE DEF row
      <4> QED
        BY <1>1, <2>2, UpdatedState DEF Updated
    <3> HIDE DEF parent
    <3> QED
      BY <1>1, <3>1, <3>2 DEF TerminalStates, Absent
  <2>4. db' \in {db, parent} \/ (res.total > 0 /\ db' = final)
    BY <1>4 DEF MarkSubmitted, StoreWrite, MergedQty
  <2>5. res.total > 0 => Live(final)
    <3> SUFFICES ASSUME res.total > 0 PROVE Live(final)
      OBVIOUS
    <3>1. child # row
      BY <2>1
    <3> DEFINE filled == UpdateRow(parent, child, "FILLED", 0)
    <3> HIDE DEF child, parent, row
    <3>2. filled \in [Ids -> Row]
      BY <2>2, <2>3, TableTypes DEF OrderStates
    <3>3. filled[row].state = parent[row].state
      BY <1>1, <2>2, <2>3, <3>1, UpdatedState
    <3> HIDE DEF filled
    <3>4. \A n : RecordFillCosts(filled, child, n)[row].state = filled[row].state
      BY <1>1, <2>2, <3>2, CostsState
    <3> QED
      BY <2>3, <3>3, <3>4 DEF filled
  <2> HIDE DEF parent, final
  <2> QED
    BY <1>1, <1>2, <2>3, <2>4, <2>5
<1>5. CASE MarkRejected
  <2>1. cur \in Parents
    BY <1>5 DEF MarkRejected, SubmissionType, Control, Busy
  <2>2. <<cur, 0>> \in Ids /\ db' \in {db, Updated(db, <<cur, 0>>, "REJECTED")}
    BY <1>5, <2>1, IdTypes, SlicesType DEF MarkRejected, StoreWrite
  <2>3. p # cur => Updated(db, <<cur, 0>>, "REJECTED")[row].state = db[row].state
    BY <1>1, <2>2, UpdatedState DEF Updated
  <2> QED
    BY <1>1, <1>2, <1>5, <2>2, <2>3
<1>6. CASE Boot
  <2>1. PICK preloaded, listed, saved : BootLeaves(preloaded, listed, saved)
    BY <1>6 DEF Boot
  <2>2. db'[row].state \in {"PENDING", db[row].state}
    BY <1>1, <2>1 DEF BootLeaves, Row
  <2> QED
    BY <1>1, <1>2, <2>2 DEF TerminalStates, Absent
<1>7. CASE FetchIntent \/ TakeToken \/ AwaitToken \/ WaitCancelled \/ Stop \/ Tick \/ CancelRoot
             \/ Crash \/ PublishFill \/ CommitOffset \/ RestingTrade \/ StreamFill \/ UNCHANGED vars
  BY <1>1, <1>2, <1>7 DEF FetchIntent, TakeToken, AwaitToken, WaitCancelled, Stop, Tick, CancelRoot,
     Crash, PublishFill, CommitOffset, RestingTrade, StreamFill, LimiterFrame, vars
<1>8. CASE SkipSlice \/ SimulatorFills \/ SliceNotSent \/ SendSlice \/ SliceReturns
             \/ SliceUnanswered \/ PauseEnds \/ PauseCut
  BY <1>1, <1>2, <1>8 DEF SkipSlice, SimulatorFills, SliceNotSent, SendSlice, SliceReturns,
     SliceUnanswered, PauseEnds, PauseCut, LoopFrame, SliceFrame
<1> QED
  BY <1>3, <1>4, <1>5, <1>6, <1>7, <1>8 DEF Next, WorkerSteps

\* A tracked order stays tracked until the process dies, and the boot after that
\* tracks what is active, or forgets it.
LEMMA TrackedStep ==
  ASSUME SubmissionType, [Next]_vars, NEW p \in Parents, spc' # "boot",
         IF spc = "boot" THEN Active(p) ELSE Tracked(p)
  PROVE  Tracked(p)' \/ p \in forgotten'
<1> DEFINE row == <<p, 0>>
<1>1. row \in Ids /\ db \in [Ids -> Row] /\ states \in [Ids -> StatesOrAbsent]
  BY IdTypes, SlicesType DEF SubmissionType, TypeOK
<1>2. CASE Boot
  <2>1. PICK preloaded, listed, saved : BootLeaves(preloaded, listed, saved)
    BY <1>2 DEF Boot
  <2>2. Active(p)
    BY <1>2 DEF Boot
  <2>3. db[row].state # Absent
    BY <2>2, ActiveRow
  <2>4. row \notin preloaded \cup listed => p \in forgotten'
    BY <2>1, <2>2 DEF BootLeaves, Active
  <2>5. row \in preloaded \cup listed => states'[row] \in {"PENDING", db[row].state}
    BY <1>1, <2>1 DEF BootLeaves
  <2> QED
    BY <2>3, <2>4, <2>5 DEF Tracked, Absent
<1>8. CASE StreamFill
  <2>1. chan \subseteq Reports /\ spc # "boot"
    BY <1>8 DEF StreamFill, SubmissionType, TypeOK
  <2>2. PICK f \in Reports : states' = [states EXCEPT ![f.order] = f.status]
    BY <1>8, <2>1 DEF StreamFill
  <2>3. states'[row] \in {states[row], f.status}
    BY <1>1, <2>2
  <2>4. f.status # Absent
    BY <2>2 DEF Reports, Absent
  <2> QED
    BY <2>1, <2>3, <2>4 DEF Tracked
<1>3. CASE AddPending \/ MarkRejected
  BY <1>1, <1>3 DEF AddPending, MarkRejected, Tracked, Absent
<1>4. CASE MarkSubmitted
  <2>1. \A i \in Ids : states'[i] \in {states[i], "SUBMITTED", "FILLED"}
    BY <1>1, <1>4 DEF MarkSubmitted
  <2> QED
    BY <1>1, <1>4, <2>1 DEF MarkSubmitted, Tracked, Absent
<1>5. CASE FetchIntent \/ TakeToken \/ AwaitToken \/ WaitCancelled \/ Stop \/ CancelRoot
             \/ PublishFill \/ CommitOffset \/ RestingTrade
  BY <1>5 DEF FetchIntent, TakeToken, AwaitToken, WaitCancelled, Stop, CancelRoot, RestingTrade,
     PublishFill, CommitOffset, LimiterFrame, Tracked
<1>6. CASE SkipSlice \/ SimulatorFills \/ SliceNotSent \/ SendSlice \/ SliceReturns
             \/ SliceUnanswered \/ PauseEnds \/ PauseCut
  BY <1>6 DEF SkipSlice, SimulatorFills, SliceNotSent, SendSlice, SliceReturns,
     SliceUnanswered, PauseEnds, PauseCut, LoopFrame, SliceFrame, Tracked
<1>7. CASE Tick \/ UNCHANGED vars \/ Crash
  BY <1>7 DEF Tick, vars, Crash, Tracked
<1> QED
  BY <1>2, <1>3, <1>4, <1>5, <1>6, <1>7, <1>8 DEF Next, WorkerSteps

\* What keeps an order begun that already is.
LEMMA BegunOrderStep ==
  ASSUME SubmissionType, Begun, [Next]_vars, NEW p \in Parents, p \notin Excused', placed'[p] > 0
  PROVE  Active(p)' /\ (spc' # "boot" => Tracked(p)')
<1>1. placed \in [Parents -> Nat] /\ p \notin Excused /\ p \notin forgotten'
  BY ExcusedStep DEF SubmissionType, TypeOK, Excused
<1>2. Active(p) /\ (spc # "boot" => Tracked(p))
  <2>1. CASE placed[p] > 0
    BY <1>1, <2>1 DEF Begun
  <2>2. CASE ~(placed[p] > 0)
    <3>1. placed'[p] # placed[p]
      BY <1>1, <2>2
    <3>2. spc = "slice" /\ p = cur
      BY <1>1, <3>1, ExecutedStep
    <3> QED
      BY <1>1, <3>2 DEF Begun, Executing
  <2> QED
    BY <2>1, <2>2
<1>3. ~(MarkRejected /\ p = cur)
  <2> SUFFICES ASSUME MarkRejected, p = cur PROVE FALSE
    OBVIOUS
  <2>1. spc = "failed" /\ placed' = placed
    BY DEF MarkRejected, ResultFrame
  <2> QED
    BY <1>1, <2>1 DEF Begun
<1> QED
  BY <1>1, <1>2, <1>3, ActiveStep, TrackedStep

\* An intent that reaches the limiter is of an order not begun: the duplicate
\* check has looked at the tracker.
LEMMA NotBegunStep ==
  ASSUME SubmissionType, Begun, [Next]_vars, spc' \in {"limit", "pending", "failed"}
  PROVE  cur' \in Excused' \/ placed'[cur'] = 0
<1>1. placed \in [Parents -> Nat] /\ Excused \subseteq Excused'
  BY ExcusedStep DEF SubmissionType, TypeOK
<1>2. CASE FetchIntent
  <2>1. states[<<cur', 0>>] = Absent /\ spc = "fetch" /\ placed' = placed /\ cur' \in Parents
    BY <1>2, LoopTypeStep DEF FetchIntent, IsDuplicate, histVars, Busy
  <2> QED
    BY <1>1, <2>1 DEF Begun, Tracked
<1>3. CASE TakeToken \/ AwaitToken \/ WaitCancelled
  BY <1>1, <1>3 DEF TakeToken, AwaitToken, WaitCancelled, LimiterFrame, histVars, Begun
<1>4. CASE AddPending
  BY <1>1, <1>4 DEF AddPending, Begun
<1>9. CASE PauseCut
  BY <1>9 DEF PauseCut, LoopFrame, SliceFrame, Excused
<1>5. CASE Tick \/ CancelRoot \/ RestingTrade \/ StreamFill \/ UNCHANGED vars
  BY <1>1, <1>5 DEF Tick, CancelRoot, RestingTrade, StreamFill, vars, histVars, Begun
<1>6. CASE Boot \/ Stop \/ Crash
  BY <1>6 DEF Boot, Stop, Crash
<1>7. CASE SkipSlice \/ SimulatorFills \/ SliceNotSent \/ SendSlice \/ SliceReturns \/ SliceUnanswered
             \/ PauseEnds
  BY <1>7 DEF SkipSlice, SimulatorFills, SliceNotSent, SendSlice, SliceReturns, SliceUnanswered,
     PauseEnds, NextSlice
<1>8. CASE MarkRejected \/ MarkSubmitted \/ PublishFill \/ CommitOffset
  BY <1>8 DEF MarkRejected, MarkSubmitted, PublishFill, CommitOffset, ToFetch
<1> QED
  BY <1>2, <1>3, <1>4, <1>5, <1>6, <1>7, <1>8, <1>9 DEF Next, WorkerSteps

\* A fault is counted.
LEMMA FaultCounts ==
  ASSUME SubmissionType, NEW kind, Fault(kind)
  PROVE  faults' # faults
  BY SubmissionAssumption DEF SubmissionType, TypeOK, Fault

\* The slices begin after the order has become active.
LEMMA SlicingStep ==
  ASSUME SubmissionType, Begun, [Next]_vars, spc' \in Executing, cur' \notin Excused'
  PROVE  (Active(cur) /\ Tracked(cur))'
<1>0. cur' \notin Excused /\ cur' \notin cut' /\ cur' \notin forgotten'
  BY ExcusedStep DEF Excused
<1>1. CASE AddPending
  <2>1. cur \in Parents /\ cur' = cur /\ <<cur, 0>> \in Ids /\ db \in [Ids -> Row]
        /\ states \in [Ids -> StatesOrAbsent] /\ db' \in [Ids -> Row]
    BY <1>1, IdTypes, SlicesType, TableTypeStep DEF AddPending, SubmissionType, TypeOK, Control, Busy
  <2>2. db' = SaveOrder(db, <<cur, 0>>, "PENDING") /\ states'[<<cur, 0>>] = "PENDING"
    <3>1. ~cancelled /\ faults' = faults
      BY <1>0, <1>1, <2>1 DEF AddPending
    <3>2. db' = SaveOrder(db, <<cur, 0>>, "PENDING")
      BY <1>1, <3>1, FaultCounts DEF AddPending, StoreWrite
    <3>3. states'[<<cur, 0>>] = "PENDING"
      BY <1>1, <2>1 DEF AddPending
    <3> QED
      BY <3>2, <3>3
  <2>3. db'[<<cur, 0>>].state = "PENDING"
    BY <2>1, <2>2, SavedState
  <2> QED
    BY <2>1, <2>2, <2>3 DEF Active, Tracked, GetActiveOrders, TerminalStates, Absent
<1>2. CASE spc \in Executing
  <2>1. cur' = cur /\ cur \in Parents /\ spc' # "boot" /\ ~MarkRejected
    <3>1. CASE Tick \/ CancelRoot \/ RestingTrade \/ StreamFill \/ UNCHANGED vars
      BY <1>2, <3>1, LoopTypeStep DEF Tick, CancelRoot, RestingTrade, StreamFill, vars, Executing, Busy, MarkRejected
    <3>2. CASE SkipSlice \/ SimulatorFills \/ SliceNotSent \/ SendSlice \/ SliceReturns
                 \/ SliceUnanswered \/ PauseEnds \/ PauseCut
      BY <1>2, <3>2, LoopTypeStep DEF SkipSlice, SimulatorFills, SliceNotSent, SendSlice, SliceReturns,
         SliceUnanswered, PauseEnds, PauseCut, LoopFrame, SliceFrame, Executing, Busy, MarkRejected
    <3>3. CASE Boot \/ FetchIntent \/ TakeToken \/ AwaitToken \/ WaitCancelled \/ AddPending \/ Stop
                 \/ Crash
      BY <1>2, <3>3 DEF Boot, FetchIntent, TakeToken, AwaitToken, WaitCancelled, AddPending, Stop,
         Crash, Executing
    <3>4. CASE MarkRejected \/ MarkSubmitted \/ PublishFill \/ CommitOffset
      BY <1>2, <3>4 DEF MarkRejected, MarkSubmitted, PublishFill, CommitOffset, ToFetch, Executing
    <3> QED
      BY <3>1, <3>2, <3>3, <3>4 DEF Next, WorkerSteps
  <2>2. Active(cur) /\ Tracked(cur)
    BY <1>0, <1>2, <2>1 DEF Begun
  <2>3. \A q \in Parents \ forgotten' : Active(q) /\ Tracked(q) => Active(q)' /\ Tracked(q)'
    BY <1>2, <2>1, ActiveStep, TrackedStep DEF Executing
  <2> QED
    BY <1>0, <2>1, <2>2, <2>3 DEF Active, Tracked
<1>3. CASE ~AddPending /\ spc \notin Executing
  <2>1. CASE Boot \/ FetchIntent \/ TakeToken \/ AwaitToken \/ WaitCancelled \/ Stop \/ Tick
               \/ CancelRoot \/ Crash \/ RestingTrade \/ StreamFill \/ UNCHANGED vars
    BY <1>3, <2>1 DEF Boot, FetchIntent, TakeToken, AwaitToken, WaitCancelled, Stop, Tick, CancelRoot,
       RestingTrade, StreamFill, Crash, vars, Executing
  <2>2. CASE SkipSlice \/ SimulatorFills \/ SliceNotSent \/ SendSlice \/ SliceReturns
               \/ SliceUnanswered \/ PauseEnds \/ PauseCut
    BY <1>3, <2>2 DEF SkipSlice, SimulatorFills, SliceNotSent, SendSlice, SliceReturns,
       SliceUnanswered, PauseEnds, PauseCut, Executing
  <2>3. CASE MarkRejected \/ MarkSubmitted \/ PublishFill \/ CommitOffset
    BY <2>3 DEF MarkRejected, MarkSubmitted, PublishFill, CommitOffset, ToFetch, Executing
  <2> QED
    BY <1>3, <2>1, <2>2, <2>3 DEF Next, WorkerSteps
<1> QED
  BY <1>1, <1>2, <1>3

-----------------------------------------------------------------------------
(* The slices never add up to more than the order and its rounding.         *)

\* How many slices of the order in hand have been sent or passed over.
Sent == IF spc = "call" THEN slice ELSE IF spc = "done" THEN Slices ELSE slice - 1

\* What is placed of the order in hand is within the share of the slices so far.
InProportion == spc \in Executing => cur \in Excused \/ WithinShare(placed[cur], cur, Sent)

Bounded == NeverOverExecuted /\ InProportion

\* After the slice at hand the order is within the share of one slice more.
LEMMA ProportionAfterSlice ==
  ASSUME SubmissionType, InProportion, spc = "slice", cur \notin Excused,
         NEW q \in PlacedSizes(Share(cur, slice))
  PROVE  WithinShare(placed[cur] + q, cur, slice)
<1>1. cur \in Parents /\ slice \in 1..Slices /\ Slicing /\ placed[cur] \in Nat
  BY DEF SubmissionType, TypeOK, Control, Busy, Executing, Slicing
<1>2. WithinShare(placed[cur], cur, slice - 1)
  BY DEF InProportion, Sent, Executing
<1> QED
  BY <1>1, <1>2, OneMoreSlice

\* A slice that is accepted keeps its order within its quantity.
LEMMA NeverOverStep ==
  ASSUME SubmissionType, Bounded, [Next]_vars
  PROVE  NeverOverExecuted'
<1>0. Rounding' = Rounding
  BY WorldTypeStep DEF Rounding
<1> SUFFICES ASSUME NEW p \in Parents, p \notin Excused' PROVE 2 * placed'[p] <= 2 * Qty[p] + Rounding
  BY <1>0 DEF NeverOverExecuted, Excused
<1>1. placed \in [Parents -> Nat] /\ p \notin Excused /\ 2 * placed[p] <= 2 * Qty[p] + Rounding
  BY ExcusedStep DEF SubmissionType, TypeOK, Bounded, NeverOverExecuted, Excused
<1>2. CASE placed' = placed
  BY <1>1, <1>2
<1>3. CASE placed' # placed
  <2>1. spc = "slice" /\ cur \in Parents /\ slice \in 1..Slices /\ Slicing
    BY <1>3, ExecutedStep
  <2>2. PICK s \in PlacedSizes(Share(cur, slice)) : s \in Nat /\ placed' = [placed EXCEPT ![cur] = @ + s]
    BY <1>3, ExecutedStep
  <2>3. CASE p # cur
    BY <1>1, <2>2, <2>3
  <2>4. CASE p = cur
    <3>1. WithinShare(placed[cur] + s, cur, slice)
      BY <1>1, <2>1, <2>4, ProportionAfterSlice DEF Bounded
    <3>2. placed[cur] + s \in Nat /\ slice \in 0..Slices
      BY <1>1, <2>1, <2>2, SlicesType
    <3>3. 2 * (placed[cur] + s) <= 2 * Qty[cur] + Rounding
      BY <2>1, <3>1, <3>2, ShareOfOrder
    <3> QED
      BY <1>1, <2>2, <2>4, <3>3
  <2> QED
    BY <2>3, <2>4
<1> QED
  BY <1>2, <1>3

\* Every step keeps the order in hand within the share of the slices so far; an order that
\* starts has no slice placed yet.
LEMMA InProportionStep ==
  ASSUME SubmissionType, Begun, Bounded, [Next]_vars
  PROVE  InProportion'
<1> SUFFICES ASSUME spc' \in Executing, cur' \notin Excused'
             PROVE  WithinShare(placed[cur], cur, Sent)'
  BY DEF InProportion
<1>0. cur' \notin Excused
  BY ExcusedStep
<1>1. algo' = algo /\ backend' = backend
  BY WorldTypeStep
<1> SUFFICES WithinShare(placed'[cur'], cur', Sent')
  BY <1>1 DEF WithinShare, UpTo, Slack
<1>2. placed \in [Parents -> Nat] /\ slice \in 0..Slices /\ Slices \in Nat \ {0}
  BY SlicesType DEF SubmissionType, TypeOK
<1>3. CASE AddPending
  <2>1. cur \in Parents /\ cur' = cur /\ placed' = placed /\ Sent' = 0 /\ cur \notin Excused
    BY <1>0, <1>2, <1>3 DEF AddPending, SubmissionType, Control, Busy, Sent
  <2>2. placed'[cur'] = 0
    BY <1>3, <2>1 DEF Begun, AddPending
  <2>3. Slicing
    BY <1>1, <1>3, LoopTypeStep, WorldTypeStep DEF Slicing
  <2> QED
    BY <2>1, <2>2, <2>3, NoSlice
<1>4. CASE SkipSlice \/ SimulatorFills \/ SliceNotSent \/ SendSlice
  <2>1. /\ spc = "slice" /\ cur' = cur /\ cur \notin Excused /\ cur \in Parents /\ slice \in 1..Slices
        /\ Slicing
    BY <1>0, <1>4 DEF SkipSlice, SimulatorFills, SliceNotSent, SendSlice, LoopFrame, SliceFrame, SubmissionType,
       TypeOK, Control, Busy, Executing, Slicing
  <2>2. Sent' = slice
    BY <1>2, <1>4, <2>1 DEF SkipSlice, SimulatorFills, SliceNotSent, SendSlice, NextSlice, Sent
  <2>3. \E s \in PlacedSizes(Share(cur, slice)) : placed'[cur] = placed[cur] + s
    <3>1. CASE UNCHANGED placed
      BY <1>2, <2>1, <3>1 DEF PlacedSizes
    <3>2. CASE ~UNCHANGED placed
      BY <1>2, <2>1, <3>2, ExecutedStep
    <3> QED
      BY <3>1, <3>2
  <2> QED
    BY <2>1, <2>2, <2>3, ProportionAfterSlice DEF Bounded
<1>5. CASE SliceReturns \/ SliceUnanswered \/ PauseEnds \/ Tick \/ CancelRoot \/ RestingTrade
             \/ StreamFill \/ UNCHANGED vars
  <2>1. spc \in Executing /\ cur' = cur /\ placed' = placed
    BY <1>5 DEF SliceReturns, SliceUnanswered, PauseEnds, Tick, CancelRoot, RestingTrade, StreamFill,
       vars, LoopFrame, SliceFrame, histVars, Executing
  <2>2. Sent' = Sent
    BY <1>2, <1>5 DEF SliceReturns, SliceUnanswered, PauseEnds, Tick, CancelRoot, RestingTrade,
       StreamFill, vars, sliceVars, NextSlice, Sent
  <2> QED
    BY <1>0, <2>1, <2>2 DEF Bounded, InProportion
<1>6. CASE Boot \/ FetchIntent \/ TakeToken \/ AwaitToken \/ WaitCancelled \/ Stop \/ Crash \/ PauseCut
  BY <1>6 DEF Boot, FetchIntent, TakeToken, AwaitToken, WaitCancelled, Stop, Crash, PauseCut, Executing
<1>7. CASE MarkRejected \/ MarkSubmitted \/ PublishFill \/ CommitOffset
  BY <1>7 DEF MarkRejected, MarkSubmitted, PublishFill, CommitOffset, ToFetch, Executing
<1> QED
  BY <1>3, <1>4, <1>5, <1>6, <1>7 DEF Next, WorkerSteps

\* The slices placed for an order never add up to more than the order and half a
\* lot of rounding per slice, whatever is refused, executed in part or later,
\* lost, failed, repeated after a crash or filled by the simulator on a context
\* that has ended; unless the order was cut, or the store failed to save it or to
\* give it back at boot.
THEOREM OrdersAreNotOverExecuted == Spec => []NeverOverExecuted
<1>1. Init => Begun /\ Bounded
  <2> SUFFICES ASSUME Init PROVE Begun /\ Bounded
    OBVIOUS
  <2>1. \A p \in Parents : placed[p] = 0 /\ Qty[p] \in Nat
    BY SubmissionAssumption DEF Init
  <2>2. Rounding \in Nat
    BY SlackTypes, SlicesType DEF Rounding, Slack
  <2>3. NeverOverExecuted
    BY <2>1, <2>2 DEF NeverOverExecuted
  <2> QED
    BY <2>1, <2>3 DEF Init, Begun, Bounded, InProportion, Executing
<1>2. SubmissionType /\ Begun /\ [Next]_vars => Begun'
  BY BegunOrderStep, NotBegunStep, SlicingStep DEF Begun
<1>3. SubmissionType /\ Begun /\ Bounded /\ [Next]_vars => Bounded'
  BY NeverOverStep, InProportionStep DEF Bounded
<1>4. Bounded => NeverOverExecuted
  BY DEF Bounded
<1> QED
  BY <1>1, <1>2, <1>3, <1>4, SubmissionTypeInit, SubmissionTypeStep, PTL DEF Spec
=============================================================================
