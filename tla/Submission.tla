---------------------------- MODULE Submission -----------------------------
(***************************************************************************)
(* The submission half of the intents worker when an execution algorithm is *)
(* configured: the rate limiter (TokenBucket), the slices of the algo        *)
(* executor (internal/algo/algo.go), the connector behind it, Binance or     *)
(* the simulator (internal/exchange), and what the worker does with the      *)
(* merged result (internal/gateway/gateway.go).  The checks that come        *)
(* before the limiter, except the duplicate check, and the direct            *)
(* submission are the subject of module Gateway.                             *)
(*                                                                          *)
(* An order ID is <<p, i>>: i = 0 is the intent's own ID, i > 0 the ID       *)
(* "<p>-slice-<i>" of a child.  Quantities are naturals, in units small      *)
(* enough for every share to be whole; the rounding errors of the floats     *)
(* that hold them are left out, the rounding to 8 decimals is not.           *)
(***************************************************************************)
EXTENDS TokenBucket, OrderStore, Sequences

CONSTANTS
  Parents, NoParent,
  Intents,         \* the intents topic, a sequence of parents
  Qty,             \* ordered quantity per parent, 0 allowed: nothing checks it
  Lot,             \* 10^-8, the least quantity an order to Binance can name
  Algos, Backends, \* the configurations of this instance
  Slices,          \* ALGO_SLICES and, in ticks, ALGO_DURATION, both after the
  Duration,        \* defaults that Execute puts in for 0
  SubmitTimeout,   \* in ticks, 0 for no deadline
  Env, MaxFaults, MaxRestarts

Worker == "intents"
Ids == Parents \X (0..Slices)

ASSUME SubmissionAssumption ==
  /\ Waiters = {Worker}
  /\ NoParent \notin Parents
  /\ Intents \in Seq(Parents)
  /\ Qty \in [Parents -> Nat] /\ Lot \in Nat \ {0}
  /\ Algos \subseteq {"TWAP", "VWAP", "other"}
  /\ Backends \subseteq {"binance", "sim"}
  /\ Slices \in Nat \ {0} /\ (Slices = 1 => "VWAP" \notin Algos)
  /\ Duration \in Nat \ {0}
  /\ SubmitTimeout \in Nat
  /\ Env \subseteq {"crash", "cancel", "submit", "publish", "commit", "store"}
  /\ MaxFaults \in Nat
  /\ MaxRestarts \in Nat

VARIABLES
  algo, backend,   \* ALGO_TYPE and EXCHANGE_BACKEND
  committed, topic,
  open,            \* the venue: what rests of each child
  chan,            \* reports on their way to the fills worker, in no order
  db, states,      \* the orders table and OrderTracker.states
  spc, pos, cur,   \* the intents worker
  slice, timer,    \* executeSlices: loop index, ticks left of time.After
  res,             \* executeSlices: [last, total] of the fills so far
  ans,             \* the venue's answer to the slice in flight
  left,            \* ticks to the submission's deadline
  cancelled,       \* the root context
  faults, restarts,
  \* history, for the properties only
  placed,          \* what the venue has accepted per parent, resting or not
  executed,        \* what of it was executed at once, as the answers report
  published,       \* what the worker's merged fills have reported per parent
  cut,             \* parents whose submission ran into an ended context
  lost,            \* parents with a lost answer, a lost publish or a crash
  forgotten        \* parents the store failed to save or to give back

worldVars == <<algo, backend, faults, restarts, cancelled>>
sliceVars == <<slice, timer, res, ans>>
venueVars == <<open, chan>>
histVars == <<placed, executed, published, cut, lost, forgotten>>
vars == <<bucketVars, worldVars, committed, topic, venueVars, db, states, spc,
          pos, cur, sliceVars, left, histVars>>

Refusal == -1
NoResult == [last |-> 0, total |-> 0]

\* A fill on the topic, from the worker ("rest") or from the stream ("ws").
Fills == [order : Ids, path : {"rest", "ws"}, qty : Nat]
Reports == [order : Ids, qty : Nat, status : {"PARTIALLY_FILLED", "FILLED"}]

TypeOK ==
  /\ BucketTypeOK
  /\ algo \in Algos /\ backend \in Backends
  /\ committed \in 0..Len(Intents) /\ pos \in 0..Len(Intents)
  /\ topic \subseteq Fills
  /\ open \in [Ids -> Nat] /\ chan \subseteq Reports
  /\ db \in [Ids -> Row] /\ states \in [Ids -> StatesOrAbsent]
  /\ spc \in {"boot", "fetch", "limit", "pending", "slice", "call", "pause",
              "failed", "done", "publish", "commit", "stopped"}
  /\ cur \in Parents \cup {NoParent}
  /\ slice \in 0..Slices /\ timer \in Nat
  /\ res \in [last : 0..Slices, total : Nat]
  /\ ans \in Nat \cup {Refusal}
  /\ left \in 0..SubmitTimeout
  /\ cancelled \in BOOLEAN
  /\ faults \in 0..MaxFaults /\ restarts \in 0..MaxRestarts
  /\ placed \in [Parents -> Nat]
  /\ executed \in [Parents -> Nat] /\ published \in [Parents -> Nat]
  /\ cut \subseteq Parents /\ lost \subseteq Parents /\ forgotten \subseteq Parents

Init ==
  /\ BucketInit
  /\ algo \in Algos /\ backend \in Backends
  /\ committed = 0 /\ pos = 0 /\ topic = {}
  /\ open = [id \in Ids |-> 0] /\ chan = {}
  /\ db = [id \in Ids |-> NoRow] /\ states = [id \in Ids |-> Absent]
  /\ spc = "boot" /\ cur = NoParent
  /\ slice = 0 /\ timer = 0 /\ res = NoResult /\ ans = 0 /\ left = 0
  /\ cancelled = FALSE /\ faults = 0 /\ restarts = 0
  /\ placed = [p \in Parents |-> 0]
  /\ executed = [p \in Parents |-> 0] /\ published = [p \in Parents |-> 0]
  /\ cut = {} /\ lost = {} /\ forgotten = {}

Fault(kind) == kind \in Env /\ faults < MaxFaults /\ faults' = faults + 1

\* submitCtx: the root context with the deadline.
CtxDone == cancelled \/ (SubmitTimeout > 0 /\ left = 0)

\* A statement on the store fails on a cancelled context, and may fail without
\* one; nobody looks.
StoreWrite(table) ==
  \/ ~cancelled /\ db' = table /\ UNCHANGED faults
  \/ cancelled /\ UNCHANGED <<db, faults>>
  \/ ~cancelled /\ Fault("store") /\ UNCHANGED db

-----------------------------------------------------------------------------
(* Slicing.                                                                 *)

\* defaultVWAPProfile: 0.5 in the middle, 1 at both ends, times 2 (n - 1).
Weight(i) ==
  LET n == Slices
      off == 2 * (i - 1) - (n - 1)
  IN  (n - 1) + IF off < 0 THEN -off ELSE off

WeightUpTo[i \in 0..Slices] == IF i = 0 THEN 0 ELSE WeightUpTo[i - 1] + Weight(i)

\* executeTWAP and executeVWAP: the quantity of a child.
Share(p, i) ==
  IF algo = "TWAP" THEN Qty[p] \div Slices
                   ELSE (Qty[p] * Weight(i)) \div WeightUpTo[Slices]

\* The units are small enough for these quotients to be exact.
ASSUME SharesAreWhole ==
  \A p \in Parents :
     /\ "TWAP" \in Algos => Qty[p] % Slices = 0
     /\ "VWAP" \in Algos =>
          \A i \in 1..Slices : (Qty[p] * Weight(i)) % WeightUpTo[Slices] = 0

Interval == Duration \div Slices

\* FormatFloat with 8 decimals: the nearest whole number of lots, either one of
\* two that are equally near (the float is next to the middle, not on it).
ChildSizes(q) ==
  {s \in {Lot * (q \div Lot), Lot * (q \div Lot + 1)} : 2 * s - 2 * q \in (-Lot)..Lot}

\* What the venue may execute of a quantity in one go.
Portions(s) == {Lot * n : n \in 0..(s \div Lot)}

-----------------------------------------------------------------------------
(* The worker up to the submission.                                         *)

\* What tracker and store are after a boot that preloaded and listed those rows
\* and saved what it was told of some.
BootLeaves(preloaded, listed, saved) ==
  /\ states' = [id \in Ids |-> IF id \in listed THEN "PENDING"
                               ELSE IF id \in preloaded THEN db[id].state ELSE Absent]
  /\ db' = [id \in Ids |->
              IF id \in saved THEN [db[id] EXCEPT !.state = "PENDING", !.filled = 0]
                              ELSE db[id]]
  /\ forgotten' = forgotten \cup
       {p \in Parents : <<p, 0>> \in GetActiveOrders(db) \ (preloaded \cup listed)}

\* Boot: WithStore preloads the active rows, then reconciliation lists them and
\* asks for each.  Binance does not know a parent's ID, which leaves the row as
\* it is; a new simulator calls every order PENDING with nothing executed, and
\* the update sets the tracker with or without a preloaded entry.  Any of the
\* statements may fail: the preload, the listing, single updates.
Boot ==
  /\ spc = "boot" /\ spc' = "fetch"
  /\ LET active == GetActiveOrders(db)
         asked == IF backend = "sim" THEN active ELSE {}
     IN  \/ BootLeaves(active, asked, asked) /\ UNCHANGED faults
         \/ /\ Fault("store")
            /\ \E preloaded \in {active, {}}, listed \in {asked, {}} :
               \E saved \in SUBSET listed : BootLeaves(preloaded, listed, saved)
  /\ UNCHANGED <<bucketVars, algo, backend, restarts, cancelled, committed, topic,
                 venueVars, pos, cur, sliceVars, left, placed, executed, published,
                 cut, lost>>

\* Mutant: every intent is new.
IsDuplicate_Never(p) == FALSE
IsDuplicate(p) == states[<<p, 0>>] # Absent

\* A duplicate is committed, any other intent goes to the limiter.
FetchIntent ==
  /\ spc = "fetch" /\ ~cancelled /\ pos < Len(Intents)
  /\ pos' = pos + 1 /\ cur' = Intents[pos + 1]
  /\ IF IsDuplicate(cur') THEN spc' = "commit" /\ UNCHANGED bucketVars
                          ELSE spc' = "limit" /\ Call(Worker)
  /\ UNCHANGED <<worldVars, committed, topic, venueVars, db, states, sliceVars, left,
                 histVars>>

LimiterFrame == UNCHANGED <<worldVars, committed, topic, venueVars, db, states,
                            pos, sliceVars, left, histVars>>

TakeToken == spc = "limit" /\ Take(Worker) /\ spc' = "pending" /\ UNCHANGED cur
               /\ LimiterFrame
AwaitToken == spc = "limit" /\ (Sleep(Worker) \/ Wake(Worker))
               /\ UNCHANGED <<spc, cur>> /\ LimiterFrame
\* Wait returns the context's error: no commit, on to the next fetch.
WaitCancelled == spc = "limit" /\ cancelled /\ Abandon(Worker)
                   /\ spc' = "fetch" /\ cur' = NoParent /\ LimiterFrame

\* AddOrder(PENDING); the deadline starts; Execute picks the algorithm.
AddPending ==
  /\ spc = "pending"
  /\ states' = [states EXCEPT ![<<cur, 0>>] = "PENDING"]
  /\ StoreWrite(SaveOrder(db, <<cur, 0>>, "PENDING"))
  /\ forgotten' = IF faults' # faults THEN forgotten \cup {cur} ELSE forgotten
  /\ left' = SubmitTimeout
  /\ spc' = IF algo = "other" THEN "failed" ELSE "slice"
  /\ slice' = 1 /\ res' = NoResult
  /\ cut' = IF cancelled THEN cut \cup {cur} ELSE cut
  /\ UNCHANGED <<bucketVars, algo, backend, restarts, cancelled, committed, topic,
                 venueVars, pos, cur, timer, ans, placed, executed, published, lost>>

-----------------------------------------------------------------------------
(* executeSlices and the connector.                                         *)

SliceFrame == UNCHANGED <<bucketVars, algo, backend, cancelled, restarts,
                          committed, topic, db, states, pos, cur, left, published,
                          forgotten>>
\* A step between calls: nothing happens at the venue.
LoopFrame == SliceFrame /\ UNCHANGED <<venueVars, placed, executed>>

\* On to the pause before the next slice, or out of the loop.
NextSlice ==
  IF slice < Slices
    THEN spc' = "pause" /\ slice' = slice + 1 /\ timer' = Interval
    ELSE spc' = "done" /\ UNCHANGED <<slice, timer>>

\* A slice that was answered is added to the result; it counts as a fill even
\* when nothing of it was executed.
Aggregate(q) == res' = [last |-> slice, total |-> res.total + q]

\* Not a positive quantity: nothing is sent.
SkipSlice ==
  /\ spc = "slice" /\ Share(cur, slice) = 0
  /\ NextSlice
  /\ UNCHANGED <<faults, res, ans, cut, lost>> /\ LoopFrame

Place(q) == placed' = [placed EXCEPT ![cur] = @ + q]
ExecuteAtOnce(q) == executed' = [executed EXCEPT ![cur] = @ + q]

\* SimulatorConnector.SubmitOrder fills at once, whatever the context says, and
\* emits nothing on the stream.
SimulatorFills ==
  /\ spc = "slice" /\ backend = "sim" /\ Share(cur, slice) > 0
  /\ Place(Share(cur, slice)) /\ ExecuteAtOnce(Share(cur, slice))
  /\ Aggregate(Share(cur, slice))
  /\ NextSlice
  /\ UNCHANGED <<venueVars, faults, ans, cut, lost>> /\ SliceFrame

\* BinanceConnector.SubmitOrder: no request goes out on an ended context.
SliceNotSent ==
  /\ spc = "slice" /\ backend = "binance" /\ Share(cur, slice) > 0 /\ CtxDone
  /\ NextSlice
  /\ UNCHANGED <<faults, res, ans, cut, lost>> /\ LoopFrame

\* q of child id trade and remain is left of it.  The venue reports every trade
\* on the stream, if there is a process to listen.
Traded(id, q, remain) ==
  LET status == IF remain = 0 THEN "FILLED" ELSE "PARTIALLY_FILLED"
  IN  chan' = IF q > 0 /\ spc # "boot"
                THEN chan \cup {[order |-> id, qty |-> q, status |-> status]}
                ELSE chan

\* The venue refuses the child, as it must when the quantity was rounded to 0 or
\* the ID is still open, or accepts it and executes some of it at once.  What is
\* left of it rests (LIMIT) or expires (MARKET).
SendSlice ==
  /\ spc = "slice" /\ backend = "binance" /\ Share(cur, slice) > 0 /\ ~CtxDone
  /\ spc' = "call"
  /\ \/ ans' = Refusal /\ UNCHANGED <<venueVars, placed, executed>>
     \/ \E s \in ChildSizes(Share(cur, slice)) \ {0} :
        \E q \in Portions(s) : \E resting \in {0, s - q} :
          /\ open[<<cur, slice>>] = 0
          /\ ans' = q /\ Place(s) /\ ExecuteAtOnce(q)
          /\ open' = [open EXCEPT ![<<cur, slice>>] = resting]
          /\ Traded(<<cur, slice>>, q, s - q)
  /\ UNCHANGED <<faults, slice, timer, res, cut, lost>> /\ SliceFrame

\* A refused slice is counted as failed and the loop goes on.
SliceReturns ==
  /\ spc = "call"
  /\ IF ans = Refusal THEN UNCHANGED res ELSE Aggregate(ans)
  /\ ans' = 0 /\ NextSlice
  /\ UNCHANGED <<faults, cut, lost>> /\ LoopFrame
\* The answer does not come: deadline, cancellation or the HTTP client's timeout.
SliceUnanswered ==
  /\ spc = "call"
  /\ (CtxDone /\ UNCHANGED faults) \/ Fault("submit")
  /\ lost' = IF ans > 0 THEN lost \cup {cur} ELSE lost
  /\ ans' = 0 /\ NextSlice
  /\ UNCHANGED <<res, cut>> /\ LoopFrame

PauseEnds ==
  /\ spc = "pause" /\ timer = 0
  /\ spc' = "slice"
  /\ UNCHANGED <<faults, sliceVars, cut, lost>> /\ LoopFrame
\* The context ends between two slices: Execute returns its error.
PauseCut ==
  /\ spc = "pause" /\ CtxDone
  /\ spc' = "failed" /\ cut' = cut \cup {cur}
  /\ UNCHANGED <<faults, sliceVars, lost>> /\ LoopFrame

-----------------------------------------------------------------------------
(* What the worker does with the result.                                    *)

ResultFrame == UNCHANGED <<bucketVars, algo, backend, cancelled, restarts, pos,
                           venueVars, placed, executed, cut, forgotten>>

\* tracker.UpdateOrderState as far as the store is concerned.
Updated(table, id, state) ==
  UpdateRow(table, id, state, LookupFilledQty(table, id))

\* Execute's error: the fills it has collected are not looked at.
MarkRejected ==
  /\ spc = "failed" /\ spc' = "commit"
  /\ states' = [states EXCEPT ![<<cur, 0>>] = "REJECTED"]
  /\ StoreWrite(Updated(db, <<cur, 0>>, "REJECTED"))
  /\ UNCHANGED <<cur, committed, topic, sliceVars, left, published, lost>>
  /\ ResultFrame

\* Mutant: the quantity of the last fill is not replaced by the total.
MergedQty_LastSlice == IF res.last = 0 THEN 0 ELSE Share(cur, res.last)
\* fill.Quantity = result.TotalQty.
MergedQty == res.total
\* The last slice's fill, its order ID included, with the total quantity.
MergedFill == [order |-> <<cur, res.last>>, path |-> "rest", qty |-> MergedQty]

\* The parent is SUBMITTED; then, if anything was executed, the order the fill
\* names is FILLED and gets the commission of the last slice.  That order is
\* the child: it has no row.
MarkSubmitted ==
  /\ spc = "done"
  /\ LET parent == Updated(db, <<cur, 0>>, "SUBMITTED")
         child == <<cur, res.last>>
     IN  IF MergedQty > 0
           THEN /\ spc' = "publish"
                /\ states' = [states EXCEPT ![<<cur, 0>>] = "SUBMITTED",
                                            ![child] = "FILLED"]
                /\ StoreWrite(RecordFillCosts(UpdateRow(parent, child, "FILLED", 0),
                                              child, Share(cur, res.last)))
           ELSE /\ spc' = "commit"
                /\ states' = [states EXCEPT ![<<cur, 0>>] = "SUBMITTED"]
                /\ StoreWrite(parent)
  /\ UNCHANGED <<cur, committed, topic, sliceVars, left, published, lost>>
  /\ ResultFrame

ToFetch == spc' = "fetch" /\ cur' = NoParent /\ slice' = 0 /\ timer' = 0
             /\ res' = NoResult /\ left' = 0 /\ UNCHANGED ans

Reported == /\ topic' = topic \cup {MergedFill}
            /\ published' = [published EXCEPT ![cur] = @ + MergedQty]

\* publishFillWithRetry, retries included; giving up leaves the offset alone,
\* and the broker may have the fill all the same.
PublishFill ==
  /\ spc = "publish"
  /\ \/ /\ Reported /\ spc' = "commit"
        /\ UNCHANGED <<faults, cur, sliceVars, left, lost>>
     \/ /\ (cancelled /\ UNCHANGED faults) \/ Fault("publish")
        /\ Reported \/ UNCHANGED <<topic, published>>
        /\ lost' = lost \cup {cur} /\ ToFetch
  /\ UNCHANGED <<committed, db, states>> /\ ResultFrame

CommitOffset ==
  /\ spc = "commit"
  /\ \/ committed' = pos /\ UNCHANGED faults
     \/ UNCHANGED committed /\ ((cancelled /\ UNCHANGED faults) \/ Fault("commit"))
  /\ ToFetch
  /\ UNCHANGED <<topic, db, states, published, lost>> /\ ResultFrame

Stop ==
  /\ spc = "fetch" /\ cancelled /\ spc' = "stopped"
  /\ UNCHANGED <<bucketVars, worldVars, committed, topic, venueVars, db, states,
                 pos, cur, sliceVars, left, histVars>>

-----------------------------------------------------------------------------
(* The children on the stream.                                              *)

\* A resting child trades, also while the process is down.
RestingTrade ==
  /\ \E id \in Ids : \E q \in Portions(open[id]) \ {0} :
       /\ open' = [open EXCEPT ![id] = @ - q]
       /\ Traded(id, q, open[id] - q)
  /\ UNCHANGED <<bucketVars, worldVars, committed, topic, db, states, spc, pos, cur,
                 sliceVars, left, histVars>>

\* The fills worker: the tracker gets the child's state, no row of the store has
\* its ID, and the fill is published; giving up drops it.
StreamFill ==
  /\ spc # "boot"
  /\ \E f \in chan :
       /\ chan' = chan \ {f}
       /\ states' = [states EXCEPT ![f.order] = f.status]
       /\ \/ /\ topic' = topic \cup {[order |-> f.order, path |-> "ws", qty |-> f.qty]}
             /\ UNCHANGED faults
          \/ UNCHANGED topic /\ ((cancelled /\ UNCHANGED faults) \/ Fault("publish"))
  /\ UNCHANGED <<bucketVars, algo, backend, restarts, cancelled, committed, open, db,
                 spc, pos, cur, sliceVars, left, histVars>>

-----------------------------------------------------------------------------
(* Time, shutdown, crash.                                                   *)

Tick ==
  /\ BucketTick
  /\ timer' = Down(timer) /\ left' = Down(left)
  /\ UNCHANGED <<worldVars, committed, topic, venueVars, db, states, spc, pos, cur,
                 slice, res, ans, histVars>>

\* The drain is over and the root context is cancelled.
CancelRoot ==
  /\ "cancel" \in Env /\ ~cancelled /\ spc # "boot"
  /\ cancelled' = TRUE
  /\ UNCHANGED <<bucketVars, algo, backend, faults, restarts, committed, topic,
                 venueVars, db, states, spc, pos, cur, sliceVars, left, histVars>>

\* The process dies or exits, and is started again with the same settings.
Crash ==
  /\ "crash" \in Env /\ restarts < MaxRestarts /\ spc # "boot"
  /\ restarts' = restarts + 1 /\ cancelled' = FALSE
  /\ NewLimiter
  /\ states' = [id \in Ids |-> Absent] /\ chan' = {}
  /\ spc' = "boot" /\ pos' = committed /\ cur' = NoParent
  /\ slice' = 0 /\ timer' = 0 /\ res' = NoResult /\ ans' = 0 /\ left' = 0
  /\ lost' = lost \cup ({cur} \ {NoParent})
  /\ UNCHANGED <<algo, backend, faults, committed, topic, open, db, placed, executed,
                 published, cut, forgotten>>

WorkerSteps ==
  \/ Boot \/ FetchIntent \/ TakeToken \/ AwaitToken \/ WaitCancelled
  \/ AddPending \/ SkipSlice \/ SimulatorFills \/ SliceNotSent \/ SendSlice
  \/ SliceReturns \/ SliceUnanswered \/ PauseEnds \/ PauseCut
  \/ MarkRejected \/ MarkSubmitted \/ PublishFill \/ CommitOffset \/ Stop

Next == WorkerSteps \/ RestingTrade \/ StreamFill \/ Tick \/ CancelRoot \/ Crash

\* Fairness: the goroutine runs, every call returns (the HTTP client's and
\* Kafka's timeouts), and time passes.
Spec == Init /\ [][Next]_vars
FairSpec == Spec /\ WF_vars(WorkerSteps) /\ WF_vars(Tick)

-----------------------------------------------------------------------------
(* Properties.                                                              *)

\* The merged fills never report more of an order than its slices executed at
\* once, and when the worker is done with an order they have reported all of
\* it, in whatever portions, refusals and empty answers the slices came; unless
\* the context ended under the submission, an answer or the publish was lost, or
\* the process died with the order in hand.  What the stream reports of the same
\* children, at once or later, comes on top.
ReportedIsExecuted ==
  \A p \in Parents :
     /\ published[p] <= executed[p]
     /\ p \notin cut \cup lost \cup {cur} => published[p] = executed[p]

\* Half a lot per slice, which rounding may add to an order at Binance.
Rounding == IF backend = "binance" THEN Slices * Lot ELSE 0

\* The slices the venue has accepted never add up to more than the order and the
\* rounding of each slice, so that it cannot execute more either, also when the
\* intent is delivered again after a crash between any two slices: an order that
\* was begun is active in the store and the repeated intent a duplicate.  Only
\* an order that was refused because its context had ended, or that the store
\* failed to save or to give back at boot, can be begun again.
NeverOverExecuted ==
  \A p \in Parents :
     p \notin cut \cup forgotten => 2 * placed[p] <= 2 * Qty[p] + Rounding

\* The worker comes to the end of the topic or stops: no intent holds it up for
\* ever, in the limiter, in a slice, between slices or at the deadline.
EveryIntentHandled ==
  <>[](spc = "stopped" \/ (spc = "fetch" /\ pos = Len(Intents)))
=============================================================================
