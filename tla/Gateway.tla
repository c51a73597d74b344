------------------------------ MODULE Gateway ------------------------------
(***************************************************************************)
(* The execution gateway as one process among the systems it talks to:      *)
(*                                                                          *)
(*   intents topic --> intents worker --> venue (Binance REST)              *)
(*                        |      \                                          *)
(*                     tracker   fills topic <-- fills worker <-- venue     *)
(*                        |         ^                        (WebSocket)    *)
(*                     SQLite  -->  boot reconciliation                     *)
(*                                                                          *)
(* Steps are the points between which another goroutine, the venue, a       *)
(* crash or a context cancellation can be observed: every access to the     *)
(* tracker's maps is one step (it runs under OrderTracker.mu), and so is     *)
(* every store statement, REST call, publish attempt and offset commit.     *)
(*                                                                          *)
(* Quantities are small naturals.  The intents topic is the constant Log.   *)
(***************************************************************************)
EXTENDS OrderStore, Sequences

CONSTANTS
  Orders,          \* client order IDs that ValidateOrderID accepts
  BadIds,          \* client order IDs that it refuses
  NoOrder,         \* no order in hand
  Malformed,       \* a message that is not an intent
  Log,             \* the intents topic: IDs in Orders \cup BadIds, or Malformed
  Qty,             \* ordered quantity per ID
  Side,            \* BUY or SELL per ID
  Refused,         \* the orders RiskPolicy.CheckIntent refuses
  MaxDailyOrders, MaxDailyBuys, MaxDailySells,
  PublishRetries,  \* Gateway.publishRetries
  ReuseClosedIds,  \* may the venue accept the ID of an order that is closed?
  Env,             \* the environment events of this instance
  MaxFaults,       \* bound on failed calls and dropped streams
  MaxRestarts,     \* bound on restarts
  MaxHalts         \* bound on uses of the operator's halt switch

Ids == Orders \cup BadIds

EnvEvents == {"crash", "sigterm", "halt", "cancel", "noTradeId",
              "submit", "publish", "commit", "query", "stream", "store"}

ASSUME OrdersAssumption ==
  /\ IsFiniteSet(Ids)
  /\ Orders \cap BadIds = {}
  /\ NoOrder \notin Ids
  /\ Malformed \notin Ids
ASSUME LogAssumption ==
  /\ Log \in Seq(Ids \cup {Malformed})
  /\ Qty \in [Ids -> Nat \ {0}]
  /\ Side \in [Ids -> Sides]
  /\ Refused \subseteq Orders
ASSUME BoundsAssumption ==
  /\ MaxDailyOrders \in Nat
  /\ MaxDailyBuys \in Nat
  /\ MaxDailySells \in Nat
  /\ PublishRetries \in Nat
  /\ ReuseClosedIds \in BOOLEAN
  /\ Env \subseteq EnvEvents
  /\ MaxFaults \in Nat
  /\ MaxRestarts \in Nat
  /\ MaxHalts \in Nat

VARIABLES
  \* Kafka (external)
  committed,   \* the consumer group's offset: messages 1..committed are done
  topic,       \* the fills ever written to the fills topic
  \* the venue (external)
  venue,       \* per ID: [status, exec, done, n]
  \* SQLite
  db,          \* the orders table
  \* the process
  phase,       \* "boot" .. "down"
  pos,         \* messages fetched by this consumer: 1..pos
  halted,      \* Halt.active
  states,      \* OrderTracker.states
  orders,      \* the keys of OrderTracker.orders
  todo,        \* active orders that reconciliation has still to visit
  rpc, rec,    \* reconciliation: step, and the venue's answer in hand
  ipc, cur, resp, wqty, itry,   \* intents worker
  fpc, fill, ftry,              \* fills worker
  conn,        \* is the user-data stream subscribed?
  chan,        \* fills on their way: socket buffer and fillChan
  \* bounds
  faults, restarts, halts,
  \* history, for the properties only
  sent,        \* submissions per ID in this life of the process
  haltSent,    \* submissions since the halt switch was last set
  reported     \* the fills REST answers reported: <<offset, fill, life>>

kafkaVars == <<committed, topic>>
trackerVars == <<states, orders>>
recVars == <<todo, rpc, rec>>
intentVars == <<pos, ipc, cur, resp, wqty, itry>>
fillVars == <<fpc, fill, ftry>>
streamVars == <<conn, chan>>
boundVars == <<faults, restarts, halts>>
histVars == <<sent, haltSent, reported>>
vars == <<kafkaVars, venue, db, phase, halted, trackerVars, recVars,
          intentVars, fillVars, streamVars, boundVars, histVars>>

Phases == {"boot", "reconcile", "running", "draining", "cancelled", "down"}
IntentPCs == {"off", "fetch", "halt", "validate", "risk", "saveRejected",
              "limit", "savePending", "submit", "await", "failed",
              "storeFailed", "accepted", "storeAccepted", "filled",
              "storeFilled", "costs", "publish", "commit", "stopped"}
FillPCs == {"off", "recv", "store", "costs", "publish", "stopped"}

(***************************************************************************)
(* Fills.  <<path, key>> is the suffix of ExecutionID: its number is the     *)
(* venue's, for an order or a trade, and its quantity is there where the     *)
(* code has no such number.  upto is not in the message: it says which       *)
(* execution the fill stands for, as the total the venue had executed for    *)
(* the ID once that execution was done.                                     *)
(***************************************************************************)
Fill == [order : Ids \cup {NoOrder}, path : {"NONE", "rest", "ws", "reconcile"},
         key : Nat \X Nat, qty : Nat, upto : Nat, status : StatesOrAbsent]
\* TransactionCost: the venue takes one unit of commission per unit executed.
Commission(f) == f.qty
NoFill == [order |-> NoOrder, path |-> "NONE", key |-> <<0, 0>>, qty |-> 0,
           upto |-> 0, status |-> Absent]

VenueOrder == [status : VenueStatuses \cup {Absent},
               exec : Nat,    \* executed quantity of the current order
               done : Nat,    \* executed by closed orders with the same ID
               n : Nat]       \* orders accepted under this ID
Total(v) == v.done + v.exec

\* The answer of GetOrderState together with the quantity the store held.
Answer == [order : Ids \cup {NoOrder}, state : StatesOrAbsent,
           exec : Nat, prev : Nat, upto : Nat]
NoAnswer == [order |-> NoOrder, state |-> Absent, exec |-> 0, prev |-> 0,
             upto |-> 0]

\* A call to a remote system fails, or a connection drops.
Fault(kind) ==
  /\ kind \in Env
  /\ faults < MaxFaults
  /\ faults' = faults + 1

\* The root context is alive: statements, requests and commits can succeed.
CtxAlive == phase # "cancelled"
WorkersUp == phase \in {"running", "draining", "cancelled"}

TypeOK ==
  /\ committed \in 0..Len(Log)
  /\ topic \subseteq Fill
  /\ venue \in [Ids -> VenueOrder]
  /\ db \in [Ids -> Row]
  /\ phase \in Phases
  /\ pos \in 0..Len(Log)
  /\ halted \in BOOLEAN
  /\ states \in [Ids -> StatesOrAbsent]
  /\ orders \subseteq Ids
  /\ todo \subseteq Ids
  /\ rpc \in {"query", "publish", "sync"}
  /\ rec \in Answer
  /\ ipc \in IntentPCs
  /\ cur \in Ids \cup {NoOrder}
  /\ resp \in Fill
  /\ wqty \in Nat
  /\ itry \in 0..PublishRetries
  /\ fpc \in FillPCs
  /\ fill \in Fill
  /\ ftry \in 0..PublishRetries
  /\ conn \in BOOLEAN
  /\ chan \in Seq(Fill)
  /\ faults \in 0..MaxFaults
  /\ restarts \in 0..MaxRestarts
  /\ halts \in 0..MaxHalts
  /\ sent \in [Ids -> Nat]
  /\ haltSent \in Nat
  /\ reported \subseteq (1..Len(Log)) \X Fill \X (0..MaxRestarts)

Init ==
  /\ committed = 0
  /\ topic = {}
  /\ venue = [id \in Ids |-> [status |-> Absent, exec |-> 0, done |-> 0, n |-> 0]]
  /\ db = [id \in Ids |-> NoRow]
  /\ phase = "boot"
  /\ pos = 0
  /\ halted = FALSE
  /\ states = [id \in Ids |-> Absent]
  /\ orders = {}
  /\ todo = {}
  /\ rpc = "query" /\ rec = NoAnswer
  /\ ipc = "off" /\ cur = NoOrder /\ resp = NoFill /\ wqty = 0 /\ itry = 0
  /\ fpc = "off" /\ fill = NoFill /\ ftry = 0
  /\ conn = FALSE /\ chan = <<>>
  /\ faults = 0 /\ restarts = 0 /\ halts = 0
  /\ sent = [id \in Ids |-> 0] /\ haltSent = 0 /\ reported = {}

-----------------------------------------------------------------------------
(* Boot: OrderTracker.WithStore, then the reconciliation loop of main.go.   *)

\* Mutant: only the orders the venue had accepted are remembered.
Remembered_SubmittedOnly(id) ==
  IF db[id].state = "SUBMITTED" THEN db[id].state ELSE Absent
\* The tracker's entry for an ID after WithStore.
Remembered(id) == IF id \in GetActiveOrders(db) THEN db[id].state ELSE Absent

\* WithStore fills the tracker's memory, then main.go queries the work list.
\* Either statement may fail, and neither failure stops the boot.
Preload ==
  /\ phase = "boot"
  /\ phase' = "reconcile"
  /\ \/ /\ states' = [id \in Ids |-> Remembered(id)]
        /\ orders' = GetActiveOrders(db)
        /\ \/ todo' = GetActiveOrders(db) /\ UNCHANGED faults
           \/ todo' = {} /\ Fault("store")
     \/ /\ Fault("store")
        /\ UNCHANGED trackerVars
        /\ todo' \in {GetActiveOrders(db), {}}
  /\ UNCHANGED <<kafkaVars, venue, db, halted, rpc, rec, intentVars, fillVars,
                 streamVars, restarts, halts, histVars>>

DeltaQty(r) == r.exec - r.prev

\* GetOrderState for one active order; an order the venue does not know is an
\* error, like a failed request, and leaves the order as it is.
ReconcileQuery(o) ==
  /\ phase = "reconcile" /\ rpc = "query" /\ o \in todo
  /\ \/ /\ venue[o].n > 0
        /\ LET r == [order |-> o, state |-> MapBinanceStatus(venue[o].status),
                     exec |-> venue[o].exec, prev |-> db[o].filled,
                     upto |-> Total(venue[o])]
           IN  rec' = r /\ rpc' = IF DeltaQty(r) > 0 THEN "publish" ELSE "sync"
        /\ UNCHANGED <<todo, faults>>
     \/ /\ (venue[o].n = 0 /\ UNCHANGED faults) \/ Fault("query")
        /\ todo' = todo \ {o}
        /\ UNCHANGED <<rpc, rec>>
  /\ UNCHANGED <<kafkaVars, venue, db, phase, halted, trackerVars, intentVars,
                 fillVars, streamVars, restarts, halts, histVars>>

\* The backfilled fill.  Its ExecutionID is keyed on the delta quantity.
ReconcileFill(r) ==
  [order |-> r.order, path |-> "reconcile", key |-> <<0, DeltaQty(r)>>,
   qty |-> DeltaQty(r), upto |-> r.upto, status |-> r.state]

\* One publish attempt; an error is logged and the loop goes on.
ReconcilePublish ==
  /\ rpc = "publish"
  /\ \/ topic' = topic \cup {ReconcileFill(rec)} /\ UNCHANGED faults
     \/ Fault("publish") /\ topic' \in {topic, topic \cup {ReconcileFill(rec)}}
  /\ rpc' = "sync"
  /\ UNCHANGED <<committed, venue, db, phase, halted, trackerVars, todo, rec,
                 intentVars, fillVars, streamVars, restarts, halts, histVars>>

\* A statement on the store: it fails once the context is cancelled, and the
\* tracker ignores every error.
StoreWrite(table) ==
  \/ CtxAlive /\ db' = table /\ UNCHANGED faults
  \/ ~CtxAlive /\ UNCHANGED <<db, faults>>
  \/ CtxAlive /\ Fault("store") /\ UNCHANGED db

\* tracker.UpdateOrderStateAndQty(order, state, ExecutedQty).  The statement
\* also fails when the 30 seconds of reconcileCtx are over.
ReconcileSync ==
  /\ rpc = "sync"
  /\ states' = [states EXCEPT ![rec.order] = rec.state]
  /\ \/ StoreWrite(UpdateRow(db, rec.order, rec.state, rec.exec))
     \/ Fault("query") /\ UNCHANGED db
  /\ todo' = todo \ {rec.order}
  /\ rpc' = "query" /\ rec' = NoAnswer
  /\ UNCHANGED <<kafkaVars, venue, phase, halted, orders, intentVars, fillVars,
                 streamVars, restarts, halts, histVars>>

\* gw.Start: both workers run, the stream goroutine has not subscribed yet.
Start ==
  /\ phase = "reconcile" /\ todo = {} /\ rpc = "query"
  /\ phase' = "running" /\ ipc' = "fetch" /\ fpc' = "recv"
  /\ UNCHANGED <<kafkaVars, venue, db, halted, trackerVars, recVars, pos, cur,
                 resp, wqty, itry, fill, ftry, streamVars, boundVars, histVars>>

-----------------------------------------------------------------------------
(* The intents worker.                                                      *)

\* What an action of the worker leaves alone unless it says otherwise.
IntentFrame == UNCHANGED <<venue, phase, halted, recVars, fillVars, streamVars,
                           restarts, halts>>

\* Ready for the next message, whether or not this one was committed.
ToFetch == /\ ipc' = "fetch" /\ cur' = NoOrder /\ resp' = NoFill
           /\ wqty' = 0 /\ itry' = 0

Goto(pc) == ipc' = pc /\ UNCHANGED <<pos, cur, resp, wqty, itry>>

\* FetchIntent unmarshals the message at this offset.
Parses(offset) == Log[offset] # Malformed

\* Mutant: the reader commits what it fetches (ReadMessage for FetchMessage).
FetchIntent_AutoCommit ==
  /\ ipc = "fetch" /\ phase = "running" /\ pos < Len(Log)
  /\ pos' = pos + 1 /\ committed' = pos + 1
  /\ IF Parses(pos + 1) THEN ipc' = "halt" /\ cur' = Log[pos + 1]
                       ELSE UNCHANGED <<ipc, cur>>
  /\ UNCHANGED <<resp, wqty, itry, topic, db, trackerVars, faults, histVars>>
  /\ IntentFrame
\* FetchIntent.  A message that does not parse is an error: the worker sleeps
\* and fetches on, without a commit.
FetchIntent ==
  /\ ipc = "fetch" /\ phase = "running" /\ pos < Len(Log)
  /\ pos' = pos + 1
  /\ IF Parses(pos + 1) THEN ipc' = "halt" /\ cur' = Log[pos + 1]
                       ELSE UNCHANGED <<ipc, cur>>
  /\ UNCHANGED <<resp, wqty, itry, kafkaVars, db, trackerVars, faults, histVars>>
  /\ IntentFrame

\* The intake context is cancelled.
StopIntents ==
  /\ ipc = "fetch" /\ phase \in {"draining", "cancelled"}
  /\ Goto("stopped")
  /\ UNCHANGED <<kafkaVars, db, trackerVars, faults, histVars>>
  /\ IntentFrame

\* The memory half of tracker.AddOrder; the store half is the next step.
AddOrder(id, state) ==
  /\ states' = [states EXCEPT ![id] = state]
  /\ orders' = orders \cup {id}

\* Mutant: the switch is not consulted.
CheckHalt_Ignored ==
  /\ ipc = "halt"
  /\ Goto("validate")
  /\ UNCHANGED <<trackerVars, kafkaVars, db, faults, histVars>>
  /\ IntentFrame
\* halt.IsHalted: the switch comes before every other check.
CheckHalt ==
  /\ ipc = "halt"
  /\ IF halted
       THEN AddOrder(cur, "REJECTED") /\ Goto("saveRejected")
       ELSE Goto("validate") /\ UNCHANGED trackerVars
  /\ UNCHANGED <<kafkaVars, db, faults, histVars>>
  /\ IntentFrame

\* Mutant: no duplicate check.
IsDuplicate_Never(id) == FALSE
\* tracker.GetOrderState knows the ID.
IsDuplicate(id) == states[id] # Absent

\* Mutant: a refused intent is skipped, not committed.
AfterRefusal_Skip == "fetch"
\* Both refusals commit the offset and leave no other trace.
AfterRefusal == "commit"

\* ValidateOrderID, then the duplicate check.
ValidateIntent ==
  /\ ipc = "validate"
  /\ Goto(IF cur \in BadIds \/ IsDuplicate(cur) THEN AfterRefusal ELSE "risk")
  /\ UNCHANGED <<kafkaVars, db, trackerVars, faults, histVars>>
  /\ IntentFrame

\* Mutant: off by one.
UnderCap_Inclusive(count, cap) == count <= cap
\* The order may be admitted when count orders already were.
UnderCap(count, cap) == count < cap

\* checkRiskLimits; an unreadable store refuses.  A side cap of 0 is no cap.
RiskAllowed(id) ==
  /\ id \notin Refused
  /\ CtxAlive
  /\ UnderCap(GetDailyOrderCount(db), MaxDailyOrders)
  /\ Side[id] = "BUY" /\ MaxDailyBuys > 0
       => UnderCap(GetDailyOrderCountBySide(db, Side, "BUY"), MaxDailyBuys)
  /\ Side[id] = "SELL" /\ MaxDailySells > 0
       => UnderCap(GetDailyOrderCountBySide(db, Side, "SELL"), MaxDailySells)

CheckRisk ==
  /\ ipc = "risk"
  /\ \/ /\ RiskAllowed(cur)
        /\ Goto("limit") /\ UNCHANGED <<trackerVars, faults>>
     \/ /\ (~RiskAllowed(cur) /\ UNCHANGED faults) \/ Fault("store")
        /\ AddOrder(cur, "REJECTED") /\ Goto("saveRejected")
  /\ UNCHANGED <<kafkaVars, db, histVars>>
  /\ IntentFrame

\* The store half of AddOrder(REJECTED), from the halt and the risk check.
SaveRejected ==
  /\ ipc = "saveRejected"
  /\ StoreWrite(SaveOrder(db, cur, "REJECTED"))
  /\ Goto("commit")
  /\ UNCHANGED <<kafkaVars, trackerVars, histVars>>
  /\ IntentFrame

\* limiter.Wait returns and the order is registered in memory; a cancelled
\* wait drops the intent uncommitted.
LimiterWait ==
  /\ ipc = "limit"
  /\ \/ AddOrder(cur, "PENDING") /\ Goto("savePending")
     \/ ~CtxAlive /\ ToFetch /\ UNCHANGED <<pos, trackerVars>>
  /\ UNCHANGED <<kafkaVars, db, faults, histVars>>
  /\ IntentFrame

\* Mutant: the order is submitted without having been stored.
SavePending_Dropped ==
  /\ ipc = "savePending"
  /\ Goto("submit")
  /\ UNCHANGED <<db, faults, kafkaVars, trackerVars, histVars>>
  /\ IntentFrame
\* The store half of AddOrder(PENDING), before the venue hears of the order.
SavePending ==
  /\ ipc = "savePending"
  /\ StoreWrite(SaveOrder(db, cur, "PENDING"))
  /\ Goto("submit")
  /\ UNCHANGED <<kafkaVars, trackerVars, histVars>>
  /\ IntentFrame

\* The venue's side of an accepted order: q of it executes at once.
Executed(v, q, size) ==
  [status |-> IF v.exec + q = size THEN "FILLED"
              ELSE IF v.exec + q > 0 THEN "PARTIALLY_FILLED" ELSE v.status,
   exec |-> v.exec + q, done |-> v.done, n |-> v.n]
NewOrder(v) ==
  [status |-> "NEW", exec |-> 0, done |-> Total(v), n |-> v.n + 1]

\* An ID is free when no order has it, or when its order is closed and the
\* venue lets closed IDs be used again.
IdIsFree(v) ==
  \/ v.status = Absent
  \/ ReuseClosedIds /\ v.status \in ClosedStatuses

\* The suffixes a trade of q units that brought v about can get on the stream:
\* the venue's trade number, which the total stands for as totals never repeat;
\* or, in a report without one, the millisecond and the quantity.  Here all
\* fallbacks share one millisecond: another one tells trades apart like a number.
TradeKeys(v, q) ==
  {<<Total(v), 0>>} \cup (IF "noTradeId" \in Env THEN {<<0, q>>} ELSE {})

\* The executionReport of that trade, as the stream goroutine translates it.
StreamFill(id, v, q, key) ==
  [order |-> id, path |-> "ws", key |-> key, qty |-> q,
   upto |-> Total(v), status |-> MapBinanceStatus(v.status)]
\* Mutant: origQty taken for executedQty.
RestFill_OrderedQty(id, v) ==
  [order |-> id, path |-> "rest", key |-> <<v.n, 0>>, qty |-> Qty[id],
   upto |-> Total(v), status |-> MapBinanceStatus(v.status)]
\* The ExecutionFill SubmitOrder makes of a REST answer.
RestFill(id, v) ==
  [order |-> id, path |-> "rest", key |-> <<v.n, 0>>, qty |-> v.exec,
   upto |-> Total(v), status |-> MapBinanceStatus(v.status)]

\* A trade is reported on the stream only while it is subscribed.
Report(id, v, q) ==
  IF conn /\ q > 0
    THEN \E key \in TradeKeys(v, q) : chan' = Append(chan, StreamFill(id, v, q, key))
    ELSE UNCHANGED chan

CountSubmission(id) ==
  /\ sent' = [sent EXCEPT ![id] = @ + 1]
  /\ haltSent' = IF halted THEN haltSent + 1 ELSE haltSent

\* connector.SubmitOrder reaches the venue, which accepts the order and
\* executes some of it; the answer is on its way.
SubmitAccepted ==
  /\ ipc = "submit" /\ CtxAlive
  /\ IdIsFree(venue[cur])
  /\ \E q \in 0..Qty[cur] :
       LET v == Executed(NewOrder(venue[cur]), q, Qty[cur])
       IN  /\ venue' = [venue EXCEPT ![cur] = v]
           /\ Report(cur, v, q)
           /\ resp' = RestFill(cur, v)
  /\ CountSubmission(cur)
  /\ ipc' = "await"
  /\ UNCHANGED <<kafkaVars, db, phase, halted, trackerVars, recVars, pos, cur,
                 wqty, itry, fillVars, conn, boundVars, reported>>

\* The venue refuses, or the request never gets there: no order comes of it.
\* A cancelled context keeps the request from being sent.
SubmitRefused ==
  /\ ipc = "submit"
  /\ IF CtxAlive THEN CountSubmission(cur) ELSE UNCHANGED <<sent, haltSent>>
  /\ Goto("failed")
  /\ UNCHANGED <<kafkaVars, db, trackerVars, faults, reported>>
  /\ IntentFrame

SubmitReturns ==
  /\ ipc = "await"
  /\ reported' = IF resp.qty > 0 THEN reported \cup {<<pos, resp, restarts>>}
                                 ELSE reported
  /\ Goto("accepted")
  /\ UNCHANGED <<kafkaVars, db, trackerVars, faults, sent, haltSent>>
  /\ IntentFrame

\* submitTimeout, the HTTP client's timeout or a lost connection: the caller
\* sees an error although the venue has the order.
SubmitTimesOut ==
  /\ ipc = "await"
  /\ (~CtxAlive /\ UNCHANGED faults) \/ Fault("submit")
  /\ ipc' = "failed" /\ resp' = NoFill
  /\ UNCHANGED <<pos, cur, wqty, itry, kafkaVars, db, trackerVars, histVars>>
  /\ IntentFrame

\* tracker.UpdateOrderState under the lock: nothing to do when the state is
\* the same, otherwise the quantity for the coming store statement is fixed here.
UpdateOrderState(state, storePC, nextPC) ==
  /\ IF states[cur] = state
       THEN ipc' = nextPC /\ UNCHANGED <<states, wqty, faults>>
       ELSE /\ ipc' = storePC
            /\ states' = [states EXCEPT ![cur] = state]
            /\ IF state = "FILLED"
                 THEN wqty' = (IF cur \in orders THEN Qty[cur] ELSE 0)
                      /\ UNCHANGED faults
                 ELSE \/ wqty' = LookupFilledQty(db, cur) /\ UNCHANGED faults
                      \/ wqty' = 0 /\ Fault("store")
  /\ UNCHANGED <<pos, cur, resp, itry, kafkaVars, db, orders, histVars>>
  /\ IntentFrame

\* The store statement that follows, outside the lock.
StoreUpdate(state, nextPC) ==
  /\ StoreWrite(UpdateRow(db, cur, state, wqty))
  /\ Goto(nextPC)
  /\ UNCHANGED <<kafkaVars, trackerVars, histVars>>
  /\ IntentFrame

\* A positive executed quantity in the answer is treated as a full fill.
AfterAccepted == IF resp.qty > 0 THEN "filled" ELSE "commit"

MarkFailed == ipc = "failed" /\ UpdateOrderState("REJECTED", "storeFailed", "commit")
StoreFailed == ipc = "storeFailed" /\ StoreUpdate("REJECTED", "commit")
MarkSubmitted ==
  ipc = "accepted" /\ UpdateOrderState("SUBMITTED", "storeAccepted", AfterAccepted)
StoreSubmitted == ipc = "storeAccepted" /\ StoreUpdate("SUBMITTED", AfterAccepted)
\* Mutant: an order that already is FILLED is taken to have been published.
MarkFilled_OnceOnly ==
  ipc = "filled" /\ UpdateOrderState("FILLED", "storeFilled", "commit")
MarkFilled == ipc = "filled" /\ UpdateOrderState("FILLED", "storeFilled", "costs")
StoreFilled == ipc = "storeFilled" /\ StoreUpdate("FILLED", "costs")
StoreRestCosts ==
  /\ ipc = "costs"
  /\ StoreWrite(RecordFillCosts(db, cur, Commission(resp)))
  /\ Goto("publish")
  /\ UNCHANGED <<kafkaVars, trackerVars, histVars>>
  /\ IntentFrame

\* One attempt fails: the broker may have the message all the same.
PublishFails(f) ==
  /\ (~CtxAlive /\ UNCHANGED faults) \/ Fault("publish")
  /\ topic' \in {topic, topic \cup {f}}

\* Mutant: one attempt and no retry.
RetriesLeft_None(try) == FALSE
\* publishFillWithRetry gives up after PublishRetries retries or at once when
\* the context is cancelled.
RetriesLeft(try) == CtxAlive /\ try < PublishRetries

\* On giving up the worker goes on to the next intent without a commit.
PublishRestFill ==
  /\ ipc = "publish"
  /\ \/ /\ topic' = topic \cup {resp} /\ UNCHANGED faults
        /\ Goto("commit")
     \/ /\ PublishFails(resp)
        /\ IF RetriesLeft(itry)
             THEN itry' = itry + 1 /\ UNCHANGED <<ipc, cur, resp, wqty>>
             ELSE ToFetch
        /\ UNCHANGED pos
  /\ UNCHANGED <<committed, db, trackerVars, histVars>>
  /\ IntentFrame

\* Mutant: the offset of the message after the next one.
CommittedOffset_Skips == pos + 1
\* Committing a message moves the group offset past it and all before it.
CommittedOffset == pos

\* consumer.Commit of the message in hand; an error is logged.
CommitOffset ==
  /\ ipc = "commit"
  /\ \/ committed' = CommittedOffset /\ UNCHANGED faults
     \/ UNCHANGED committed /\ ((~CtxAlive /\ UNCHANGED faults) \/ Fault("commit"))
  /\ ToFetch
  /\ UNCHANGED <<pos, topic, db, trackerVars, histVars>>
  /\ IntentFrame

-----------------------------------------------------------------------------
(* The fills worker and the user-data stream.                               *)

FillFrame == UNCHANGED <<committed, venue, phase, halted, orders, recVars,
                         intentVars, conn, restarts, halts, histVars>>

\* Mutant: the newest fill first.
ReceiveFill_Newest ==
  /\ fpc = "recv" /\ chan # <<>>
  /\ fill' = chan[Len(chan)] /\ chan' = SubSeq(chan, 1, Len(chan) - 1)
  /\ states' = [states EXCEPT ![fill'.order] = fill'.status]
  /\ fpc' = "store"
  /\ UNCHANGED <<topic, db, ftry, faults>>
  /\ FillFrame
\* A fill is received and tracker.UpdateOrderStateAndQty sets its status.
ReceiveFill ==
  /\ fpc = "recv" /\ chan # <<>>
  /\ fill' = Head(chan) /\ chan' = Tail(chan)
  /\ states' = [states EXCEPT ![fill'.order] = fill'.status]
  /\ fpc' = "store"
  /\ UNCHANGED <<topic, db, ftry, faults>>
  /\ FillFrame

\* The store half writes the quantity of this fill, not a running total.
StoreFill ==
  /\ fpc = "store"
  /\ StoreWrite(UpdateRow(db, fill.order, fill.status, fill.qty))
  /\ fpc' = "costs"
  /\ UNCHANGED <<topic, states, fill, ftry, chan>>
  /\ FillFrame

StoreFillCosts ==
  /\ fpc = "costs"
  /\ StoreWrite(RecordFillCosts(db, fill.order, Commission(fill)))
  /\ fpc' = "publish"
  /\ UNCHANGED <<topic, states, fill, ftry, chan>>
  /\ FillFrame

\* On giving up the fill is logged and dropped.
PublishStreamFill ==
  /\ fpc = "publish"
  /\ \/ /\ topic' = topic \cup {fill} /\ UNCHANGED faults
        /\ fpc' = "recv" /\ fill' = NoFill /\ ftry' = 0
     \/ /\ PublishFails(fill)
        /\ IF RetriesLeft(ftry)
             THEN ftry' = ftry + 1 /\ UNCHANGED <<fpc, fill>>
             ELSE fpc' = "recv" /\ fill' = NoFill /\ ftry' = 0
  /\ UNCHANGED <<db, states, chan>>
  /\ FillFrame

StopFills ==
  /\ fpc = "recv" /\ ~CtxAlive
  /\ fpc' = "stopped"
  /\ UNCHANGED <<topic, db, states, fill, ftry, chan, faults>>
  /\ FillFrame

StreamFrame == UNCHANGED <<kafkaVars, db, phase, halted, trackerVars, recVars,
                           intentVars, fillVars, restarts, halts, histVars>>

\* Dial and subscribe, at the start and after every backoff.
StreamConnect ==
  /\ phase \in {"running", "draining"} /\ ~conn
  /\ conn' = TRUE
  /\ UNCHANGED <<venue, chan, faults>>
  /\ StreamFrame

\* The read fails.  What the venue reports until the next subscription is not
\* sent again; a report lost in the socket is one of those, as nobody sees the
\* connection break before the goroutine does.
StreamDrop ==
  /\ conn /\ Fault("stream")
  /\ conn' = FALSE
  /\ UNCHANGED <<venue, chan>>
  /\ StreamFrame

\* The venue executes some of an open order (external).
VenueTrade(o) ==
  /\ venue[o].status \in {"NEW", "PARTIALLY_FILLED"}
  /\ \E q \in 1..(Qty[o] - venue[o].exec) :
       LET v == Executed(venue[o], q, Qty[o])
       IN  venue' = [venue EXCEPT ![o] = v] /\ Report(o, v, q)
  /\ UNCHANGED <<conn, faults>>
  /\ StreamFrame

\* The venue closes an open order before it is filled (external).  The report
\* has no filled quantity, so the stream goroutine drops it.
VenueCancel(o) ==
  /\ "cancel" \in Env
  /\ venue[o].status \in {"NEW", "PARTIALLY_FILLED"}
  /\ \E s \in ClosedStatuses \ {"FILLED"} :
       venue' = [venue EXCEPT ![o].status = s]
  /\ UNCHANGED <<chan, conn, faults>>
  /\ StreamFrame

-----------------------------------------------------------------------------
(* The operator, shutdown, crash and restart.                               *)

OperatorFrame == UNCHANGED <<kafkaVars, venue, db, trackerVars, recVars,
                             intentVars, fillVars, streamVars, faults, restarts>>

\* POST /admin/halt.  Setting it again only changes the reason.
SetHalt ==
  /\ "halt" \in Env /\ WorkersUp /\ ~halted /\ halts < MaxHalts
  /\ halted' = TRUE /\ halts' = halts + 1 /\ haltSent' = 0
  /\ UNCHANGED <<phase, sent, reported>>
  /\ OperatorFrame

\* POST /admin/resume.
ClearHalt ==
  /\ WorkersUp /\ halted
  /\ halted' = FALSE /\ haltSent' = 0
  /\ UNCHANGED <<phase, halts, sent, reported>>
  /\ OperatorFrame

\* The signal goroutine calls Drain, which closes the intake ...
Sigterm ==
  /\ "sigterm" \in Env /\ phase = "running"
  /\ phase' = "draining"
  /\ UNCHANGED <<halted, halts, histVars>>
  /\ OperatorFrame

\* OrderTracker.GetAllActiveOrders: entries without an order do not count.
GetAllActiveOrders == {id \in orders : states[id] \notin TerminalStates}

\* ... and returns 0 when no tracked order is active, or the number that are
\* at the deadline.  Either way the root context is cancelled next.
DrainClean == phase = "draining" /\ GetAllActiveOrders = {}
\* Mutant: the drain waits for as long as it takes.
DrainDeadline_Never == FALSE
DrainDeadline == phase = "draining" /\ GetAllActiveOrders # {}
CancelRoot ==
  /\ DrainClean \/ DrainDeadline
  /\ phase' = "cancelled"
  /\ UNCHANGED <<halted, halts, histVars>>
  /\ OperatorFrame

\* Everything but the database, Kafka and the venue is gone.
LoseMemory ==
  /\ pos' = committed /\ halted' = FALSE
  /\ states' = [id \in Ids |-> Absent] /\ orders' = {}
  /\ todo' = {} /\ rpc' = "query" /\ rec' = NoAnswer
  /\ ipc' = "off" /\ cur' = NoOrder /\ resp' = NoFill /\ wqty' = 0 /\ itry' = 0
  /\ fpc' = "off" /\ fill' = NoFill /\ ftry' = 0
  /\ conn' = FALSE /\ chan' = <<>>
  /\ sent' = [id \in Ids |-> 0] /\ haltSent' = 0
  /\ UNCHANGED <<kafkaVars, venue, db, faults, halts, reported>>

\* gw.Start returns once both workers have; main closes Kafka and the store.
Exit ==
  /\ phase = "cancelled" /\ ipc = "stopped" /\ fpc = "stopped"
  /\ phase' = "down"
  /\ LoseMemory /\ UNCHANGED restarts

Restart ==
  /\ phase = "down" /\ restarts < MaxRestarts
  /\ phase' = "boot" /\ restarts' = restarts + 1
  /\ UNCHANGED <<halted, halts, kafkaVars, venue, db, trackerVars, recVars,
                 intentVars, fillVars, streamVars, faults, histVars>>

\* The process dies and the orchestrator starts it again.
Crash ==
  /\ "crash" \in Env /\ phase \notin {"boot", "down"} /\ restarts < MaxRestarts
  /\ phase' = "boot" /\ restarts' = restarts + 1
  /\ LoseMemory

\* Nothing left to do: the topic is read to its end and no fill is on its way,
\* or the process has ended for good.
Idle ==
  /\ \/ /\ phase = "running" /\ ipc = "fetch" /\ pos = Len(Log)
        /\ fpc = "recv" /\ chan = <<>>
     \/ phase = "down" /\ restarts = MaxRestarts
  /\ UNCHANGED vars

-----------------------------------------------------------------------------
Boot == Preload \/ (\E o \in Ids : ReconcileQuery(o)) \/ ReconcilePublish
          \/ ReconcileSync \/ Start

IntentsWorker ==
  \/ FetchIntent \/ StopIntents \/ CheckHalt \/ ValidateIntent \/ CheckRisk
  \/ SaveRejected \/ LimiterWait \/ SavePending
  \/ SubmitAccepted \/ SubmitRefused
  \/ SubmitReturns \/ SubmitTimesOut \/ MarkFailed \/ StoreFailed
  \/ MarkSubmitted \/ StoreSubmitted \/ MarkFilled \/ StoreFilled
  \/ StoreRestCosts
  \/ PublishRestFill \/ CommitOffset

FillsWorker == ReceiveFill \/ StoreFill \/ StoreFillCosts \/ PublishStreamFill \/ StopFills

Shutdown == CancelRoot \/ Exit \/ Restart

Environment ==
  \/ StreamDrop \/ Sigterm \/ SetHalt \/ ClearHalt \/ Crash
  \/ \E o \in Orders : VenueTrade(o) \/ VenueCancel(o)

Next == \/ Boot \/ IntentsWorker \/ FillsWorker \/ StreamConnect \/ Shutdown
        \/ Environment \/ Idle

(***************************************************************************)
(* Fairness: the Go runtime runs every goroutine that can run, every call    *)
(* has a timeout (reconcileCtx, the HTTP client's, submitTimeout, Kafka's    *)
(* read and write timeouts), the drain loop has a deadline, and the          *)
(* orchestrator restarts a process that ended.  Nothing is assumed of the    *)
(* venue, the operator, crashes or faults.                                  *)
(***************************************************************************)
Fairness ==
  /\ WF_vars(Boot) /\ WF_vars(IntentsWorker) /\ WF_vars(FillsWorker)
  /\ WF_vars(Shutdown)

Spec == Init /\ [][Next]_vars
FairSpec == Spec /\ Fairness

-----------------------------------------------------------------------------
(* Safety.                                                                  *)

\* Write-ahead: whatever order the gateway has submitted in this life has a row
\* in the store, so a crash at any later point leaves boot reconciliation
\* something to ask the venue about (AddOrder before SubmitOrder).
WriteAhead == \A o \in Ids : sent[o] > 0 => db[o].state # Absent

\* One process life submits an order ID at most once, whatever the intents
\* topic repeats, the fills worker writes into the tracker in between, or the
\* halt switch does to the entry (the duplicate check of the intents worker).
SubmittedOncePerLife == \A o \in Ids : sent[o] <= 1

\* Once boot is over, the tracker knows every order the store holds as active,
\* also while a worker is between its memory and its store write: no active
\* order can pass the duplicate check (WithStore, AddOrder, UpdateOrderState).
ActiveOrdersKnown ==
  WorkersUp => \A o \in GetActiveOrders(db) : states[o] # Absent

\* The kill switch lets at most one order through until it is cleared: the one
\* whose intent had passed the halt check when the operator set it.
HaltLetsAtMostOneThrough == halted => haltSent <= 1

\* However often the process restarts and intents are delivered again, no more
\* distinct orders reach the venue in a day than the daily cap allows, and the
\* same per side (checkRiskLimits counts rows, the worker adds one per order).
DailyCapsHold ==
  LET reached == {o \in Orders : venue[o].n > 0}
  IN  /\ Cardinality(reached) <= MaxDailyOrders
      /\ MaxDailyBuys > 0 =>
           Cardinality({o \in reached : Side[o] = "BUY"}) <= MaxDailyBuys
      /\ MaxDailySells > 0 =>
           Cardinality({o \in reached : Side[o] = "SELL"}) <= MaxDailySells

\* An intent the group offset has passed left a row in the store: accepted or
\* refused, it is never dropped without a trace, in spite of crashes and of
\* publishes given up (a commit covers every earlier uncommitted message).
CommittedIntentRecorded ==
  \A p \in 1..committed : Log[p] \in Orders => db[Log[p]].state # Absent

\* In the life of the process that got the answer, a fill reported by REST is
\* on the fills topic before the group offset passes its intent, also when a
\* shutdown cuts the publish short or the intent is a repeated one
\* (publishFillWithRetry before Commit).
AckedFillPublished ==
  \A r \in reported : r[3] = restarts /\ r[1] <= committed => r[2] \in topic

\* No fill reports an execution the venue has not made, and the trades
\* published from the stream never add up to more than was executed.
FillsAreBacked ==
  /\ \A f \in topic : f.qty <= f.upto /\ f.upto <= Total(venue[f.order])
  /\ \A f, g \in topic :
       f.order = g.order /\ f.path = "ws" /\ g.path = "ws" /\ f.upto < g.upto
         => f.upto <= g.upto - g.qty

\* The fills of one order reach the topic from the stream in the order the
\* venue made them (one fills worker, one FIFO, retries before the next fill).
StreamOrderKept ==
  [][\A f \in topic' \ topic, g \in topic :
        f.path = "ws" /\ g.path = "ws" /\ f.order = g.order => g.upto < f.upto]_vars

-----------------------------------------------------------------------------
(* Liveness.                                                                *)

\* Every intent is committed in the end, in spite of crashes between any two
\* steps and of shutdowns: the worker is never stuck on an intent, be it
\* refused, repeated or in flight, and redelivery ends.  Only a process that
\* nobody restarts any more (the bound of the instance) is excused.
EveryIntentCommitted ==
  <>[](committed = Len(Log) \/ (phase = "down" /\ restarts = MaxRestarts))

\* SIGTERM ends the process although orders are in flight, a publish is being
\* retried or the venue is silent (the drain deadline and the cancelled context).
ShutdownCompletes == (phase = "draining") ~> (phase \in {"down", "boot"})

\* A fill the stream has delivered is published, as long as the process lives.
StreamFillsPublished ==
  \A o \in Orders : \A u \in 1..Qty[o] :
     (\E i \in DOMAIN chan : chan[i].order = o /\ chan[i].upto = u)
       ~> \/ \E f \in topic : f.order = o /\ f.path = "ws" /\ f.upto = u
          \/ ~WorkersUp \/ ~CtxAlive

-----------------------------------------------------------------------------
(* Refinement: what the gateway promises to the producer of intents.        *)

Ledger == INSTANCE IntentLedger WITH recorded <- Rows(db), offset <- committed

\* With a store whose writes succeed, the gateway is a ledger that records an
\* intent before it acts on it, acts on it once per life and acknowledges no
\* intent that it has not recorded.
LedgerSpec == Ledger!Spec
=============================================================================
