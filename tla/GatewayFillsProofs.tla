------------------------- MODULE GatewayFillsProofs -------------------------
(***************************************************************************)
(* What the fills topic says, for every topic, order, fault, crash and       *)
(* cancellation: no fill without an execution behind it and no execution of  *)
(* the stream reported twice or out of order; and with as many retries as    *)
(* faults, no life of the process that acknowledges an intent before the     *)
(* fill its REST answer reported is out.                                    *)
(***************************************************************************)
EXTENDS GatewayTypeProofs

\* The control points at which a worker has a fill in hand to publish.
WithFill == {"store", "costs", "publish"}
WithResult == {"filled", "storeFilled", "costs", "publish"}

\* A fill stands for executed units that the venue v has made.
Sound(f, v) ==
  /\ f.order \in Ids
  /\ f.path \in {"rest", "ws", "reconcile"}
  /\ f.qty > 0 /\ f.qty <= f.upto /\ f.upto <= Total(v[f.order])

\* Every fill on its way is sound, from the venue's report or answer, or from
\* the reconciliation's query, to the topic.
SoundInv ==
  /\ \A f \in topic : Sound(f, venue)
  /\ \A i \in DOMAIN chan : Sound(chan[i], venue) /\ chan[i].path = "ws"
  /\ fpc \in WithFill => Sound(fill, venue) /\ fill.path = "ws"
  /\ resp.qty > 0 => Sound(resp, venue) /\ resp.path = "rest"
  /\ ipc \in WithResult => resp.qty > 0
  /\ rpc = "publish" => /\ rec.order \in Ids /\ rec.exec <= rec.upto
                        /\ rec.upto <= Total(venue[rec.order])

\* At first no fill is on its way.
LEMMA SoundInit == Init => SoundInv
BY DEF Init, SoundInv, NoFill, WithFill, WithResult

-----------------------------------------------------------------------------
(* The venue never takes an execution back.                                 *)

Grows(v, w) == \A o \in Ids : Total(v[o]) <= Total(w[o])

\* A fill that was sound stays so.
LEMMA SoundStays ==
  ASSUME NEW v \in [Ids -> VenueOrder], NEW w \in [Ids -> VenueOrder], Grows(v, w),
         NEW f \in Fill, Sound(f, v)
  PROVE  Sound(f, w)
<1>1. Total(v[f.order]) \in Nat /\ Total(w[f.order]) \in Nat
  BY DEF Sound, VenueOrder, Total
<1>2. Total(v[f.order]) <= Total(w[f.order])
  BY DEF Sound, Grows
<1>3. f.upto \in Nat
  BY DEF Fill
<1> QED
  BY <1>1, <1>2, <1>3 DEF Sound

\* What an execution of q units and a new order do to the venue's numbers.
LEMMA Executing ==
  ASSUME NEW v \in VenueOrder, NEW q \in Nat, NEW size
  PROVE  /\ Total(Executed(v, q, size)) = Total(v) + q
         /\ Executed(v, q, size).exec = v.exec + q
         /\ Total(NewOrder(v)) = Total(v)
         /\ NewOrder(v).exec = 0
         /\ Total(v) \in Nat /\ v.exec <= Total(v)
BY DEF Executed, NewOrder, Total, VenueOrder

\* The venue's numbers are numbers.
LEMMA VenueNumbers ==
  ASSUME TypeOK, NEW o \in Ids
  PROVE  /\ venue[o] \in VenueOrder
         /\ Total(venue[o]) \in Nat
         /\ venue[o].exec \in Nat
<1>1. venue[o] \in VenueOrder
  BY DEF TypeOK
<1> QED
  BY <1>1 DEF VenueOrder, Total

\* No step takes an execution back.
LEMMA VenueGrows ==
  ASSUME TypeInv, [Next]_vars
  PROVE  Grows(venue, venue')
<1> USE DEF TypeInv
<1>0. \A o \in Ids : Total(venue[o]) \in Nat
  BY VenueNumbers
<1>1. CASE SubmitAccepted
  <2>1. PICK q \in 0..Qty[cur] :
          venue' = [venue EXCEPT ![cur] = Executed(NewOrder(venue[cur]), q, Qty[cur])]
    BY <1>1 DEF SubmitAccepted
  <2>2. cur \in Ids /\ q \in Nat /\ venue[cur] \in VenueOrder /\ NewOrder(venue[cur]) \in VenueOrder
    BY <1>1, LogAssumption, TypeOfNewOrder DEF SubmitAccepted, TypeOK, Control, AtRest
  <2>3. Total(venue'[cur]) = Total(venue[cur]) + q
    <3>1. venue'[cur] = Executed(NewOrder(venue[cur]), q, Qty[cur])
      BY <2>1, <2>2 DEF TypeOK
    <3>2. Total(venue'[cur]) = Total(NewOrder(venue[cur])) + q
      BY <2>2, <3>1, Executing
    <3>3. Total(NewOrder(venue[cur])) = Total(venue[cur])
      BY <2>2, Executing
    <3> QED
      BY <3>2, <3>3
  <2>4. \A o \in Ids : o # cur => venue'[o] = venue[o]
    BY <2>1 DEF TypeOK
  <2> QED
    BY <1>0, <2>2, <2>3, <2>4 DEF Grows
<1>2. CASE \E o \in Orders : VenueTrade(o)
  <2>1. PICK o \in Orders : VenueTrade(o)
    BY <1>2
  <2>2. PICK q \in 1..(Qty[o] - venue[o].exec) :
          venue' = [venue EXCEPT ![o] = Executed(venue[o], q, Qty[o])]
    BY <2>1 DEF VenueTrade
  <2>3. o \in Ids /\ venue[o] \in VenueOrder
    BY VenueNumbers DEF Ids
  <2>4. q \in Nat
    <3>1. venue[o].exec \in Nat /\ Qty[o] \in Nat
      BY <2>3, VenueNumbers, LogAssumption
    <3> QED
      BY <2>2, <3>1
  <2>5. venue'[o] = Executed(venue[o], q, Qty[o])
    BY <2>2, <2>3 DEF TypeOK
  <2>6. Total(venue'[o]) = Total(venue[o]) + q
    BY <2>3, <2>4, <2>5, Executing
  <2>7. \A p \in Ids : p # o => venue'[p] = venue[p]
    BY <2>2 DEF TypeOK
  <2> QED
    BY <1>0, <2>3, <2>4, <2>6, <2>7 DEF Grows
<1>3. CASE \E o \in Orders : VenueCancel(o)
  <2>1. PICK o \in Orders : VenueCancel(o)
    BY <1>3
  <2>2. o \in Ids /\ venue[o] \in VenueOrder
    BY VenueNumbers DEF Ids
  <2>3. PICK s \in ClosedStatuses : venue' = [venue EXCEPT ![o].status = s]
    BY <2>1 DEF VenueCancel
  <2>4. Total(venue'[o]) = Total(venue[o])
    BY <2>2, <2>3 DEF Total, VenueOrder, TypeOK
  <2>5. \A p \in Ids : p # o => venue'[p] = venue[p]
    BY <2>1 DEF VenueCancel, TypeOK
  <2> QED
    BY <1>0, <2>2, <2>4, <2>5 DEF Grows
<1>4. CASE UNCHANGED venue
  BY <1>0, <1>4 DEF Grows
<1>5. CASE Boot
  BY <1>4, <1>5 DEF Boot, Preload, ReconcileQuery, ReconcilePublish, ReconcileSync, Start
<1>6. CASE FillsWorker
  BY <1>4, <1>6 DEF FillsWorker, ReceiveFill, StoreFill, StoreFillCosts,
                    PublishStreamFill, StopFills, FillFrame
<1>7. CASE StreamConnect \/ StreamDrop
  BY <1>4, <1>7 DEF StreamConnect, StreamDrop
<1>8. CASE Sigterm \/ SetHalt \/ ClearHalt \/ CancelRoot
  BY <1>4, <1>8 DEF Sigterm, SetHalt, ClearHalt, CancelRoot, OperatorFrame
<1>9. CASE Exit \/ Crash \/ Restart
  BY <1>4, <1>9 DEF Exit, Crash, Restart, LoseMemory
<1>10. CASE Idle \/ UNCHANGED vars
  BY <1>4, <1>10 DEF Idle, vars
<1>11. CASE IntentsWorker /\ ~SubmitAccepted
  BY <1>4, <1>11 DEF IntentsWorker, FetchIntent, StopIntents, CheckHalt, ValidateIntent,
    CheckRisk, SaveRejected, LimiterWait, SavePending, SubmitRefused, SubmitReturns,
    SubmitTimesOut, MarkFailed, StoreFailed, MarkSubmitted, StoreSubmitted, MarkFilled,
    StoreFilled, StoreRestCosts, PublishRestFill, CommitOffset, UpdateOrderState,
    StoreUpdate, IntentFrame
<1> QED
  BY <1>1, <1>2, <1>3, <1>5, <1>6, <1>7, <1>8, <1>9, <1>10, <1>11
     DEF Next, Shutdown, Environment

-----------------------------------------------------------------------------
(* What one step may do to each of the registers a fill passes through.     *)

\* Only the three publishers write to the topic, each the fill it has in hand.
LEMMA TopicStep ==
  ASSUME TypeInv, [Next]_vars
  PROVE  /\ topic \subseteq topic'
         /\ \A f \in topic' : \/ f \in topic
                              \/ rpc = "publish" /\ f = ReconcileFill(rec)
                              \/ ipc = "publish" /\ f = resp
                              \/ fpc = "publish" /\ f = fill
<1>1. CASE ReconcilePublish
  BY <1>1 DEF ReconcilePublish, Fault
<1>2. CASE PublishRestFill
  BY <1>2 DEF PublishRestFill, PublishFails
<1>3. CASE PublishStreamFill
  BY <1>3 DEF PublishStreamFill, PublishFails
<1>4. CASE Boot /\ ~ReconcilePublish
  BY <1>4 DEF Boot, Preload, ReconcileQuery, ReconcileSync, Start, kafkaVars
<1>5. CASE FillsWorker /\ ~PublishStreamFill
  BY <1>5 DEF FillsWorker, ReceiveFill, StoreFill, StoreFillCosts, StopFills
<1>6. CASE IntentsWorker /\ ~PublishRestFill
  BY <1>6 DEF IntentsWorker, FetchIntent, StopIntents, CheckHalt, ValidateIntent,
    CheckRisk, SaveRejected, LimiterWait, SavePending, SubmitAccepted, SubmitRefused,
    SubmitReturns, SubmitTimesOut, MarkFailed, StoreFailed, MarkSubmitted, StoreSubmitted,
    MarkFilled, StoreFilled, StoreRestCosts, CommitOffset, UpdateOrderState,
    StoreUpdate, kafkaVars
<1>7. CASE StreamConnect \/ StreamDrop \/ \E o \in Orders : VenueTrade(o) \/ VenueCancel(o)
  BY <1>7 DEF StreamConnect, StreamDrop, VenueTrade, VenueCancel, StreamFrame, kafkaVars
<1>8. CASE Sigterm \/ SetHalt \/ ClearHalt \/ CancelRoot
  BY <1>8 DEF Sigterm, SetHalt, ClearHalt, CancelRoot, OperatorFrame, kafkaVars
<1>9. CASE Exit \/ Crash \/ Restart \/ Idle \/ UNCHANGED vars
  BY <1>9 DEF Exit, Crash, Restart, LoseMemory, Idle, vars, kafkaVars
<1> QED
  BY <1>1, <1>2, <1>3, <1>4, <1>5, <1>6, <1>7, <1>8, <1>9 DEF Next, Shutdown, Environment

\* The answer that reconciliation is about to publish a backfill for comes from
\* the venue and stays in hand until it is published.
LEMMA AnswerStep ==
  ASSUME TypeInv, [Next]_vars, rpc' = "publish"
  PROVE  \/ rpc = "publish" /\ rec' = rec
         \/ \E o \in Ids : /\ rec'.order = o /\ rec'.exec = venue[o].exec
                           /\ rec'.upto = Total(venue[o])
<1>1. CASE \E o \in Ids : ReconcileQuery(o)
  BY <1>1 DEF ReconcileQuery
<1>2. CASE Preload \/ ReconcilePublish \/ ReconcileSync \/ Start
  BY <1>2 DEF Preload, ReconcilePublish, ReconcileSync, Start, recVars
<1>3. CASE FillsWorker
  BY <1>3 DEF FillsWorker, ReceiveFill, StoreFill, StoreFillCosts, PublishStreamFill,
              StopFills, FillFrame, recVars
<1>4. CASE IntentsWorker
  BY <1>4 DEF IntentsWorker, FetchIntent, StopIntents, CheckHalt, ValidateIntent,
    CheckRisk, SaveRejected, LimiterWait, SavePending, SubmitAccepted, SubmitRefused,
    SubmitReturns, SubmitTimesOut, MarkFailed, StoreFailed, MarkSubmitted, StoreSubmitted,
    MarkFilled, StoreFilled, StoreRestCosts, PublishRestFill, CommitOffset,
    UpdateOrderState, StoreUpdate, IntentFrame, recVars
<1>5. CASE StreamConnect \/ StreamDrop \/ \E o \in Orders : VenueTrade(o) \/ VenueCancel(o)
  BY <1>5 DEF StreamConnect, StreamDrop, VenueTrade, VenueCancel, StreamFrame, recVars
<1>6. CASE Sigterm \/ SetHalt \/ ClearHalt \/ CancelRoot
  BY <1>6 DEF Sigterm, SetHalt, ClearHalt, CancelRoot, OperatorFrame, recVars
<1>7. CASE Exit \/ Crash \/ Restart \/ Idle \/ UNCHANGED vars
  BY <1>7 DEF Exit, Crash, Restart, LoseMemory, Idle, vars, recVars
<1> QED
  BY <1>1, <1>2, <1>3, <1>4, <1>5, <1>6, <1>7 DEF Next, Boot, Shutdown, Environment

\* The REST answer in hand is kept, dropped or, by a submission that the venue
\* accepts, made of the venue's new order; only a positive one is acted upon.
LEMMA ResponseStep ==
  ASSUME TypeInv, [Next]_vars
  PROVE  \/ resp' = resp /\ (ipc' \in WithResult => ipc \in WithResult \/ resp.qty > 0)
         \/ resp' = NoFill /\ ipc' \notin WithResult
         \/ /\ resp' = RestFill(cur, venue'[cur]) /\ ipc' = "await" /\ cur \in Ids
            /\ venue'[cur].exec <= Total(venue'[cur])
<1> USE DEF TypeInv, WithResult
<1>1. CASE SubmitAccepted
  <2>1. PICK q \in 0..Qty[cur] :
          /\ venue' = [venue EXCEPT ![cur] = Executed(NewOrder(venue[cur]), q, Qty[cur])]
          /\ resp' = RestFill(cur, Executed(NewOrder(venue[cur]), q, Qty[cur]))
    BY <1>1 DEF SubmitAccepted
  <2>2. cur \in Ids /\ q \in Nat /\ venue[cur] \in VenueOrder /\ NewOrder(venue[cur]) \in VenueOrder
    BY <1>1, LogAssumption, TypeOfNewOrder DEF SubmitAccepted, TypeOK, Control, AtRest
  <2>3. venue'[cur] = Executed(NewOrder(venue[cur]), q, Qty[cur])
    BY <2>1, <2>2 DEF TypeOK
  <2>4. /\ venue'[cur].exec = NewOrder(venue[cur]).exec + q
        /\ Total(venue'[cur]) = Total(NewOrder(venue[cur])) + q
        /\ NewOrder(venue[cur]).exec <= Total(NewOrder(venue[cur]))
        /\ Total(NewOrder(venue[cur])) \in Nat
    BY <2>2, <2>3, Executing
  <2>5. NewOrder(venue[cur]).exec = 0
    BY <2>2, Executing
  <2> QED
    BY <1>1, <2>1, <2>2, <2>3, <2>4, <2>5 DEF SubmitAccepted
<1>2. CASE LimiterWait \/ SubmitTimesOut \/ PublishRestFill \/ CommitOffset
  BY <1>2 DEF LimiterWait, SubmitTimesOut, PublishRestFill, CommitOffset, Goto, ToFetch
<1>3. CASE MarkSubmitted \/ StoreSubmitted \/ MarkFilled \/ StoreFilled \/ StoreRestCosts
  BY <1>3 DEF MarkSubmitted, StoreSubmitted, MarkFilled, StoreFilled, StoreRestCosts,
              UpdateOrderState, StoreUpdate, AfterAccepted, Goto
<1>4. CASE \/ FetchIntent \/ StopIntents \/ CheckHalt \/ ValidateIntent
           \/ CheckRisk \/ SaveRejected \/ SavePending
  BY <1>4 DEF FetchIntent, StopIntents, CheckHalt, ValidateIntent, CheckRisk, SaveRejected,
              SavePending, AfterRefusal, Goto
<1>5. CASE SubmitRefused \/ SubmitReturns \/ MarkFailed \/ StoreFailed
  BY <1>5 DEF SubmitRefused, SubmitReturns, MarkFailed, StoreFailed, UpdateOrderState,
              StoreUpdate, Goto
<1>6. CASE Boot
  BY <1>6 DEF Boot, Preload, ReconcileQuery, ReconcilePublish, ReconcileSync, Start, intentVars
<1>7. CASE FillsWorker
  BY <1>7 DEF FillsWorker, ReceiveFill, StoreFill, StoreFillCosts, PublishStreamFill,
              StopFills, FillFrame, intentVars
<1>8. CASE StreamConnect \/ StreamDrop \/ \E o \in Orders : VenueTrade(o) \/ VenueCancel(o)
  BY <1>8 DEF StreamConnect, StreamDrop, VenueTrade, VenueCancel, StreamFrame, intentVars
<1>9. CASE Sigterm \/ SetHalt \/ ClearHalt \/ CancelRoot
  BY <1>9 DEF Sigterm, SetHalt, ClearHalt, CancelRoot, OperatorFrame, intentVars
<1>10. CASE Exit \/ Crash \/ Restart \/ Idle \/ UNCHANGED vars
  BY <1>10 DEF Exit, Crash, Restart, LoseMemory, Idle, vars, intentVars
<1> QED
  BY <1>1, <1>2, <1>3, <1>4, <1>5, <1>6, <1>7, <1>8, <1>9, <1>10
     DEF Next, IntentsWorker, Shutdown, Environment

\* The stream: nothing happens to it, it is lost with the memory, the worker
\* takes its oldest fill, or the venue reports an execution at its end.
LEMMA StreamStep ==
  ASSUME TypeInv, [Next]_vars
  PROVE  \/ chan' = chan /\ (fpc' \in WithFill => fpc \in WithFill /\ fill' = fill)
         \/ chan' = <<>> /\ fpc' \notin WithFill
         \/ /\ chan # <<>> /\ chan' = Tail(chan) /\ fill' = Head(chan)
            /\ fpc = "recv" /\ fpc' = "store"
         \/ \E o \in Ids, q \in Nat \ {0} : \E key :
              /\ chan' = Append(chan, StreamFill(o, venue'[o], q, key))
              /\ Total(venue'[o]) = Total(venue[o]) + q
              /\ UNCHANGED <<fpc, fill>>
<1> USE DEF TypeInv, WithFill
<1>1. CASE SubmitAccepted
  <2>1. PICK q \in 0..Qty[cur] :
          /\ venue' = [venue EXCEPT ![cur] = Executed(NewOrder(venue[cur]), q, Qty[cur])]
          /\ Report(cur, Executed(NewOrder(venue[cur]), q, Qty[cur]), q)
    BY <1>1 DEF SubmitAccepted
  <2>2. cur \in Ids /\ q \in Nat /\ venue[cur] \in VenueOrder /\ NewOrder(venue[cur]) \in VenueOrder
    BY <1>1, LogAssumption, TypeOfNewOrder DEF SubmitAccepted, TypeOK, Control, AtRest
  <2>3. venue'[cur] = Executed(NewOrder(venue[cur]), q, Qty[cur])
    BY <2>1, <2>2 DEF TypeOK
  <2>4. Total(venue'[cur]) = Total(NewOrder(venue[cur])) + q
    BY <2>2, <2>3, Executing
  <2>5. Total(NewOrder(venue[cur])) = Total(venue[cur])
    BY <2>2, Executing
  <2>6. \/ chan' = chan
        \/ q # 0 /\ \E key : chan' = Append(chan, StreamFill(cur, venue'[cur], q, key))
    BY <2>1, <2>2, <2>3 DEF Report
  <2>7. UNCHANGED <<fpc, fill>>
    BY <1>1 DEF SubmitAccepted, fillVars
  <2> QED
    BY <2>2, <2>4, <2>5, <2>6, <2>7
<1>2. CASE \E o \in Orders : VenueTrade(o)
  <2>1. PICK o \in Orders : VenueTrade(o)
    BY <1>2
  <2>2. PICK q \in 1..(Qty[o] - venue[o].exec) :
          /\ venue' = [venue EXCEPT ![o] = Executed(venue[o], q, Qty[o])]
          /\ Report(o, Executed(venue[o], q, Qty[o]), q)
    BY <2>1 DEF VenueTrade
  <2>3. o \in Ids /\ venue[o] \in VenueOrder
    BY VenueNumbers DEF Ids
  <2>4. q \in Nat \ {0}
    <3>1. venue[o].exec \in Nat /\ Qty[o] \in Nat
      BY <2>3, VenueNumbers, LogAssumption
    <3> QED
      BY <2>2, <3>1
  <2>5. venue'[o] = Executed(venue[o], q, Qty[o])
    BY <2>2, <2>3 DEF TypeOK
  <2>6. Total(venue'[o]) = Total(venue[o]) + q
    BY <2>3, <2>4, <2>5, Executing
  <2>7. chan' = chan \/ \E key : chan' = Append(chan, StreamFill(o, venue'[o], q, key))
    BY <2>2, <2>5 DEF Report
  <2>8. UNCHANGED <<fpc, fill>>
    BY <2>1 DEF VenueTrade, StreamFrame, fillVars
  <2> QED
    BY <2>3, <2>4, <2>6, <2>7, <2>8
<1>3. CASE IntentsWorker /\ ~SubmitAccepted
  BY <1>3 DEF IntentsWorker, FetchIntent, StopIntents, CheckHalt, ValidateIntent,
    CheckRisk, SaveRejected, LimiterWait, SavePending, SubmitRefused,
    SubmitReturns, SubmitTimesOut, MarkFailed, StoreFailed, MarkSubmitted, StoreSubmitted,
    MarkFilled, StoreFilled, StoreRestCosts, PublishRestFill, CommitOffset,
    UpdateOrderState, StoreUpdate, IntentFrame, fillVars, streamVars
<1>4. CASE FillsWorker
  BY <1>4 DEF FillsWorker, ReceiveFill, StoreFill, StoreFillCosts, PublishStreamFill, StopFills
<1>5. CASE Boot
  BY <1>5 DEF Boot, Preload, ReconcileQuery, ReconcilePublish, ReconcileSync, Start,
              fillVars, streamVars
<1>6. CASE StreamConnect \/ StreamDrop \/ \E o \in Orders : VenueCancel(o)
  BY <1>6 DEF StreamConnect, StreamDrop, VenueCancel, StreamFrame, fillVars
<1>7. CASE Sigterm \/ SetHalt \/ ClearHalt \/ CancelRoot
  BY <1>7 DEF Sigterm, SetHalt, ClearHalt, CancelRoot, OperatorFrame, fillVars, streamVars
<1>8. CASE Exit \/ Crash \/ Restart \/ Idle \/ UNCHANGED vars
  BY <1>8 DEF Exit, Crash, Restart, LoseMemory, Idle, vars, fillVars, streamVars
<1> QED
  BY <1>1, <1>2, <1>3, <1>4, <1>5, <1>6, <1>7, <1>8 DEF Next, Shutdown, Environment

-----------------------------------------------------------------------------
(* The pipeline's invariants are kept.                                      *)

\* Every step keeps the fills on their way sound.
LEMMA SoundStep ==
  ASSUME TypeInv, SoundInv, [Next]_vars
  PROVE  SoundInv'
<1> USE DEF TypeInv
<1>1. TypeOK'
  BY TypeStep
<1>2. venue \in [Ids -> VenueOrder] /\ venue' \in [Ids -> VenueOrder] /\ Grows(venue, venue')
  BY <1>1, VenueGrows DEF TypeOK
<1>3. \A f \in Fill : Sound(f, venue) => Sound(f, venue')
  BY <1>2, SoundStays
<1>4. \A o \in Ids : /\ venue[o] \in VenueOrder /\ venue'[o] \in VenueOrder
                    /\ Total(venue[o]) \in Nat /\ Total(venue'[o]) \in Nat
                    /\ Total(venue[o]) <= Total(venue'[o])
                    /\ venue[o].exec \in Nat /\ venue[o].exec <= Total(venue[o])
  BY <1>2, Executing DEF Grows, VenueOrder
<1>5. \A f \in topic' : Sound(f, venue')
  <2> SUFFICES ASSUME NEW f \in topic' PROVE Sound(f, venue')
    OBVIOUS
  <2>1. f \in Fill
    BY <1>1 DEF TypeOK
  <2>2. CASE f \in topic
    BY <1>3, <2>1, <2>2 DEF SoundInv
  <2>3. CASE rpc = "publish" /\ f = ReconcileFill(rec)
    <3>1. /\ rec.order \in Ids /\ rec.exec <= rec.upto
          /\ rec.upto <= Total(venue[rec.order]) /\ DeltaQty(rec) > 0
      BY <2>3 DEF SoundInv, Control
    <3>2. rec.exec \in Nat /\ rec.prev \in Nat /\ rec.upto \in Nat
      BY DEF TypeOK, Answer
    <3>3. /\ f.order = rec.order /\ f.path = "reconcile"
          /\ f.qty = rec.exec - rec.prev /\ f.upto = rec.upto
      BY <2>3 DEF ReconcileFill, DeltaQty
    <3>4. Sound(f, venue)
      BY <1>4, <3>1, <3>2, <3>3 DEF Sound, DeltaQty
    <3> QED
      BY <1>3, <2>1, <3>4
  <2>4. CASE ipc = "publish" /\ f = resp
    BY <1>3, <2>1, <2>4 DEF SoundInv, WithResult
  <2>5. CASE fpc = "publish" /\ f = fill
    BY <1>3, <2>1, <2>5 DEF SoundInv, WithFill
  <2> QED
    BY <2>2, <2>3, <2>4, <2>5, TopicStep
<1>6. /\ \A i \in DOMAIN chan' : Sound(chan'[i], venue') /\ chan'[i].path = "ws"
      /\ fpc' \in WithFill => Sound(fill', venue') /\ fill'.path = "ws"
  <2>1. chan \in Seq(Fill) /\ fill \in Fill /\ \A i \in DOMAIN chan : chan[i] \in Fill
    BY DEF TypeOK
  <2>2. \A i \in DOMAIN chan : Sound(chan[i], venue') /\ chan[i].path = "ws"
    BY <1>3, <2>1 DEF SoundInv
  <2>3. fpc \in WithFill => Sound(fill, venue') /\ fill.path = "ws"
    BY <1>3, <2>1 DEF SoundInv
  <2>4. CASE chan' = chan /\ (fpc' \in WithFill => fpc \in WithFill /\ fill' = fill)
    BY <2>2, <2>3, <2>4
  <2>5. CASE chan' = <<>> /\ fpc' \notin WithFill
    BY <2>5
  <2>6. CASE chan # <<>> /\ chan' = Tail(chan) /\ fill' = Head(chan)
    <3>1. /\ Head(chan) = chan[1] /\ 1 \in DOMAIN chan
          /\ \A i \in DOMAIN Tail(chan) : i + 1 \in DOMAIN chan /\ Tail(chan)[i] = chan[i + 1]
      BY <2>1, <2>6
    <3> QED
      BY <2>2, <2>6, <3>1
  <2>7. ASSUME NEW o \in Ids, NEW q \in Nat \ {0}, NEW key,
               chan' = Append(chan, StreamFill(o, venue'[o], q, key)),
               Total(venue'[o]) = Total(venue[o]) + q,
               UNCHANGED <<fpc, fill>>
        PROVE  /\ \A i \in DOMAIN chan' : Sound(chan'[i], venue') /\ chan'[i].path = "ws"
               /\ fpc' \in WithFill => Sound(fill', venue') /\ fill'.path = "ws"
    <3> DEFINE g == StreamFill(o, venue'[o], q, key)
    <3>1. \A i \in DOMAIN chan' : (i \in DOMAIN chan /\ chan'[i] = chan[i]) \/ chan'[i] = g
      BY <2>1, <2>7
    <3>2. /\ g.order = o /\ g.path = "ws" /\ g.qty = q
          /\ g.upto = Total(venue'[o])
      BY DEF StreamFill
    <3>3. Sound(g, venue')
      BY <1>4, <2>7, <3>2 DEF Sound
    <3> QED
      BY <2>2, <2>3, <2>7, <3>1, <3>2, <3>3
  <2> QED
    BY <2>4, <2>5, <2>6, <2>7, StreamStep
<1>7. /\ resp'.qty > 0 => Sound(resp', venue') /\ resp'.path = "rest"
      /\ ipc' \in WithResult => resp'.qty > 0
  <2>1. CASE resp' = resp /\ (ipc' \in WithResult => ipc \in WithResult \/ resp.qty > 0)
    BY <1>3, <2>1 DEF SoundInv, TypeOK
  <2>2. CASE resp' = NoFill /\ ipc' \notin WithResult
    BY <2>2 DEF NoFill
  <2>3. CASE /\ resp' = RestFill(cur, venue'[cur]) /\ ipc' = "await" /\ cur \in Ids
             /\ venue'[cur].exec <= Total(venue'[cur])
    <3>1. /\ resp'.order = cur /\ resp'.path = "rest" /\ resp'.qty = venue'[cur].exec
          /\ resp'.upto = Total(venue'[cur])
      BY <2>3 DEF RestFill
    <3> QED
      BY <1>4, <2>3, <3>1 DEF Sound, WithResult
  <2> QED
    BY <2>1, <2>2, <2>3, ResponseStep
<1>8. rpc' = "publish" => /\ rec'.order \in Ids /\ rec'.exec <= rec'.upto
                          /\ rec'.upto <= Total(venue'[rec'.order])
  <2> SUFFICES ASSUME rpc' = "publish"
               PROVE  /\ rec'.order \in Ids /\ rec'.exec <= rec'.upto
                      /\ rec'.upto <= Total(venue'[rec'.order])
    OBVIOUS
  <2>1. rec.upto \in Nat
    BY DEF TypeOK, Answer
  <2>2. CASE rpc = "publish" /\ rec' = rec
    BY <1>4, <2>1, <2>2 DEF SoundInv
  <2>3. CASE \E o \in Ids : /\ rec'.order = o /\ rec'.exec = venue[o].exec
                           /\ rec'.upto = Total(venue[o])
    BY <1>4, <2>3
  <2> QED
    BY <2>2, <2>3, AnswerStep
<1> QED
  BY <1>5, <1>6, <1>7, <1>8 DEF SoundInv

-----------------------------------------------------------------------------
(* The stream's order.                                                      *)

\* f stands for an execution that was over before that of g began.
Before(f, g) == f.order = g.order => f.upto <= g.upto - g.qty

Stream(t) == {f \in t : f.path = "ws"}

\* From the topic back to the venue, the stream's fills of an order are in the
\* order of their executions and do not overlap: what the topic has, then what
\* the worker has in hand, which the topic may have already, then the channel.
OrderInv ==
  /\ \A i, j \in DOMAIN chan : i < j => Before(chan[i], chan[j])
  /\ fpc \in WithFill => \A i \in DOMAIN chan : Before(fill, chan[i])
  /\ \A f \in Stream(topic) : \A i \in DOMAIN chan : Before(f, chan[i])
  /\ fpc \in WithFill => \A f \in Stream(topic) : f = fill \/ Before(f, fill)
  /\ \A f, g \in Stream(topic) : f = g \/ Before(f, g) \/ Before(g, f)

\* At first the stream has nothing to order.
LEMMA OrderInit == Init => OrderInv
BY DEF Init, OrderInv, WithFill, Stream

\* A sound fill is before every execution the venue makes from now on.
LEMMA SoundIsBefore ==
  ASSUME TypeOK, NEW f \in Fill, Sound(f, venue), NEW o \in Ids, NEW q \in Nat,
         NEW w \in VenueOrder, Total(w) = Total(venue[o]) + q, NEW key
  PROVE  Before(f, StreamFill(o, w, q, key))
<1>1. Total(venue[o]) \in Nat /\ f.upto \in Nat
  BY VenueNumbers DEF Fill
<1>2. /\ StreamFill(o, w, q, key).order = o
      /\ StreamFill(o, w, q, key).upto = Total(w)
      /\ StreamFill(o, w, q, key).qty = q
  BY DEF StreamFill
<1>3. f.upto <= Total(venue[f.order])
  BY DEF Sound
<1> QED
  BY <1>1, <1>2, <1>3 DEF Before

\* What is published from the stream is what the fills worker has in hand.
LEMMA StreamTopicStep ==
  ASSUME TypeInv, SoundInv, [Next]_vars, NEW f \in Stream(topic')
  PROVE  f \in Stream(topic) \/ (fpc = "publish" /\ f = fill)
<1>1. f \in topic' /\ f.path = "ws"
  BY DEF Stream
<1>2. ReconcileFill(rec).path # "ws"
  BY DEF ReconcileFill
<1>3. ipc = "publish" => resp.path # "ws"
  BY DEF SoundInv, WithResult
<1> QED
  BY <1>1, <1>2, <1>3, TopicStep DEF Stream

\* Every step keeps the order.
LEMMA OrderStep ==
  ASSUME TypeInv, SoundInv, OrderInv, [Next]_vars
  PROVE  OrderInv'
<1> USE DEF TypeInv
<1>1. TypeOK' /\ SoundInv'
  BY TypeStep, SoundStep
<1>2. \A f \in Stream(topic') : f \in Stream(topic) \/ (fpc = "publish" /\ f = fill)
  BY StreamTopicStep
<1>3. \A f \in Stream(topic') : \A i \in DOMAIN chan : Before(f, chan[i])
  BY <1>2 DEF OrderInv, WithFill
<1>4. \A f, g \in Stream(topic') : f = g \/ Before(f, g) \/ Before(g, f)
  BY <1>2 DEF OrderInv, WithFill
<1>5. fpc \in WithFill => \A f \in Stream(topic') : f = fill \/ Before(f, fill)
  BY <1>2 DEF OrderInv
<1>6. chan \in Seq(Fill) /\ \A i \in DOMAIN chan : chan[i] \in Fill
  BY DEF TypeOK
<1>7. CASE chan' = chan /\ (fpc' \in WithFill => fpc \in WithFill /\ fill' = fill)
  BY <1>3, <1>4, <1>5, <1>7 DEF OrderInv
<1>8. CASE chan' = <<>> /\ fpc' \notin WithFill
  BY <1>4, <1>8 DEF OrderInv
<1>9. CASE chan # <<>> /\ chan' = Tail(chan) /\ fill' = Head(chan) /\ fpc = "recv"
  <2>1. /\ Head(chan) = chan[1] /\ 1 \in DOMAIN chan
        /\ \A i \in DOMAIN Tail(chan) : /\ i \in Nat /\ i >= 1
                                        /\ i + 1 \in DOMAIN chan /\ Tail(chan)[i] = chan[i + 1]
    BY <1>6, <1>9
  <2>2. \A i, j \in DOMAIN chan' : i < j => Before(chan'[i], chan'[j])
    BY <1>9, <2>1 DEF OrderInv
  <2>3. \A i \in DOMAIN chan' : Before(fill', chan'[i])
    BY <1>9, <2>1 DEF OrderInv
  <2>4. \A f \in Stream(topic') : \A i \in DOMAIN chan' : Before(f, chan'[i])
    BY <1>3, <1>9, <2>1
  <2>5. \A f \in Stream(topic') : Before(f, fill')
    BY <1>3, <1>9, <2>1
  <2> QED
    BY <1>4, <2>2, <2>3, <2>4, <2>5 DEF OrderInv
<1>10. ASSUME NEW o \in Ids, NEW q \in Nat \ {0}, NEW key,
              chan' = Append(chan, StreamFill(o, venue'[o], q, key)),
              Total(venue'[o]) = Total(venue[o]) + q,
              UNCHANGED <<fpc, fill>>
       PROVE  OrderInv'
  <2> DEFINE g == StreamFill(o, venue'[o], q, key)
  <2>1. \A f \in Fill : Sound(f, venue) => Before(f, g)
    <3>1. venue'[o] \in VenueOrder
      BY <1>1 DEF TypeOK
    <3> QED
      BY <1>10, <3>1, SoundIsBefore
  <2>2. /\ \A i \in DOMAIN chan : Before(chan[i], g)
        /\ fpc \in WithFill => Before(fill, g)
        /\ \A f \in Stream(topic') : Before(f, g)
    <3>1. \A i \in DOMAIN chan : Sound(chan[i], venue)
      BY DEF SoundInv
    <3>2. fpc \in WithFill => fill \in Fill /\ Sound(fill, venue)
      BY DEF SoundInv, TypeOK
    <3>3. \A f \in Stream(topic) : f \in Fill /\ Sound(f, venue)
      BY DEF SoundInv, Stream, TypeOK
    <3>4. \A f \in Stream(topic') : f \in Fill /\ Sound(f, venue)
      BY <1>2, <3>2, <3>3 DEF WithFill
    <3> QED
      BY <1>6, <2>1, <3>1, <3>2, <3>4
  <2>3. \A i \in DOMAIN chan' : \/ i \in DOMAIN chan /\ chan'[i] = chan[i]
                                \/ i = Len(chan) + 1 /\ chan'[i] = g
    BY <1>6, <1>10
  <2>4. \A i \in DOMAIN chan : i \in Nat /\ i <= Len(chan) /\ Len(chan) \in Nat
    BY <1>6
  <2>5. \A i, j \in DOMAIN chan' : i < j => Before(chan'[i], chan'[j])
    <3> SUFFICES ASSUME NEW i \in DOMAIN chan', NEW j \in DOMAIN chan', i < j
                 PROVE  Before(chan'[i], chan'[j])
      OBVIOUS
    <3>1. Len(chan) \in Nat
      BY <1>6
    <3>2. i \in DOMAIN chan /\ chan'[i] = chan[i]
      BY <2>3, <2>4, <3>1
    <3> QED
      BY <2>2, <2>3, <3>2 DEF OrderInv
  <2>6. fpc' \in WithFill => \A i \in DOMAIN chan' : Before(fill', chan'[i])
    BY <1>10, <2>2, <2>3 DEF OrderInv
  <2>7. \A f \in Stream(topic') : \A i \in DOMAIN chan' : Before(f, chan'[i])
    BY <1>3, <2>2, <2>3
  <2>8. fpc' \in WithFill => \A f \in Stream(topic') : f = fill' \/ Before(f, fill')
    BY <1>5, <1>10
  <2> QED
    BY <1>4, <2>5, <2>6, <2>7, <2>8 DEF OrderInv
<1> QED
  BY <1>7, <1>8, <1>9, <1>10, StreamStep

-----------------------------------------------------------------------------
(* What the topic says is true.                                             *)

\* The inductive invariant of the fills pipeline.
PipelineInv == TypeInv /\ SoundInv /\ OrderInv

\* It holds in every state of every behaviour.
LEMMA Pipeline == Spec => []PipelineInv
<1>1. Init => PipelineInv
  BY TypeInit, SoundInit, OrderInit DEF PipelineInv
<1>2. PipelineInv /\ [Next]_vars => PipelineInv'
  BY TypeStep, SoundStep, OrderStep DEF PipelineInv
<1> QED
  BY <1>1, <1>2, PTL DEF Spec

\* Every fill on the topic reports units that the venue has executed, and the
\* trades published from the stream never overlap, through crashes, retried
\* publishes, dropped streams and resubmissions of closed IDs.
THEOREM PublishedFillsAreBacked == Spec => []FillsAreBacked
<1>1. PipelineInv => FillsAreBacked
  <2> SUFFICES ASSUME PipelineInv PROVE FillsAreBacked
    OBVIOUS
  <2>1. \A f \in topic : f.qty <= f.upto /\ f.upto <= Total(venue[f.order])
    BY DEF PipelineInv, SoundInv, Sound
  <2>2. ASSUME NEW f \in topic, NEW g \in topic,
               f.order = g.order, f.path = "ws", g.path = "ws", f.upto < g.upto
        PROVE  f.upto <= g.upto - g.qty
    <3>1. f \in Fill /\ g \in Fill /\ Sound(f, venue) /\ f \in Stream(topic) /\ g \in Stream(topic)
      BY <2>2 DEF PipelineInv, TypeInv, TypeOK, SoundInv, Stream
    <3>2. /\ f.upto \in Nat /\ f.qty \in Nat /\ g.upto \in Nat /\ g.qty \in Nat
          /\ f.qty > 0
      BY <3>1 DEF Fill, Sound
    <3>3. f = g \/ Before(f, g) \/ Before(g, f)
      BY <3>1 DEF PipelineInv, OrderInv
    <3> QED
      BY <2>2, <3>2, <3>3 DEF Before
  <2> QED
    BY <2>1, <2>2 DEF FillsAreBacked
<1> QED
  BY <1>1, Pipeline, PTL

\* Fills of one order reach the topic from the stream in the venue's order, a
\* retried publish included.
THEOREM StreamOrderIsKept == Spec => StreamOrderKept
<1> DEFINE Kept == \A f \in topic' \ topic, g \in topic :
                      f.path = "ws" /\ g.path = "ws" /\ f.order = g.order => g.upto < f.upto
<1>1. PipelineInv /\ [Next]_vars => [Kept]_vars
  <2> SUFFICES ASSUME PipelineInv, [Next]_vars,
                      NEW f \in topic' \ topic, NEW g \in topic,
                      f.path = "ws", g.path = "ws", f.order = g.order
               PROVE  g.upto < f.upto
    OBVIOUS
  <2>1. f \in Stream(topic') /\ f \notin Stream(topic) /\ g \in Stream(topic)
    BY DEF Stream
  <2>2. fpc = "publish" /\ f = fill
    BY <2>1, StreamTopicStep DEF PipelineInv
  <2>3. Before(g, f) /\ Sound(f, venue)
    BY <2>1, <2>2 DEF PipelineInv, OrderInv, SoundInv, WithFill
  <2>4. f.upto \in Nat /\ f.qty \in Nat /\ g.upto \in Nat
    BY <2>2 DEF PipelineInv, TypeInv, TypeOK, Fill
  <2> QED
    BY <2>3, <2>4 DEF Before, Sound
<1> QED
  BY <1>1, Pipeline, PTL DEF Spec, StreamOrderKept

-----------------------------------------------------------------------------
(* No intent is acknowledged before the fill of its REST answer is out.     *)

\* The control points at which the answer in hand is still to be published.
Carrying == {"accepted", "storeAccepted"} \cup WithResult

\* A fill that was reported in this life is on the topic, or it is the answer in
\* hand, or its publish was cut short by the cancelled context: then its intent
\* stays uncommitted, for the worker takes no other message and the process ends.
Settled(r) ==
  \/ r[2] \in topic
  \/ r[1] = pos /\ r[2] = resp /\ resp.qty > 0 /\ ipc \in Carrying
  \/ r[1] > committed /\ phase = "cancelled" /\ ipc \in {"fetch", "stopped"}
  \/ r[1] > committed /\ phase = "down"

\* The inductive strengthening: each retry of the publish in hand stands for a
\* fault, so the worker gives up only when faults outnumber retries.
AckInv ==
  /\ itry <= faults
  /\ \A r \in reported : r[3] <= restarts
  /\ faults <= PublishRetries =>
       \A r \in reported : r[3] = restarts => Settled(r)

\* At first nothing is reported and nothing has failed.
LEMMA AckInit == Init => AckInv
BY DEF Init, AckInv

\* Faults are counted and never forgotten.
LEMMA FaultsGrow ==
  ASSUME TypeInv, [Next]_vars
  PROVE  faults <= faults'
<1>0. faults \in Nat
  BY BoundsAssumption DEF TypeInv, TypeOK
<1> USE <1>0
<1>1. CASE Boot
  <2>1. CASE Preload \/ Start
    BY <2>1 DEF Preload, Start, Fault, boundVars
  <2>2. CASE \E o \in Ids : ReconcileQuery(o)
    BY <2>2 DEF ReconcileQuery, Fault
  <2>3. CASE ReconcilePublish
    BY <2>3 DEF ReconcilePublish, Fault
  <2>4. CASE ReconcileSync
    BY <2>4 DEF ReconcileSync, StoreWrite, Fault
  <2> QED
    BY <1>1, <2>1, <2>2, <2>3, <2>4 DEF Boot
<1>2. CASE IntentsWorker
  BY <1>2 DEF IntentsWorker, FetchIntent, StopIntents, CheckHalt, ValidateIntent,
    CheckRisk, SaveRejected, LimiterWait, SavePending, SubmitAccepted, SubmitRefused,
    SubmitReturns, SubmitTimesOut, MarkFailed, StoreFailed, MarkSubmitted, StoreSubmitted,
    MarkFilled, StoreFilled, StoreRestCosts, PublishRestFill, CommitOffset,
    UpdateOrderState, StoreUpdate, StoreWrite, PublishFails, Fault, boundVars
<1>3. CASE FillsWorker
  BY <1>3 DEF FillsWorker, ReceiveFill, StoreFill, StoreFillCosts, PublishStreamFill,
              StopFills, StoreWrite, PublishFails, Fault
<1>4. CASE StreamConnect \/ StreamDrop \/ \E o \in Orders : VenueTrade(o) \/ VenueCancel(o)
  BY <1>4 DEF StreamConnect, StreamDrop, VenueTrade, VenueCancel, Fault
<1>5. CASE Sigterm \/ SetHalt \/ ClearHalt \/ CancelRoot
  BY <1>5 DEF Sigterm, SetHalt, ClearHalt, CancelRoot, OperatorFrame
<1>6. CASE Exit \/ Crash \/ Restart \/ Idle \/ UNCHANGED vars
  BY <1>6 DEF Exit, Crash, Restart, LoseMemory, Idle, vars, boundVars
<1> QED
  BY <1>1, <1>2, <1>3, <1>4, <1>5, <1>6 DEF Next, Shutdown, Environment

\* Every step keeps the strengthening.
LEMMA AckStep ==
  ASSUME TypeInv, OffsetInv, AckInv, [Next]_vars
  PROVE  AckInv'
<1> USE DEF Carrying, WithResult
<1>0. /\ faults \in Nat /\ faults' \in Nat /\ faults <= faults' /\ PublishRetries \in Nat
      /\ itry \in Nat /\ pos \in Nat /\ committed \in Nat /\ topic \subseteq topic'
  <2>1. TypeOK /\ TypeOK'
    BY TypeStep DEF TypeInv
  <2> QED
    BY <2>1, FaultsGrow, TopicStep, LogLength, BoundsAssumption DEF TypeOK
<1>1. restarts \in Nat /\ \A r \in reported : r[1] \in Nat /\ r[3] \in Nat
  BY LogLength, BoundsAssumption DEF TypeInv, TypeOK
<1>19. ipc # "off" => phase # "down"
  BY DEF TypeInv, Control, WorkersUp
\* A step that leaves the intents worker, the offset and the history alone.
<1>2. CASE /\ UNCHANGED <<committed, pos, ipc, resp, itry, reported, restarts>>
           /\ phase \in {"cancelled", "down"} => phase' = phase
  BY <1>0, <1>2 DEF AckInv, Settled
<1>3. CASE Boot
  <2>1. CASE Start
    <3>1. ipc = "off"
      BY <2>1 DEF Start, TypeInv, Control, WorkersUp
    <3> QED
      BY <2>1, <3>1, <1>0 DEF Start, AckInv, Settled, kafkaVars, boundVars, histVars
  <2>2. CASE ~Start
    BY <1>2, <1>3, <2>2 DEF Boot, Preload, ReconcileQuery, ReconcilePublish, ReconcileSync,
              TypeInv, Control, kafkaVars, intentVars, boundVars, histVars
  <2> QED
    BY <2>1, <2>2
<1>4. CASE FillsWorker
  BY <1>2, <1>4 DEF FillsWorker, ReceiveFill, StoreFill, StoreFillCosts, PublishStreamFill,
                    StopFills, FillFrame, intentVars, histVars
<1>5. CASE StreamConnect \/ StreamDrop \/ \E o \in Orders : VenueTrade(o) \/ VenueCancel(o)
  BY <1>2, <1>5 DEF StreamConnect, StreamDrop, VenueTrade, VenueCancel, StreamFrame,
                    kafkaVars, intentVars, histVars
<1>6. CASE Sigterm \/ SetHalt \/ ClearHalt \/ CancelRoot
  BY <1>2, <1>6 DEF Sigterm, SetHalt, ClearHalt, CancelRoot, DrainClean, DrainDeadline,
                    OperatorFrame, histVars, kafkaVars, intentVars
<1>7. CASE Exit
  BY <1>0, <1>7 DEF Exit, LoseMemory, AckInv, Settled, kafkaVars
<1>20. CASE Crash \/ Restart
  <2>1. restarts' = restarts + 1 /\ reported' = reported /\ itry' <= faults'
    BY <1>0, <1>20 DEF Crash, Restart, LoseMemory, AckInv, intentVars, histVars
  <2>2. \A r \in reported' : r[3] < restarts'
    BY <1>1, <2>1 DEF AckInv
  <2>3. \A r \in reported' : r[3] # restarts' /\ r[3] <= restarts'
    BY <1>1, <2>1, <2>2
  <2> QED
    BY <2>1, <2>3 DEF AckInv
<1>8. CASE Idle \/ UNCHANGED vars
  BY <1>2, <1>8 DEF Idle, vars, kafkaVars, intentVars, boundVars, histVars
<1>9. CASE FetchIntent
  BY <1>0, <1>1, <1>9 DEF FetchIntent, AckInv, Settled, IntentFrame, kafkaVars, histVars
<1>10. CASE StopIntents \/ CheckHalt \/ ValidateIntent \/ CheckRisk \/ SaveRejected \/ SavePending
  BY <1>0, <1>10 DEF StopIntents, CheckHalt, ValidateIntent, CheckRisk, SaveRejected,
       SavePending, AfterRefusal, Goto, AckInv, Settled, IntentFrame, kafkaVars, histVars
<1>11. CASE LimiterWait
  BY <1>0, <1>11 DEF LimiterWait, ToFetch, Goto, AckInv, Settled, IntentFrame, kafkaVars, histVars
<1>12. CASE SubmitAccepted \/ SubmitRefused \/ SubmitTimesOut
  BY <1>0, <1>12 DEF SubmitAccepted, SubmitRefused, SubmitTimesOut, Goto, AckInv, Settled,
       IntentFrame, kafkaVars, boundVars, histVars
<1>13. CASE SubmitReturns
  BY <1>0, <1>1, <1>13 DEF SubmitReturns, Goto, AckInv, Settled, IntentFrame, kafkaVars
<1>14. CASE MarkFailed \/ StoreFailed
  BY <1>0, <1>14 DEF MarkFailed, StoreFailed, UpdateOrderState, StoreUpdate, Goto, AckInv,
       Settled, IntentFrame, kafkaVars, histVars
<1>15. CASE MarkSubmitted \/ StoreSubmitted
  BY <1>0, <1>15 DEF MarkSubmitted, StoreSubmitted, AfterAccepted, UpdateOrderState,
       StoreUpdate, Goto, AckInv, Settled, IntentFrame, kafkaVars, histVars
<1>16. CASE MarkFilled \/ StoreFilled \/ StoreRestCosts
  BY <1>0, <1>16 DEF MarkFilled, StoreFilled, StoreRestCosts, UpdateOrderState, StoreUpdate,
       Goto, AckInv, Settled, IntentFrame, kafkaVars, histVars
<1>17. CASE PublishRestFill
  <2>0. committed < pos /\ ipc = "publish"
    BY <1>17 DEF PublishRestFill, OffsetInv, AtRest
  <2>1. CASE topic' = topic \cup {resp} /\ Goto("commit")
    BY <1>0, <1>17, <2>0, <2>1 DEF PublishRestFill, Goto, AckInv, Settled, IntentFrame, histVars
  <2>2. CASE PublishFails(resp) /\ RetriesLeft(itry) /\ UNCHANGED <<ipc, resp, pos>> /\ itry' = itry + 1
    <3>1. faults' = faults + 1
      BY <2>2 DEF PublishFails, RetriesLeft, Fault
    <3> QED
      BY <1>0, <1>17, <2>0, <2>2, <3>1 DEF PublishRestFill, AckInv, Settled, IntentFrame, histVars
  <2>3. CASE PublishFails(resp) /\ ~RetriesLeft(itry) /\ ToFetch /\ UNCHANGED pos
    <3>1. CASE ~CtxAlive
      BY <1>0, <1>1, <1>17, <2>0, <2>3, <3>1 DEF PublishRestFill, ToFetch, AckInv, Settled,
        CtxAlive, IntentFrame, histVars
    <3>2. CASE CtxAlive
      <4>1. faults' = faults + 1 /\ itry >= PublishRetries
        BY <1>0, <2>3, <3>2 DEF PublishFails, RetriesLeft, Fault
      <4> QED
        BY <1>0, <1>17, <2>3, <4>1 DEF PublishRestFill, ToFetch, AckInv, IntentFrame, histVars
    <3> QED
      BY <3>1, <3>2
  <2> QED
    BY <1>17, <2>1, <2>2, <2>3 DEF PublishRestFill
<1>18. CASE CommitOffset
  BY <1>0, <1>19, <1>18 DEF CommitOffset, ToFetch, AckInv, Settled, IntentFrame, histVars
<1> QED
  BY <1>3, <1>4, <1>5, <1>6, <1>7, <1>20, <1>8, <1>9, <1>10, <1>11, <1>12, <1>13, <1>14,
     <1>15, <1>16, <1>17, <1>18 DEF Next, IntentsWorker, Shutdown, Environment

\* Unless more calls have failed than a publish is retried, no life of the
\* process moves the group offset past an intent whose REST answer reported a fill
\* before that fill is on the topic, also when a shutdown cuts the publish short.
\* (What a crash takes away, the next life does not publish: GatewayClaims.)
THEOREM AckedFillsArePublished ==
  Spec => [](faults <= PublishRetries => AckedFillPublished)
<1>1. Init => TypeInv /\ OffsetInv /\ AckInv
  BY TypeInit, OffsetInit, AckInit
<1>2. TypeInv /\ OffsetInv /\ AckInv /\ [Next]_vars => (TypeInv /\ OffsetInv /\ AckInv)'
  BY TypeStep, OffsetStep, AckStep
<1>3. TypeInv /\ OffsetInv /\ AckInv => (faults <= PublishRetries => AckedFillPublished)
  <2> SUFFICES ASSUME TypeInv, OffsetInv, AckInv, faults <= PublishRetries,
                      NEW r \in reported, r[3] = restarts, r[1] <= committed
               PROVE  r[2] \in topic
    BY DEF AckedFillPublished
  <2>1. r[1] \in Nat /\ committed \in Nat /\ pos \in Nat
    BY LogLength DEF TypeInv, TypeOK
  <2>2. Settled(r)
    BY DEF AckInv
  <2> QED
    BY <2>1, <2>2 DEF Settled, OffsetInv, AtRest, Carrying, WithResult
<1> QED
  BY <1>1, <1>2, <1>3, PTL DEF Spec
=============================================================================
