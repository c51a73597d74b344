--------------------------- MODULE GatewayTypeProofs ------------------------
(***************************************************************************)
(* Type correctness of Gateway, for every topic, set of orders, cap, retry   *)
(* count and bound.                                                         *)
(***************************************************************************)
EXTENDS Gateway, TLAPS

AtRest == {"off", "fetch", "stopped"}

\* What the control points say about the registers: a busy intents worker has
\* the order of the message it fetched last, a backfill is positive, and the
\* states on their way into the tracker are real ones.
Control ==
  /\ ipc \notin AtRest => pos \in 1..Len(Log) /\ cur \in Ids /\ cur = Log[pos]
  /\ rpc # "query" => rec.state \in OrderStates
  /\ rpc = "publish" => DeltaQty(rec) > 0
  /\ \A i \in DOMAIN chan : chan[i].status \in OrderStates
  /\ fpc = "store" => fill.status \in OrderStates
  /\ ~WorkersUp => ipc = "off" /\ fpc = "off" /\ conn = FALSE /\ chan = <<>>
                   /\ sent = [id \in Ids |-> 0]

TypeInv == TypeOK /\ Control

\* The constants of the model have their types; mapBinanceStatus only returns
\* life-cycle states.
LEMMA TypesOfOperators ==
  /\ \A s : MapBinanceStatus(s) \in OrderStates
  /\ NoFill \in Fill
  /\ NoAnswer \in Answer
  /\ NoRow \in Row
  /\ OrderStates \subseteq StatesOrAbsent
  /\ TerminalStates \subseteq OrderStates
  /\ Orders \subseteq Ids
BY DEF MapBinanceStatus, OrderStates, NoFill, Fill, NoAnswer, Answer, NoRow, Row,
       StatesOrAbsent, Absent, TerminalStates, Ids

\* The intents topic has a length.
LEMMA LogLength == Len(Log) \in Nat
BY LogAssumption

\* SaveOrder makes a table of a table.
LEMMA TypeOfSaveOrder ==
  ASSUME NEW table \in [Ids -> Row], NEW id, NEW state \in OrderStates
  PROVE  SaveOrder(table, id, state) \in [Ids -> Row]
BY DEF SaveOrder, Row, StatesOrAbsent

\* UpdateOrderState makes a table of a table.
LEMMA TypeOfUpdateRow ==
  ASSUME NEW table \in [Ids -> Row], NEW id, NEW state \in OrderStates, NEW q \in Nat
  PROVE  UpdateRow(table, id, state, q) \in [Ids -> Row]
BY DEF UpdateRow, Row, StatesOrAbsent

\* RecordFillCosts makes a table of a table.
LEMMA TypeOfRecordFillCosts ==
  ASSUME NEW table \in [Ids -> Row], NEW id, NEW fee \in Nat
  PROVE  RecordFillCosts(table, id, fee) \in [Ids -> Row]
BY DEF RecordFillCosts, Row, StatesOrAbsent

\* An execution leaves a well-formed order at the venue.
LEMMA TypeOfExecuted ==
  ASSUME NEW v \in VenueOrder, NEW q \in Nat, NEW size \in Nat
  PROVE  Executed(v, q, size) \in VenueOrder
BY DEF Executed, VenueOrder, VenueStatuses, ClosedStatuses

\* So does the acceptance of a new order.
LEMMA TypeOfNewOrder ==
  ASSUME NEW v \in VenueOrder
  PROVE  NewOrder(v) \in VenueOrder
BY DEF NewOrder, VenueOrder, VenueStatuses, Total

\* The suffixes of a trade are a number or a quantity.
LEMMA TypeOfTradeKeys ==
  ASSUME NEW v \in VenueOrder, NEW q \in Nat
  PROVE  TradeKeys(v, q) \subseteq Nat \X Nat
BY DEF TradeKeys, VenueOrder, Total

\* A fill made of a REST answer is well-formed.
LEMMA TypeOfRestFill ==
  ASSUME NEW id \in Ids, NEW v \in VenueOrder
  PROVE  RestFill(id, v) \in Fill
BY TypesOfOperators DEF RestFill, Fill, VenueOrder, Total

\* So is one made of an execution report, and it carries a life-cycle state.
LEMMA TypeOfStreamFill ==
  ASSUME NEW id \in Ids, NEW v \in VenueOrder, NEW q \in Nat, NEW key \in Nat \X Nat
  PROVE  /\ StreamFill(id, v, q, key) \in Fill
         /\ StreamFill(id, v, q, key).status \in OrderStates
BY TypesOfOperators DEF StreamFill, Fill, VenueOrder, Total

\* A backfill of a positive delta is well-formed.
LEMMA TypeOfReconcileFill ==
  ASSUME NEW r \in Answer, r.state \in OrderStates, DeltaQty(r) > 0
  PROVE  ReconcileFill(r) \in Fill
BY TypesOfOperators DEF ReconcileFill, Fill, Answer, DeltaQty

\* The strengthened type invariant holds at process start.
LEMMA TypeInit == Init => TypeInv
<1> SUFFICES ASSUME Init PROVE TypeInv
  OBVIOUS
<1>1. /\ venue \in [Ids -> VenueOrder]
      /\ db \in [Ids -> Row]
      /\ states \in [Ids -> StatesOrAbsent]
      /\ sent \in [Ids -> Nat]
  BY TypesOfOperators DEF Init, VenueOrder, StatesOrAbsent
<1>2. /\ rec \in Answer
      /\ resp \in Fill
      /\ fill \in Fill
      /\ chan \in Seq(Fill)
      /\ DOMAIN chan = {}
  BY TypesOfOperators DEF Init
<1>3. TypeOK
  <2>1. /\ committed \in 0..Len(Log)
        /\ pos \in 0..Len(Log)
        /\ itry \in 0..PublishRetries
        /\ ftry \in 0..PublishRetries
        /\ faults \in 0..MaxFaults
        /\ restarts \in 0..MaxRestarts
        /\ halts \in 0..MaxHalts
        /\ wqty \in Nat
        /\ haltSent \in Nat
    BY LogLength, BoundsAssumption DEF Init
  <2>2. phase \in Phases /\ ipc \in IntentPCs /\ fpc \in FillPCs
    BY DEF Init, Phases, IntentPCs, FillPCs
  <2> QED
    BY <1>1, <1>2, <2>1, <2>2 DEF Init, TypeOK
<1>4. Control
  BY <1>2 DEF Init, Control, AtRest, WorkersUp
<1> QED
  BY <1>3, <1>4 DEF TypeInv

\* A fault stays within the bound on faults.
LEMMA FaultOK ==
  ASSUME TypeOK, NEW kind, Fault(kind)
  PROVE  faults' \in 0..MaxFaults
BY BoundsAssumption DEF TypeOK, Fault

\* A store statement leaves a table, whether it succeeds or fails.
LEMMA StoreOK ==
  ASSUME TypeOK, NEW table \in [Ids -> Row], StoreWrite(table)
  PROVE  db' \in [Ids -> Row] /\ faults' \in 0..MaxFaults
BY FaultOK DEF TypeOK, StoreWrite

\* A failed publish adds nothing but the fill to the fills topic.
LEMMA PublishOK ==
  ASSUME TypeOK, NEW f \in Fill, PublishFails(f)
  PROVE  topic' \subseteq Fill /\ faults' \in 0..MaxFaults
BY FaultOK DEF TypeOK, PublishFails

\* AddOrder keeps the types of the tracker's maps.
LEMMA AddOrderOK ==
  ASSUME TypeOK, NEW id \in Ids, NEW s \in OrderStates, AddOrder(id, s)
  PROVE  states' \in [Ids -> StatesOrAbsent] /\ orders' \subseteq Ids
BY TypesOfOperators DEF TypeOK, AddOrder

\* lookupFilledQtyLocked returns a quantity.
LEMMA LookupType ==
  ASSUME NEW table \in [Ids -> Row], NEW id \in Ids
  PROVE  LookupFilledQty(table, id) \in Nat
BY DEF LookupFilledQty, Row

\* WithStore loads states and keys of the right types.
LEMMA PreloadOK ==
  ASSUME TypeOK
  PROVE  /\ [id \in Ids |-> Remembered(id)] \in [Ids -> StatesOrAbsent]
         /\ GetActiveOrders(db) \subseteq Ids
<1>1. \A id \in Ids : db[id].state \in StatesOrAbsent
  BY DEF TypeOK, Row
<1> QED
  BY <1>1 DEF TypeOK, Remembered, GetActiveOrders, StatesOrAbsent

\* Counting a submission keeps the history variables' types.
LEMMA CountOK ==
  ASSUME TypeOK, NEW id \in Ids, CountSubmission(id)
  PROVE  sent' \in [Ids -> Nat] /\ haltSent' \in Nat
<1>1. sent \in [Ids -> Nat] /\ haltSent \in Nat
  BY DEF TypeOK
<1> QED
  BY <1>1 DEF CountSubmission

\* Both branches of tracker.UpdateOrderState keep the types.
LEMMA UpdateOrderStateOK ==
  ASSUME TypeOK, cur \in Ids, NEW state \in OrderStates, NEW a, NEW b,
         UpdateOrderState(state, a, b)
  PROVE  /\ states' \in [Ids -> StatesOrAbsent]
         /\ wqty' \in Nat
         /\ faults' \in 0..MaxFaults
<1>1. LookupFilledQty(db, cur) \in Nat /\ Qty[cur] \in Nat
  BY LookupType, LogAssumption DEF TypeOK
<1>2. CASE states[cur] = state
  BY <1>2 DEF UpdateOrderState, TypeOK
<1>3. CASE states[cur] # state
  <2>1. states' \in [Ids -> StatesOrAbsent]
    BY <1>3, TypesOfOperators DEF UpdateOrderState, TypeOK
  <2>2. faults' \in 0..MaxFaults
    BY <1>3, FaultOK DEF UpdateOrderState, TypeOK
  <2>3. wqty' \in Nat
    BY <1>1, <1>3 DEF UpdateOrderState
  <2> QED
    BY <2>1, <2>2, <2>3
<1> QED
  BY <1>2, <1>3

\* A report on the stream appends a fill that carries a life-cycle state.
LEMMA ReportOK ==
  ASSUME TypeInv, NEW id \in Ids, NEW v \in VenueOrder, NEW q \in Nat, Report(id, v, q)
  PROVE  chan' \in Seq(Fill) /\ \A i \in DOMAIN chan' : chan'[i].status \in OrderStates
<1>1. chan \in Seq(Fill) /\ \A i \in DOMAIN chan : chan[i].status \in OrderStates
  BY DEF TypeInv, TypeOK, Control
<1>2. CASE chan' = chan
  BY <1>1, <1>2
<1>3. ASSUME NEW key \in Nat \X Nat, chan' = Append(chan, StreamFill(id, v, q, key))
      PROVE  chan' \in Seq(Fill) /\ \A i \in DOMAIN chan' : chan'[i].status \in OrderStates
  <2> DEFINE f == StreamFill(id, v, q, key)
  <2>1. f \in Fill /\ f.status \in OrderStates
    BY TypeOfStreamFill
  <2> HIDE DEF f
  <2> QED
    BY <1>1, <1>3, <2>1 DEF f
<1> QED
  BY <1>2, <1>3, TypeOfTradeKeys DEF Report

\* Every step keeps the strengthened type invariant.
LEMMA TypeStep == TypeInv /\ [Next]_vars => TypeInv'
<1> SUFFICES ASSUME TypeInv, [Next]_vars PROVE TypeInv'
  OBVIOUS
<1> USE DEF TypeInv, kafkaVars, trackerVars, recVars, intentVars, fillVars,
      streamVars, boundVars, histVars
<1>1. CASE Preload
  <2>1. /\ states' \in [Ids -> StatesOrAbsent]
        /\ orders' \subseteq Ids
        /\ todo' \subseteq Ids
        /\ faults' \in 0..MaxFaults
    BY <1>1, FaultOK, PreloadOK DEF Preload, TypeOK, trackerVars
  <2>2. TypeOK'
    <3>1. /\ phase' \in Phases
          /\ UNCHANGED <<kafkaVars, venue, db, halted, rpc, rec, intentVars, fillVars, streamVars,
                         restarts, halts, histVars>>
      BY <1>1 DEF Preload, Phases
    <3> QED
      BY <2>1, <3>1 DEF TypeOK
  <2>3. Control'
    BY <1>1, <2>1 DEF Preload, Control, AtRest, WorkersUp
  <2> QED
    BY <2>2, <2>3
<1>2. CASE \E o \in Ids : ReconcileQuery(o)
  <2> SUFFICES ASSUME NEW o \in Ids, ReconcileQuery(o) PROVE TypeInv'
    BY <1>2
  <2>1. faults' \in 0..MaxFaults /\ todo' \subseteq Ids
    BY FaultOK DEF ReconcileQuery, TypeOK
  <2>2. CASE UNCHANGED <<rpc, rec>>
    <3>1. TypeOK'
      BY <2>1, <2>2 DEF ReconcileQuery, TypeOK
    <3>2. Control'
      BY <2>2 DEF ReconcileQuery, Control, WorkersUp
    <3> QED
      BY <3>1, <3>2 DEF TypeInv
  <2>3. CASE ~UNCHANGED <<rpc, rec>>
    <3> DEFINE r == [order |-> o, state |-> MapBinanceStatus(venue[o].status),
                     exec |-> venue[o].exec, prev |-> db[o].filled,
                     upto |-> Total(venue[o])]
    <3>1. rec' = r /\ rpc' = (IF DeltaQty(r) > 0 THEN "publish" ELSE "sync")
      BY <2>3 DEF ReconcileQuery
    <3>2. r \in Answer /\ r.state \in OrderStates
      <4>1. venue[o] \in VenueOrder /\ db[o] \in Row
        BY DEF TypeOK
      <4> QED
        BY <4>1, TypesOfOperators DEF Answer, VenueOrder, Row, Total
    <3> HIDE DEF r
    <3>3. TypeOK'
      BY <2>1, <3>1, <3>2 DEF ReconcileQuery, TypeOK
    <3>4. Control'
      BY <3>1, <3>2 DEF ReconcileQuery, Control, WorkersUp
    <3> QED
      BY <3>3, <3>4 DEF TypeInv
  <2> QED
    BY <2>2, <2>3
<1>3. CASE ReconcilePublish
  <2>1. /\ topic' \subseteq Fill
        /\ faults' \in 0..MaxFaults
    BY <1>3, FaultOK, TypeOfReconcileFill DEF ReconcilePublish, TypeOK, Control
  <2>2. TypeOK'
    BY <1>3, <2>1 DEF ReconcilePublish, TypeOK
  <2>3. Control'
    BY <1>3, <2>1 DEF ReconcilePublish, Control, AtRest, WorkersUp
  <2> QED
    BY <2>2, <2>3
<1>4. CASE ReconcileSync
  <2>1. /\ rec.state \in OrderStates
        /\ rec.exec \in Nat
    BY <1>4 DEF ReconcileSync, TypeOK, Control, Answer
  <2>2. /\ db' \in [Ids -> Row]
        /\ faults' \in 0..MaxFaults
    BY <1>4, <2>1, TypeOfUpdateRow, StoreOK, FaultOK DEF ReconcileSync, TypeOK
  <2>3. /\ states' \in [Ids -> StatesOrAbsent]
        /\ rec' \in Answer
    BY <1>4, <2>1, TypesOfOperators DEF ReconcileSync, TypeOK
  <2>4. TypeOK'
    BY <1>4, <2>1, <2>2, <2>3 DEF ReconcileSync, TypeOK
  <2>5. Control'
    BY <1>4, <2>1, <2>2, <2>3 DEF ReconcileSync, Control, AtRest, WorkersUp
  <2> QED
    BY <2>4, <2>5
<1>5. CASE Start
  <2>1. TypeOK'
    BY <1>5 DEF Start, TypeOK, Phases, IntentPCs, FillPCs
  <2>2. Control'
    BY <1>5 DEF Start, Control, AtRest, WorkersUp
  <2> QED
    BY <2>1, <2>2
<1>6. CASE FetchIntent
  <2>1. /\ pos' \in 1..Len(Log)
        /\ Log[pos'] \in Ids \cup {Malformed}
    BY <1>6, LogLength, LogAssumption DEF FetchIntent, Parses, TypeOK
  <2>2. /\ ipc' \in IntentPCs
        /\ cur' \in Ids \cup {NoOrder}
    BY <1>6, <2>1 DEF FetchIntent, Parses, TypeOK, IntentPCs
  <2>3. TypeOK'
    <3>1. UNCHANGED <<resp, wqty, itry, kafkaVars, db, trackerVars, faults, histVars, venue, phase,
                      halted, recVars, fillVars, streamVars, restarts, halts>>
      BY <1>6 DEF FetchIntent, IntentFrame
    <3>2. pos' \in 0..Len(Log)
      BY <2>1, LogLength
    <3> QED
      BY <2>2, <3>1, <3>2 DEF TypeOK
  <2>4. Control'
    BY <1>6, <2>1, <2>2, LogLength DEF FetchIntent, Parses, IntentFrame, Goto, ToFetch, Control,
      AtRest, WorkersUp
  <2> QED
    BY <2>3, <2>4
<1>7. CASE StopIntents
  <2>1. ipc' \in IntentPCs
    BY <1>7 DEF StopIntents, Goto, IntentPCs
  <2>2. TypeOK'
    BY <1>7, <2>1 DEF StopIntents, IntentFrame, Goto, ToFetch, TypeOK
  <2>3. Control'
    BY <1>7, <2>1 DEF StopIntents, IntentFrame, Goto, ToFetch, Control, AtRest, WorkersUp
  <2> QED
    BY <2>2, <2>3
<1>8. CASE CheckHalt
  <2>0. cur \in Ids
    BY <1>8 DEF CheckHalt, Control, AtRest
  <2>1. /\ states' \in [Ids -> StatesOrAbsent]
        /\ orders' \subseteq Ids
        /\ ipc' \in IntentPCs
    BY <1>8, <2>0, AddOrderOK, TypesOfOperators DEF CheckHalt, Goto, IntentPCs,
      OrderStates, TypeOK, trackerVars
  <2>2. TypeOK'
    BY <1>8, <2>1 DEF CheckHalt, IntentFrame, Goto, ToFetch, TypeOK
  <2>3. Control'
    BY <1>8, <2>1 DEF CheckHalt, IntentFrame, Goto, ToFetch, Control, AtRest, WorkersUp
  <2> QED
    BY <2>2, <2>3
<1>9. CASE ValidateIntent
  <2>1. ipc' \in IntentPCs
    BY <1>9 DEF ValidateIntent, Goto, AfterRefusal, IntentPCs
  <2>2. TypeOK'
    BY <1>9, <2>1 DEF ValidateIntent, IntentFrame, Goto, ToFetch, TypeOK
  <2>3. Control'
    BY <1>9, <2>1 DEF ValidateIntent, IntentFrame, Goto, ToFetch, Control, AtRest,
      WorkersUp, AfterRefusal
  <2> QED
    BY <2>2, <2>3
<1>10. CASE CheckRisk
  <2>0. cur \in Ids
    BY <1>10 DEF CheckRisk, Control, AtRest
  <2>1. /\ states' \in [Ids -> StatesOrAbsent]
        /\ orders' \subseteq Ids
        /\ ipc' \in IntentPCs
        /\ faults' \in 0..MaxFaults
    BY <1>10, <2>0, AddOrderOK, FaultOK DEF CheckRisk, Goto, IntentPCs, OrderStates,
      TypeOK, trackerVars
  <2>2. TypeOK'
    BY <1>10, <2>1 DEF CheckRisk, IntentFrame, Goto, ToFetch, TypeOK
  <2>3. Control'
    BY <1>10, <2>1 DEF CheckRisk, IntentFrame, Goto, ToFetch, Control, AtRest, WorkersUp
  <2> QED
    BY <2>2, <2>3
<1>11. CASE SaveRejected
  <2>1. /\ db' \in [Ids -> Row]
        /\ faults' \in 0..MaxFaults
    BY <1>11, TypeOfSaveOrder, StoreOK DEF SaveRejected, OrderStates, TypeOK
  <2>2. ipc' \in IntentPCs
    BY <1>11 DEF SaveRejected, Goto, IntentPCs
  <2>3. TypeOK'
    BY <1>11, <2>1, <2>2 DEF SaveRejected, IntentFrame, Goto, ToFetch, TypeOK
  <2>4. Control'
    BY <1>11, <2>1, <2>2 DEF SaveRejected, IntentFrame, Goto, ToFetch, Control, AtRest,
      WorkersUp
  <2> QED
    BY <2>3, <2>4
<1>12. CASE LimiterWait
  <2>0. cur \in Ids
    BY <1>12 DEF LimiterWait, Control, AtRest
  <2>1. /\ states' \in [Ids -> StatesOrAbsent]
        /\ orders' \subseteq Ids
        /\ ipc' \in IntentPCs
        /\ cur' \in Ids \cup {NoOrder}
        /\ resp' \in Fill
        /\ wqty' \in Nat
        /\ itry' \in 0..PublishRetries
    <3>1. /\ UNCHANGED trackerVars \/ AddOrder(cur, "PENDING")
          /\ \/ ipc' = "savePending" /\ UNCHANGED <<cur, resp, wqty, itry>>
             \/ ToFetch
      BY <1>12 DEF LimiterWait, Goto
    <3>2. states' \in [Ids -> StatesOrAbsent] /\ orders' \subseteq Ids
      BY <2>0, <3>1, AddOrderOK DEF OrderStates, TypeOK, trackerVars
    <3>3. ipc' \in IntentPCs
      BY <3>1 DEF ToFetch, IntentPCs
    <3>4. 0 \in 0..PublishRetries
      BY BoundsAssumption
    <3>5. /\ cur \in Ids \cup {NoOrder} /\ resp \in Fill /\ wqty \in Nat
          /\ itry \in 0..PublishRetries /\ NoFill \in Fill
      BY TypesOfOperators DEF TypeOK
    <3>6. /\ cur' \in Ids \cup {NoOrder} /\ resp' \in Fill /\ wqty' \in Nat
          /\ itry' \in 0..PublishRetries
      BY <3>1, <3>4, <3>5 DEF ToFetch
    <3> QED
      BY <3>2, <3>3, <3>6
  <2>2. TypeOK'
    BY <1>12, <2>1 DEF LimiterWait, IntentFrame, Goto, ToFetch, TypeOK
  <2>3. Control'
    BY <1>12, <2>1 DEF LimiterWait, IntentFrame, Goto, ToFetch, Control, AtRest, WorkersUp
  <2> QED
    BY <2>2, <2>3
<1>13. CASE SavePending
  <2>1. /\ db' \in [Ids -> Row]
        /\ faults' \in 0..MaxFaults
    BY <1>13, TypeOfSaveOrder, StoreOK DEF SavePending, OrderStates, TypeOK
  <2>2. ipc' \in IntentPCs
    BY <1>13 DEF SavePending, Goto, IntentPCs
  <2>3. TypeOK'
    BY <1>13, <2>1, <2>2 DEF SavePending, IntentFrame, Goto, ToFetch, TypeOK
  <2>4. Control'
    BY <1>13, <2>1, <2>2 DEF SavePending, IntentFrame, Goto, ToFetch, Control, AtRest,
      WorkersUp
  <2> QED
    BY <2>3, <2>4
<1>14. CASE SubmitAccepted
  <2>0. cur \in Ids /\ venue[cur] \in VenueOrder /\ Qty[cur] \in Nat
    BY <1>14, LogAssumption DEF SubmitAccepted, TypeOK, Control, AtRest
  <2>1. PICK q \in 0..Qty[cur] :
          LET v == Executed(NewOrder(venue[cur]), q, Qty[cur])
          IN  /\ venue' = [venue EXCEPT ![cur] = v]
              /\ Report(cur, v, q)
              /\ resp' = RestFill(cur, v)
    BY <1>14 DEF SubmitAccepted
  <2> DEFINE v == Executed(NewOrder(venue[cur]), q, Qty[cur])
  <2>2. v \in VenueOrder /\ q \in Nat
    BY <2>0, <2>1, TypeOfNewOrder, TypeOfExecuted
  <2>3. venue' = [venue EXCEPT ![cur] = v] /\ Report(cur, v, q) /\ resp' = RestFill(cur, v)
    BY <2>1
  <2> HIDE DEF v
  <2>4. /\ venue' \in [Ids -> VenueOrder]
        /\ resp' \in Fill
        /\ sent' \in [Ids -> Nat]
        /\ haltSent' \in Nat
    <3>1. venue' \in [Ids -> VenueOrder]
      BY <2>0, <2>2, <2>3 DEF TypeOK
    <3>2. resp' \in Fill
      BY <2>0, <2>2, <2>3, TypeOfRestFill
    <3>3. CountSubmission(cur)
      BY <1>14 DEF SubmitAccepted
    <3>4. sent' \in [Ids -> Nat] /\ haltSent' \in Nat
      BY <2>0, <3>3, CountOK
    <3> QED
      BY <3>1, <3>2, <3>4
  <2>5. chan' \in Seq(Fill) /\ \A i \in DOMAIN chan' : chan'[i].status \in OrderStates
    BY <2>0, <2>2, <2>3, ReportOK
  <2>6. TypeOK'
    BY <1>14, <2>4, <2>5 DEF SubmitAccepted, TypeOK, IntentPCs
  <2>7. Control'
    BY <1>14, <2>5 DEF SubmitAccepted, Control, AtRest, WorkersUp
  <2> QED
    BY <2>6, <2>7 DEF TypeInv
<1>15. CASE SubmitRefused
  <2>0. cur \in Ids
    BY <1>15 DEF SubmitRefused, Control, AtRest
  <2>1. /\ sent' \in [Ids -> Nat]
        /\ haltSent' \in Nat
    BY <1>15, <2>0, CountOK DEF SubmitRefused, TypeOK
  <2>2. ipc' \in IntentPCs
    BY <1>15 DEF SubmitRefused, Goto, IntentPCs
  <2>3. TypeOK'
    BY <1>15, <2>1, <2>2 DEF SubmitRefused, IntentFrame, Goto, ToFetch, TypeOK
  <2>4. Control'
    BY <1>15, <2>1, <2>2 DEF SubmitRefused, IntentFrame, Goto, ToFetch, Control, AtRest,
      WorkersUp
  <2> QED
    BY <2>3, <2>4
<1>16. CASE SubmitReturns
  <2>1. pos \in 1..Len(Log)
    BY <1>16 DEF SubmitReturns, Control, AtRest
  <2>2. reported' \subseteq (1..Len(Log)) \X Fill \X (0..MaxRestarts)
    <3>1. /\ reported \subseteq (1..Len(Log)) \X Fill \X (0..MaxRestarts)
          /\ resp \in Fill /\ restarts \in 0..MaxRestarts
      BY DEF TypeOK
    <3> QED
      BY <1>16, <2>1, <3>1 DEF SubmitReturns
  <2>3. ipc' \in IntentPCs
    BY <1>16 DEF SubmitReturns, Goto, IntentPCs
  <2>4. TypeOK'
    BY <1>16, <2>1, <2>2, <2>3 DEF SubmitReturns, IntentFrame, Goto, ToFetch, TypeOK
  <2>5. Control'
    BY <1>16, <2>1, <2>2, <2>3 DEF SubmitReturns, IntentFrame, Goto, ToFetch, Control,
      AtRest, WorkersUp
  <2> QED
    BY <2>4, <2>5
<1>17. CASE SubmitTimesOut
  <2>1. /\ faults' \in 0..MaxFaults
        /\ resp' \in Fill
        /\ ipc' \in IntentPCs
    BY <1>17, FaultOK, TypesOfOperators DEF SubmitTimesOut, TypeOK, IntentPCs
  <2>2. TypeOK'
    BY <1>17, <2>1 DEF SubmitTimesOut, IntentFrame, Goto, ToFetch, TypeOK
  <2>3. Control'
    BY <1>17, <2>1 DEF SubmitTimesOut, IntentFrame, Goto, ToFetch, Control, AtRest,
      WorkersUp
  <2> QED
    BY <2>2, <2>3
<1>18. CASE MarkFailed
  <2>0. cur \in Ids
    BY <1>18 DEF MarkFailed, Control, AtRest
  <2>1. /\ states' \in [Ids -> StatesOrAbsent]
        /\ wqty' \in Nat
        /\ faults' \in 0..MaxFaults
    BY <1>18, <2>0, UpdateOrderStateOK DEF MarkFailed, OrderStates
  <2>2. ipc' \in IntentPCs
    BY <1>18 DEF MarkFailed, UpdateOrderState, AfterAccepted, IntentPCs
  <2>3. TypeOK'
    BY <1>18, <2>1, <2>2 DEF MarkFailed, IntentFrame, Goto, ToFetch, UpdateOrderState,
      TypeOK
  <2>4. Control'
    BY <1>18, <2>1, <2>2 DEF MarkFailed, IntentFrame, Goto, ToFetch, UpdateOrderState,
      Control, AtRest, WorkersUp
  <2> QED
    BY <2>3, <2>4
<1>19. CASE StoreFailed
  <2>1. /\ db' \in [Ids -> Row]
        /\ faults' \in 0..MaxFaults
    BY <1>19, TypeOfUpdateRow, StoreOK DEF StoreFailed, StoreUpdate, OrderStates, TypeOK
  <2>2. ipc' \in IntentPCs
    BY <1>19 DEF StoreFailed, StoreUpdate, Goto, AfterAccepted, IntentPCs
  <2>3. TypeOK'
    BY <1>19, <2>1, <2>2 DEF StoreFailed, IntentFrame, Goto, ToFetch, StoreUpdate, TypeOK
  <2>4. Control'
    BY <1>19, <2>1, <2>2 DEF StoreFailed, IntentFrame, Goto, ToFetch, StoreUpdate,
      Control, AtRest, WorkersUp
  <2> QED
    BY <2>3, <2>4
<1>20. CASE MarkSubmitted
  <2>0. cur \in Ids
    BY <1>20 DEF MarkSubmitted, Control, AtRest
  <2>1. /\ states' \in [Ids -> StatesOrAbsent]
        /\ wqty' \in Nat
        /\ faults' \in 0..MaxFaults
    BY <1>20, <2>0, UpdateOrderStateOK DEF MarkSubmitted, OrderStates
  <2>2. ipc' \in IntentPCs
    BY <1>20 DEF MarkSubmitted, UpdateOrderState, AfterAccepted, IntentPCs
  <2>3. TypeOK'
    BY <1>20, <2>1, <2>2 DEF MarkSubmitted, IntentFrame, Goto, ToFetch, UpdateOrderState,
      TypeOK
  <2>4. Control'
    BY <1>20, <2>1, <2>2 DEF MarkSubmitted, IntentFrame, Goto, ToFetch, UpdateOrderState,
      Control, AtRest, WorkersUp, AfterAccepted
  <2> QED
    BY <2>3, <2>4
<1>21. CASE StoreSubmitted
  <2>1. /\ db' \in [Ids -> Row]
        /\ faults' \in 0..MaxFaults
    BY <1>21, TypeOfUpdateRow, StoreOK DEF StoreSubmitted, StoreUpdate, OrderStates, TypeOK
  <2>2. ipc' \in IntentPCs
    BY <1>21 DEF StoreSubmitted, StoreUpdate, Goto, AfterAccepted, IntentPCs
  <2>3. TypeOK'
    BY <1>21, <2>1, <2>2 DEF StoreSubmitted, IntentFrame, Goto, ToFetch, StoreUpdate, TypeOK
  <2>4. Control'
    BY <1>21, <2>1, <2>2 DEF StoreSubmitted, IntentFrame, Goto, ToFetch, StoreUpdate,
      Control, AtRest, WorkersUp, AfterAccepted
  <2> QED
    BY <2>3, <2>4
<1>22. CASE MarkFilled
  <2>0. cur \in Ids
    BY <1>22 DEF MarkFilled, Control, AtRest
  <2>1. /\ states' \in [Ids -> StatesOrAbsent]
        /\ wqty' \in Nat
        /\ faults' \in 0..MaxFaults
    BY <1>22, <2>0, UpdateOrderStateOK DEF MarkFilled, OrderStates
  <2>2. ipc' \in IntentPCs
    BY <1>22 DEF MarkFilled, UpdateOrderState, AfterAccepted, IntentPCs
  <2>3. TypeOK'
    BY <1>22, <2>1, <2>2 DEF MarkFilled, IntentFrame, Goto, ToFetch, UpdateOrderState,
      TypeOK
  <2>4. Control'
    BY <1>22, <2>1, <2>2 DEF MarkFilled, IntentFrame, Goto, ToFetch, UpdateOrderState,
      Control, AtRest, WorkersUp
  <2> QED
    BY <2>3, <2>4
<1>23. CASE StoreFilled
  <2>1. /\ db' \in [Ids -> Row]
        /\ faults' \in 0..MaxFaults
    BY <1>23, TypeOfUpdateRow, StoreOK DEF StoreFilled, StoreUpdate, OrderStates, TypeOK
  <2>2. ipc' \in IntentPCs
    BY <1>23 DEF StoreFilled, StoreUpdate, Goto, AfterAccepted, IntentPCs
  <2>3. TypeOK'
    BY <1>23, <2>1, <2>2 DEF StoreFilled, IntentFrame, Goto, ToFetch, StoreUpdate, TypeOK
  <2>4. Control'
    BY <1>23, <2>1, <2>2 DEF StoreFilled, IntentFrame, Goto, ToFetch, StoreUpdate,
      Control, AtRest, WorkersUp
  <2> QED
    BY <2>3, <2>4
<1>24. CASE StoreRestCosts
  <2>1. Commission(resp) \in Nat
    BY <1>24 DEF TypeOK, Fill, Commission
  <2>2. /\ db' \in [Ids -> Row]
        /\ faults' \in 0..MaxFaults
    BY <1>24, <2>1, TypeOfRecordFillCosts, StoreOK DEF StoreRestCosts, TypeOK
  <2>3. ipc' \in IntentPCs
    BY <1>24 DEF StoreRestCosts, Goto, IntentPCs
  <2>4. TypeOK'
    BY <1>24, <2>1, <2>2, <2>3 DEF StoreRestCosts, IntentFrame, Goto, ToFetch, TypeOK
  <2>5. Control'
    BY <1>24, <2>1, <2>2, <2>3 DEF StoreRestCosts, IntentFrame, Goto, ToFetch, Control,
      AtRest, WorkersUp
  <2> QED
    BY <2>4, <2>5
<1>25. CASE PublishRestFill
  <2>1. /\ topic' \subseteq Fill
        /\ faults' \in 0..MaxFaults
    BY <1>25, PublishOK DEF PublishRestFill, TypeOK
  <2>2. /\ ipc' \in IntentPCs
        /\ cur' \in Ids \cup {NoOrder}
        /\ resp' \in Fill
        /\ wqty' \in Nat
        /\ itry' \in 0..PublishRetries
    BY <1>25, BoundsAssumption, TypesOfOperators DEF PublishRestFill, Goto, ToFetch,
      RetriesLeft, TypeOK, IntentPCs
  <2>3. TypeOK'
    BY <1>25, <2>1, <2>2 DEF PublishRestFill, IntentFrame, Goto, ToFetch, TypeOK
  <2>4. Control'
    BY <1>25, <2>1, <2>2 DEF PublishRestFill, IntentFrame, Goto, ToFetch, Control,
      AtRest, WorkersUp
  <2> QED
    BY <2>3, <2>4
<1>26. CASE CommitOffset
  <2>1. /\ faults' \in 0..MaxFaults
        /\ committed' \in 0..Len(Log)
    BY <1>26, FaultOK DEF CommitOffset, CommittedOffset, TypeOK
  <2>2. /\ ipc' \in IntentPCs
        /\ cur' \in Ids \cup {NoOrder}
        /\ resp' \in Fill
        /\ wqty' \in Nat
        /\ itry' \in 0..PublishRetries
    BY <1>26, BoundsAssumption, TypesOfOperators DEF CommitOffset, ToFetch, TypeOK,
      IntentPCs
  <2>3. TypeOK'
    BY <1>26, <2>1, <2>2 DEF CommitOffset, IntentFrame, Goto, ToFetch, TypeOK
  <2>4. Control'
    BY <1>26, <2>1, <2>2 DEF CommitOffset, IntentFrame, Goto, ToFetch, Control, AtRest,
      WorkersUp
  <2> QED
    BY <2>3, <2>4
<1>27. CASE ReceiveFill
  <2>1. /\ fill' \in Fill
        /\ chan' \in Seq(Fill)
        /\ fill'.status \in OrderStates
        /\ \A i \in DOMAIN chan' : chan'[i].status \in OrderStates
    <3>1. /\ chan \in Seq(Fill) /\ chan # <<>> /\ fill' = Head(chan) /\ chan' = Tail(chan)
          /\ \A i \in DOMAIN chan : chan[i].status \in OrderStates
      BY <1>27 DEF ReceiveFill, TypeOK, Control
    <3>2. Len(chan) \in Nat \ {0} /\ DOMAIN chan = 1..Len(chan)
      BY <3>1
    <3>3. fill' = chan[1] /\ 1 \in DOMAIN chan /\ fill' \in Fill
      BY <3>1, <3>2
    <3>4. /\ chan' \in Seq(Fill) /\ DOMAIN chan' = 1..(Len(chan) - 1)
          /\ \A i \in DOMAIN chan' : chan'[i] = chan[i + 1] /\ i + 1 \in DOMAIN chan
      BY <3>1, <3>2
    <3> QED
      BY <3>1, <3>3, <3>4
  <2>2. /\ states' \in [Ids -> StatesOrAbsent]
        /\ fpc' \in FillPCs
    BY <1>27, <2>1, TypesOfOperators DEF ReceiveFill, TypeOK, FillPCs
  <2>3. TypeOK'
    BY <1>27, <2>1, <2>2 DEF ReceiveFill, FillFrame, TypeOK
  <2>4. Control'
    BY <1>27, <2>1, <2>2 DEF ReceiveFill, FillFrame, Control, AtRest, WorkersUp
  <2> QED
    BY <2>3, <2>4
<1>28. CASE StoreFill
  <2>1. /\ fill.status \in OrderStates
        /\ fill.qty \in Nat
    BY <1>28 DEF StoreFill, TypeOK, Control, Fill
  <2>2. /\ db' \in [Ids -> Row]
        /\ faults' \in 0..MaxFaults
    BY <1>28, <2>1, TypeOfUpdateRow, StoreOK DEF StoreFill, TypeOK
  <2>3. fpc' \in FillPCs
    BY <1>28 DEF StoreFill, FillPCs
  <2>4. TypeOK'
    BY <1>28, <2>1, <2>2, <2>3 DEF StoreFill, FillFrame, TypeOK
  <2>5. Control'
    BY <1>28, <2>1, <2>2, <2>3 DEF StoreFill, FillFrame, Control, AtRest, WorkersUp
  <2> QED
    BY <2>4, <2>5
<1>29. CASE StoreFillCosts
  <2>1. Commission(fill) \in Nat
    BY <1>29 DEF TypeOK, Fill, Commission
  <2>2. /\ db' \in [Ids -> Row]
        /\ faults' \in 0..MaxFaults
    BY <1>29, <2>1, TypeOfRecordFillCosts, StoreOK DEF StoreFillCosts, TypeOK
  <2>3. fpc' \in FillPCs
    BY <1>29 DEF StoreFillCosts, FillPCs
  <2>4. TypeOK'
    BY <1>29, <2>1, <2>2, <2>3 DEF StoreFillCosts, FillFrame, TypeOK
  <2>5. Control'
    BY <1>29, <2>1, <2>2, <2>3 DEF StoreFillCosts, FillFrame, Control, AtRest, WorkersUp
  <2> QED
    BY <2>4, <2>5
<1>30. CASE PublishStreamFill
  <2>1. /\ topic' \subseteq Fill
        /\ faults' \in 0..MaxFaults
    BY <1>30, PublishOK DEF PublishStreamFill, TypeOK
  <2>2. /\ fpc' \in FillPCs
        /\ fill' \in Fill
        /\ ftry' \in 0..PublishRetries
    BY <1>30, BoundsAssumption, TypesOfOperators DEF PublishStreamFill, RetriesLeft,
      TypeOK, FillPCs
  <2>3. TypeOK'
    BY <1>30, <2>1, <2>2 DEF PublishStreamFill, FillFrame, TypeOK
  <2>4. Control'
    BY <1>30, <2>1, <2>2 DEF PublishStreamFill, FillFrame, Control, AtRest, WorkersUp
  <2> QED
    BY <2>3, <2>4
<1>31. CASE StopFills
  <2>1. fpc' \in FillPCs
    BY <1>31 DEF StopFills, FillPCs
  <2>2. TypeOK'
    BY <1>31, <2>1 DEF StopFills, FillFrame, TypeOK
  <2>3. Control'
    BY <1>31, <2>1 DEF StopFills, FillFrame, Control, AtRest, WorkersUp
  <2> QED
    BY <2>2, <2>3
<1>32. CASE StreamConnect
  <2>1. TypeOK'
    BY <1>32 DEF StreamConnect, StreamFrame, TypeOK
  <2>2. Control'
    BY <1>32 DEF StreamConnect, StreamFrame, Control, AtRest, WorkersUp
  <2> QED
    BY <2>1, <2>2
<1>33. CASE StreamDrop
  <2>1. faults' \in 0..MaxFaults
    BY <1>33, FaultOK DEF StreamDrop
  <2>2. TypeOK'
    BY <1>33, <2>1 DEF StreamDrop, StreamFrame, TypeOK
  <2>3. Control'
    BY <1>33, <2>1 DEF StreamDrop, StreamFrame, Control, AtRest, WorkersUp
  <2> QED
    BY <2>2, <2>3
<1>34. CASE \E o \in Orders : VenueTrade(o)
  <2> SUFFICES ASSUME NEW o \in Orders, VenueTrade(o) PROVE TypeInv'
    BY <1>34
  <2>0. o \in Ids /\ venue[o] \in VenueOrder /\ Qty[o] \in Nat /\ venue[o].exec \in Nat
    BY LogAssumption DEF TypeOK, Ids, VenueOrder
  <2>1. PICK q \in 1..(Qty[o] - venue[o].exec) :
          LET v == Executed(venue[o], q, Qty[o])
          IN  venue' = [venue EXCEPT ![o] = v] /\ Report(o, v, q)
    BY DEF VenueTrade
  <2> DEFINE v == Executed(venue[o], q, Qty[o])
  <2>2. v \in VenueOrder /\ q \in Nat
    BY <2>0, <2>1, TypeOfExecuted
  <2>3. venue' = [venue EXCEPT ![o] = v] /\ Report(o, v, q)
    BY <2>1
  <2> HIDE DEF v
  <2>4. venue' \in [Ids -> VenueOrder]
    BY <2>2, <2>3 DEF TypeOK
  <2>5. chan' \in Seq(Fill) /\ \A i \in DOMAIN chan' : chan'[i].status \in OrderStates
    BY <2>0, <2>2, <2>3, ReportOK
  <2>6. TypeOK'
    BY <2>4, <2>5 DEF VenueTrade, StreamFrame, TypeOK
  <2>7. Control'
    BY <2>3, <2>5 DEF VenueTrade, StreamFrame, Control, WorkersUp, Report
  <2> QED
    BY <2>6, <2>7 DEF TypeInv
<1>35. CASE \E o \in Orders : VenueCancel(o)
  <2> SUFFICES ASSUME NEW o \in Orders, VenueCancel(o) PROVE TypeInv'
    BY <1>35
  <2>1. venue' \in [Ids -> VenueOrder]
    <3>1. o \in Ids /\ venue \in [Ids -> VenueOrder]
      BY TypesOfOperators DEF TypeOK
    <3>2. PICK s \in ClosedStatuses : venue' = [venue EXCEPT ![o].status = s]
      BY DEF VenueCancel
    <3>3. [venue[o] EXCEPT !.status = s] \in VenueOrder
      BY <3>1 DEF VenueOrder, VenueStatuses
    <3>4. venue' = [venue EXCEPT ![o] = [venue[o] EXCEPT !.status = s]]
      BY <3>1, <3>2
    <3> QED
      BY <3>1, <3>3, <3>4
  <2>2. TypeOK'
    BY <2>1 DEF VenueCancel, StreamFrame, TypeOK
  <2>3. Control'
    BY DEF VenueCancel, StreamFrame, Control, WorkersUp
  <2> QED
    BY <2>2, <2>3 DEF TypeInv
<1>36. CASE SetHalt
  <2>1. TypeOK'
    BY <1>36, BoundsAssumption DEF SetHalt, OperatorFrame, TypeOK, Phases, IntentPCs,
      FillPCs
  <2>2. Control'
    BY <1>36 DEF SetHalt, OperatorFrame, Control, AtRest, WorkersUp
  <2> QED
    BY <2>1, <2>2
<1>37. CASE ClearHalt
  <2>1. TypeOK'
    BY <1>37 DEF ClearHalt, OperatorFrame, TypeOK
  <2>2. Control'
    BY <1>37 DEF ClearHalt, OperatorFrame, Control, AtRest, WorkersUp
  <2> QED
    BY <2>1, <2>2
<1>38. CASE Sigterm
  <2>1. TypeOK'
    <3>1. phase' \in Phases
      BY <1>38 DEF Sigterm, Phases
    <3> QED
      BY <1>38, <3>1 DEF Sigterm, OperatorFrame, TypeOK
  <2>2. Control'
    BY <1>38 DEF Sigterm, OperatorFrame, Control, AtRest, WorkersUp
  <2> QED
    BY <2>1, <2>2
<1>39. CASE CancelRoot
  <2>1. TypeOK'
    <3>1. phase' \in Phases
      BY <1>39 DEF CancelRoot, Phases
    <3> QED
      BY <1>39, <3>1 DEF CancelRoot, OperatorFrame, TypeOK
  <2>2. Control'
    BY <1>39 DEF CancelRoot, OperatorFrame, Control, AtRest, WorkersUp
  <2> QED
    BY <2>1, <2>2
<1>40. CASE Exit
  <2>1. /\ states' \in [Ids -> StatesOrAbsent]
        /\ sent' \in [Ids -> Nat]
        /\ rec' \in Answer
        /\ resp' \in Fill
        /\ fill' \in Fill
        /\ chan' \in Seq(Fill)
        /\ DOMAIN chan' = {}
    BY <1>40, TypesOfOperators DEF Exit, LoseMemory, StatesOrAbsent
  <2>2. /\ itry' \in 0..PublishRetries
        /\ ftry' \in 0..PublishRetries
        /\ pos' \in 0..Len(Log)
        /\ restarts' \in 0..MaxRestarts
    BY <1>40, BoundsAssumption DEF Exit, LoseMemory, TypeOK
  <2>3. phase' \in Phases /\ ipc' \in IntentPCs /\ fpc' \in FillPCs
    BY <1>40 DEF Exit, LoseMemory, Phases, IntentPCs, FillPCs
  <2>4. TypeOK'
    BY <1>40, <2>1, <2>2, <2>3 DEF Exit, LoseMemory, TypeOK
  <2>5. Control'
    BY <1>40, <2>1 DEF Exit, LoseMemory, Control, AtRest
  <2> QED
    BY <2>4, <2>5 DEF TypeInv
<1>41. CASE Restart
  <2>1. TypeOK'
    BY <1>41, BoundsAssumption DEF Restart, TypeOK, Phases, IntentPCs, FillPCs
  <2>2. Control'
    BY <1>41 DEF Restart, Control, AtRest, WorkersUp
  <2> QED
    BY <2>1, <2>2
<1>42. CASE Crash
  <2>1. /\ states' \in [Ids -> StatesOrAbsent]
        /\ sent' \in [Ids -> Nat]
        /\ rec' \in Answer
        /\ resp' \in Fill
        /\ fill' \in Fill
        /\ chan' \in Seq(Fill)
        /\ DOMAIN chan' = {}
    BY <1>42, TypesOfOperators DEF Crash, LoseMemory, StatesOrAbsent
  <2>2. /\ itry' \in 0..PublishRetries
        /\ ftry' \in 0..PublishRetries
        /\ pos' \in 0..Len(Log)
        /\ restarts' \in 0..MaxRestarts
    BY <1>42, BoundsAssumption DEF Crash, LoseMemory, TypeOK
  <2>3. phase' \in Phases /\ ipc' \in IntentPCs /\ fpc' \in FillPCs
    BY <1>42 DEF Crash, LoseMemory, Phases, IntentPCs, FillPCs
  <2>4. TypeOK'
    BY <1>42, <2>1, <2>2, <2>3 DEF Crash, LoseMemory, TypeOK
  <2>5. Control'
    BY <1>42, <2>1 DEF Crash, LoseMemory, Control, AtRest
  <2> QED
    BY <2>4, <2>5 DEF TypeInv
<1>43. CASE Idle
  <2>1. TypeOK'
    BY <1>43 DEF Idle, vars, TypeOK
  <2>2. Control'
    BY <1>43 DEF Idle, vars, Control, AtRest, WorkersUp
  <2> QED
    BY <2>1, <2>2
<1>44. CASE UNCHANGED vars
  <2>1. TypeOK'
    BY <1>44 DEF vars, TypeOK
  <2>2. Control'
    BY <1>44 DEF vars, Control, WorkersUp
  <2> QED
    BY <2>1, <2>2
<1> QED
  BY <1>1, <1>2, <1>3, <1>4, <1>5, <1>6, <1>7, <1>8, <1>9, <1>10, <1>11, <1>12, <1>13,
      <1>14, <1>15, <1>16, <1>17, <1>18, <1>19, <1>20, <1>21, <1>22, <1>23, <1>24, <1>25,
      <1>26, <1>27, <1>28, <1>29, <1>30, <1>31, <1>32, <1>33, <1>34, <1>35, <1>36, <1>37,
      <1>38, <1>39, <1>40, <1>41, <1>42, <1>43, <1>44
  DEF Next, Boot, IntentsWorker, FillsWorker, Shutdown, Environment

\* The type invariant of Gateway holds in every reachable state, whatever the
\* topic, the orders and the bounds.
THEOREM TypeCorrect == Spec => []TypeOK
<1>1. Spec => []TypeInv
  BY TypeInit, TypeStep, PTL DEF Spec
<1> QED
  BY <1>1, PTL DEF TypeInv

-----------------------------------------------------------------------------
(* The consumer's position and the group offset.                            *)

\* The group offset never runs ahead of what was fetched, and the message in
\* hand is not committed yet.
OffsetInv ==
  /\ committed <= pos
  /\ ipc \notin AtRest => committed < pos

\* At first nothing is fetched or committed.
LEMMA OffsetInit == Init => OffsetInv
BY DEF Init, OffsetInv, AtRest

\* Every step keeps this: only CommitOffset moves the offset, to the message in
\* hand, and a process that loses its memory resumes at the offset.
LEMMA OffsetStep ==
  ASSUME TypeInv, OffsetInv, [Next]_vars
  PROVE  OffsetInv'
<1> USE DEF OffsetInv, AtRest
<1>0. committed \in Nat /\ pos \in Nat
  BY LogLength DEF TypeInv, TypeOK
<1>1. CASE FetchIntent
  BY <1>0, <1>1 DEF FetchIntent, kafkaVars
<1>2. CASE CommitOffset
  BY <1>0, <1>2 DEF CommitOffset, CommittedOffset, ToFetch
<1>3. CASE \/ StopIntents \/ CheckHalt \/ ValidateIntent \/ CheckRisk \/ SaveRejected
           \/ LimiterWait \/ SavePending \/ SubmitAccepted \/ SubmitRefused
  BY <1>3 DEF StopIntents, CheckHalt, ValidateIntent, CheckRisk, SaveRejected, LimiterWait,
              SavePending, SubmitAccepted, SubmitRefused, Goto, ToFetch, kafkaVars
<1>4. CASE \/ SubmitReturns \/ SubmitTimesOut \/ MarkFailed \/ StoreFailed \/ MarkSubmitted
           \/ StoreSubmitted \/ MarkFilled \/ StoreFilled \/ StoreRestCosts \/ PublishRestFill
  BY <1>4 DEF SubmitReturns, SubmitTimesOut, MarkFailed, StoreFailed, MarkSubmitted,
              StoreSubmitted, MarkFilled, StoreFilled, StoreRestCosts, PublishRestFill,
              UpdateOrderState, StoreUpdate, Goto, ToFetch, kafkaVars
<1>5. CASE Boot
  BY <1>5 DEF Boot, Preload, ReconcileQuery, ReconcilePublish, ReconcileSync, Start,
              kafkaVars, intentVars
<1>6. CASE FillsWorker
  BY <1>6 DEF FillsWorker, ReceiveFill, StoreFill, StoreFillCosts, PublishStreamFill,
              StopFills, FillFrame, intentVars
<1>7. CASE StreamConnect \/ StreamDrop \/ \E o \in Orders : VenueTrade(o) \/ VenueCancel(o)
  BY <1>7 DEF StreamConnect, StreamDrop, VenueTrade, VenueCancel, StreamFrame, kafkaVars, intentVars
<1>8. CASE Sigterm \/ SetHalt \/ ClearHalt \/ CancelRoot
  BY <1>8 DEF Sigterm, SetHalt, ClearHalt, CancelRoot, OperatorFrame, kafkaVars, intentVars
<1>9. CASE Exit \/ Crash
  BY <1>0, <1>9 DEF Exit, Crash, LoseMemory, kafkaVars
<1>10. CASE Restart \/ Idle \/ UNCHANGED vars
  BY <1>10 DEF Restart, Idle, vars, kafkaVars, intentVars
<1> QED
  BY <1>1, <1>2, <1>3, <1>4, <1>5, <1>6, <1>7, <1>8, <1>9, <1>10
     DEF Next, IntentsWorker, Shutdown, Environment
=============================================================================
