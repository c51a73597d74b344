------------------------- MODULE GatewayLedgerProofs -------------------------
(***************************************************************************)
(* The orders table as a ledger, with a store whose statements succeed: no   *)
(* more orders reach the venue than the daily caps allow, and, as long as    *)
(* nobody shuts the process down, Gateway implements IntentLedger.  Its      *)
(* intents are recorded before they are acted upon or acknowledged.          *)
(***************************************************************************)
EXTENDS GatewaySafetyProofs, FiniteSetTheorems

-----------------------------------------------------------------------------
(* Which rows a step can bring about.                                       *)

\* The control points at which the intents worker inserts a row.
Inserting == {"saveRejected", "savePending"}

\* The INSERT adds the order's row; with a reliable store it does so whenever
\* the context is alive.
LEMMA RowsAfterSave ==
  ASSUME db \in [Ids -> Row], NEW id \in Ids, NEW state \in OrderStates,
         StoreWrite(SaveOrder(db, id, state))
  PROVE  /\ Rows(db') \in {Rows(db), Rows(db) \cup {id}}
         /\ StoreReliable /\ CtxAlive => Rows(db') = Rows(db) \cup {id}
<1> DEFINE table == SaveOrder(db, id, state)
<1>1. /\ table \in [Ids -> Row] /\ table[id].state = state
      /\ \A o \in Ids : o # id => table[o] = db[o]
  BY DEF SaveOrder, Row, StatesOrAbsent
<1>2. state # Absent
  BY DEF OrderStates, Absent
<1>3. /\ db' = table \/ db' = db
      /\ StoreReliable /\ CtxAlive => db' = table
  BY DEF StoreWrite, StoreReliable, Fault
<1> HIDE DEF table
<1>4. Rows(table) = Rows(db) \cup {id}
  BY <1>1, <1>2 DEF Rows
<1> QED
  BY <1>3, <1>4

\* An UPDATE neither adds nor removes a row.
LEMMA RowsAfterUpdate ==
  ASSUME db \in [Ids -> Row], NEW id, NEW state \in OrderStates, NEW q \in Nat,
         StoreWrite(UpdateRow(db, id, state, q)) \/ db' = db
  PROVE  Rows(db') = Rows(db)
<1> DEFINE table == UpdateRow(db, id, state, q)
<1>1. /\ table \in [Ids -> Row]
      /\ \A o \in Ids : db[o].state # Absent <=> table[o].state # Absent
  <2>1. CASE id \in Ids /\ db[id].state # Absent
    <3>1. /\ table = [db EXCEPT ![id] = [db[id] EXCEPT !.state = state, !.filled = q]]
          /\ state # Absent
      BY <2>1 DEF UpdateRow, OrderStates, Absent
    <3>2. [db[id] EXCEPT !.state = state, !.filled = q] \in Row
      BY <2>1 DEF Row, StatesOrAbsent
    <3>3. [db[id] EXCEPT !.state = state, !.filled = q].state = state
      BY <2>1 DEF Row
    <3> HIDE DEF table
    <3> QED
      BY <2>1, <3>1, <3>2, <3>3
  <2>2. CASE ~(id \in Ids /\ db[id].state # Absent)
    <3>1. table = db
      BY <2>2 DEF UpdateRow
    <3> QED
      BY <3>1
  <2> QED
    BY <2>1, <2>2
<1>2. db' = table \/ db' = db
  BY DEF StoreWrite
<1> HIDE DEF table
<1> QED
  BY <1>1, <1>2 DEF Rows

\* RecordFillCosts adds and removes no row.
LEMMA RowsAfterCosts ==
  ASSUME db \in [Ids -> Row], NEW id, NEW fee \in Nat,
         StoreWrite(RecordFillCosts(db, id, fee))
  PROVE  Rows(db') = Rows(db)
<1> DEFINE table == RecordFillCosts(db, id, fee)
<1>1. /\ table \in [Ids -> Row]
      /\ \A o \in Ids : table[o].state = db[o].state
  BY RecordFillCostsRows, TypeOfRecordFillCosts
<1>2. db' = table \/ db' = db
  BY DEF StoreWrite
<1> HIDE DEF table
<1> QED
  BY <1>1, <1>2 DEF Rows

\* No step removes a row, and the intents worker's two inserts are the only
\* steps that add one: the row of the order in hand.
LEMMA RowsStep ==
  ASSUME TypeInv, [Next]_vars
  PROVE  \/ Rows(db') = Rows(db)
         \/ /\ SaveRejected \/ SavePending
            /\ cur \in Ids /\ Rows(db') = Rows(db) \cup {cur}
<1> USE DEF TypeInv
<1>0. db \in [Ids -> Row]
  BY DEF TypeOK
<1>1. CASE SaveRejected \/ SavePending
  <2>1. cur \in Ids
    BY <1>1 DEF SaveRejected, SavePending, Control, AtRest
  <2>2. PICK s \in {"REJECTED", "PENDING"} : StoreWrite(SaveOrder(db, cur, s))
    BY <1>1 DEF SaveRejected, SavePending
  <2>3. s \in OrderStates
    BY DEF OrderStates
  <2> QED
    BY <1>0, <1>1, <2>1, <2>2, <2>3, RowsAfterSave
<1>2. CASE StoreFailed \/ StoreSubmitted \/ StoreFilled
  <2>1. PICK s \in {"REJECTED", "SUBMITTED", "FILLED"} : StoreWrite(UpdateRow(db, cur, s, wqty))
    BY <1>2 DEF StoreFailed, StoreSubmitted, StoreFilled, StoreUpdate
  <2>2. s \in OrderStates /\ wqty \in Nat
    BY DEF OrderStates, TypeOK
  <2> QED
    BY <1>0, <2>1, <2>2, RowsAfterUpdate
<1>3. CASE StoreRestCosts \/ StoreFillCosts
  <2>1. resp.qty \in Nat /\ fill.qty \in Nat
    BY DEF TypeOK, Fill
  <2>2. \/ StoreWrite(RecordFillCosts(db, cur, resp.qty))
        \/ StoreWrite(RecordFillCosts(db, fill.order, fill.qty))
    BY <1>3 DEF StoreRestCosts, StoreFillCosts, Commission
  <2> QED
    BY <1>0, <2>1, <2>2, RowsAfterCosts
<1>4. CASE ReconcileSync
  <2>1. rec.exec \in Nat /\ rec.state \in OrderStates
    BY <1>4 DEF ReconcileSync, TypeOK, Control, Answer
  <2>2. StoreWrite(UpdateRow(db, rec.order, rec.state, rec.exec)) \/ db' = db
    BY <1>4 DEF ReconcileSync
  <2> QED
    BY <1>0, <2>1, <2>2, RowsAfterUpdate
<1>5. CASE StoreFill
  <2>1. fill.qty \in Nat /\ fill.status \in OrderStates
    BY <1>5 DEF StoreFill, TypeOK, Control, Fill
  <2>2. StoreWrite(UpdateRow(db, fill.order, fill.status, fill.qty))
    BY <1>5 DEF StoreFill
  <2> QED
    BY <1>0, <2>1, <2>2, RowsAfterUpdate
<1>6. CASE UNCHANGED db
  BY <1>6
<1>7. CASE Boot /\ ~ReconcileSync
  BY <1>6, <1>7 DEF Boot, Preload, ReconcileQuery, ReconcilePublish, Start
<1>8. CASE \/ FetchIntent \/ StopIntents \/ CheckHalt \/ ValidateIntent \/ CheckRisk \/ LimiterWait
           \/ SubmitAccepted \/ SubmitRefused \/ SubmitReturns \/ SubmitTimesOut
  BY <1>6, <1>8 DEF FetchIntent, StopIntents, CheckHalt, ValidateIntent, CheckRisk, LimiterWait,
     SubmitAccepted, SubmitRefused, SubmitReturns, SubmitTimesOut
<1>9. CASE MarkFailed \/ MarkSubmitted \/ MarkFilled \/ PublishRestFill \/ CommitOffset
  BY <1>6, <1>9 DEF MarkFailed, MarkSubmitted, MarkFilled, PublishRestFill, CommitOffset,
     UpdateOrderState
<1>10. CASE ReceiveFill \/ PublishStreamFill \/ StopFills
  BY <1>6, <1>10 DEF ReceiveFill, PublishStreamFill, StopFills
<1>11. CASE StreamConnect \/ StreamDrop \/ \E o \in Orders : VenueTrade(o) \/ VenueCancel(o)
  BY <1>6, <1>11 DEF StreamConnect, StreamDrop, VenueTrade, VenueCancel, StreamFrame
<1>12. CASE Sigterm \/ SetHalt \/ ClearHalt \/ CancelRoot
  BY <1>6, <1>12 DEF Sigterm, SetHalt, ClearHalt, CancelRoot, OperatorFrame
<1>13. CASE Exit \/ Crash \/ Restart \/ Idle \/ UNCHANGED vars
  BY <1>6, <1>13 DEF Exit, Crash, Restart, LoseMemory, Idle, vars
<1> QED
  BY <1>1, <1>2, <1>3, <1>4, <1>5, <1>7, <1>8, <1>9, <1>10, <1>11, <1>12, <1>13
     DEF Next, IntentsWorker, FillsWorker, Shutdown, Environment

-----------------------------------------------------------------------------
(* The daily caps.                                                          *)

\* The orders that the venue has, or may come to have by the submission that the
\* risk check has let pass.
Reached == {o \in Orders : venue[o].n > 0}
Admitted == Reached \cup (IF ipc \in Passed THEN {cur} ELSE {})

\* The orders of S on one side.
OfSide(S, side) == {o \in S : Side[o] = side}

\* S is within the daily caps; a cap of a side is off when it is 0.
WithinCaps(S) ==
  /\ Cardinality(S) <= MaxDailyOrders
  /\ MaxDailyBuys > 0 => Cardinality(OfSide(S, "BUY")) <= MaxDailyBuys
  /\ MaxDailySells > 0 => Cardinality(OfSide(S, "SELL")) <= MaxDailySells

\* The inductive strengthening, beside PassInv: what the venue has has a row, so the
\* rows that checkRiskLimits counts are at least the orders at the venue, and the
\* order that is admitted next is counted before it is sent.
CapInv ==
  /\ \A o \in Ids : venue[o].n > 0 => o \in Rows(db)
  /\ WithinCaps(Admitted)

\* Orders, rows and admitted orders are finite in number.
LEMMA FiniteOrders ==
  ASSUME TypeInv
  PROVE  /\ IsFiniteSet(Ids) /\ Orders \subseteq Ids
         /\ \A S \in SUBSET Ids : IsFiniteSet(S) /\ Cardinality(S) \in Nat
         /\ Rows(db) \in SUBSET Ids
<1>1. IsFiniteSet(Ids) /\ Orders \subseteq Ids
  BY OrdersAssumption DEF Ids
<1>2. \A S \in SUBSET Ids : IsFiniteSet(S)
  BY <1>1, FS_Subset
<1>3. \A S \in SUBSET Ids : Cardinality(S) \in Nat
  BY <1>2, FS_CardinalityType
<1>4. Rows(db) \in SUBSET Ids
  BY DEF Rows, TypeInv, TypeOK
<1> QED
  BY <1>1, <1>2, <1>3, <1>4

\* Fewer orders stay within the caps.
LEMMA FewerWithinCaps ==
  ASSUME TypeInv, NEW S \in SUBSET Ids, NEW T \in SUBSET S, WithinCaps(S)
  PROVE  WithinCaps(T)
<1>1. \A U \in SUBSET Ids : IsFiniteSet(U) /\ Cardinality(U) \in Nat
  BY FiniteOrders
<1>2. \A side : OfSide(T, side) \in SUBSET OfSide(S, side) /\ OfSide(S, side) \in SUBSET Ids
  BY DEF OfSide
<1>3. \A side : Cardinality(OfSide(T, side)) <= Cardinality(OfSide(S, side))
  BY <1>1, <1>2, FS_Subset
<1>4. Cardinality(T) <= Cardinality(S)
  BY <1>1, FS_Subset
<1>5. /\ Cardinality(S) \in Nat /\ Cardinality(T) \in Nat
      /\ \A side : Cardinality(OfSide(S, side)) \in Nat /\ Cardinality(OfSide(T, side)) \in Nat
  BY <1>1, <1>2
<1> QED
  BY <1>3, <1>4, <1>5, BoundsAssumption DEF WithinCaps

\* An order that checkRiskLimits lets pass fits beside any orders that have rows.
LEMMA OneMoreWithinCaps ==
  ASSUME TypeInv, NEW S \in SUBSET Rows(db), NEW o \in Ids, RiskAllowed(o), WithinCaps(S)
  PROVE  WithinCaps(S \cup {o})
<1>1. Rows(db) \in SUBSET Ids /\ \A U \in SUBSET Ids : IsFiniteSet(U) /\ Cardinality(U) \in Nat
  BY FiniteOrders
<1>2. Cardinality(S \cup {o}) <= MaxDailyOrders
  <2>1. Cardinality(S) <= Cardinality(Rows(db))
    BY <1>1, FS_Subset
  <2>2. Cardinality(Rows(db)) < MaxDailyOrders
    BY DEF RiskAllowed, UnderCap, GetDailyOrderCount
  <2>3. Cardinality(S \cup {o}) <= Cardinality(S) + 1
    BY <1>1, FS_AddElement
  <2>4. /\ Cardinality(S) \in Nat /\ Cardinality(Rows(db)) \in Nat
        /\ Cardinality(S \cup {o}) \in Nat /\ MaxDailyOrders \in Nat
    BY <1>1, BoundsAssumption
  <2> QED
    BY <2>1, <2>2, <2>3, <2>4
<1>3. ASSUME NEW side \in Sides, NEW cap \in Nat,
             Cardinality(OfSide(S, side)) <= cap,
             Side[o] = side => GetDailyOrderCountBySide(db, Side, side) < cap
      PROVE  Cardinality(OfSide(S \cup {o}, side)) <= cap
  <2>1. CASE Side[o] # side
    <3>1. OfSide(S \cup {o}, side) = OfSide(S, side)
      BY <2>1 DEF OfSide
    <3> QED
      BY <1>3, <3>1
  <2>2. CASE Side[o] = side
    <3> DEFINE R == OfSide(Rows(db), side)
               U == OfSide(S, side)
    <3>1. OfSide(S \cup {o}, side) = U \cup {o} /\ U \in SUBSET R /\ R \in SUBSET Ids
      BY <1>1, <2>2 DEF OfSide
    <3>2. Cardinality(R) < cap
      BY <1>3, <2>2 DEF GetDailyOrderCountBySide, OfSide
    <3> HIDE DEF R, U
    <3>3. Cardinality(U) <= Cardinality(R)
      BY <1>1, <3>1, FS_Subset
    <3>4. Cardinality(U \cup {o}) <= Cardinality(U) + 1
      BY <1>1, <3>1, FS_AddElement
    <3>5. Cardinality(U) \in Nat /\ Cardinality(R) \in Nat /\ Cardinality(U \cup {o}) \in Nat
      BY <1>1, <3>1
    <3>6. Cardinality(U \cup {o}) <= cap
      BY <3>2, <3>3, <3>4, <3>5
    <3> QED
      BY <3>1, <3>6
  <2> QED
    BY <2>1, <2>2
<1>4. MaxDailyBuys > 0 => Cardinality(OfSide(S \cup {o}, "BUY")) <= MaxDailyBuys
  BY <1>3, BoundsAssumption DEF WithinCaps, RiskAllowed, UnderCap, Sides
<1>5. MaxDailySells > 0 => Cardinality(OfSide(S \cup {o}, "SELL")) <= MaxDailySells
  BY <1>3, BoundsAssumption DEF WithinCaps, RiskAllowed, UnderCap, Sides
<1> QED
  BY <1>2, <1>4, <1>5 DEF WithinCaps

\* Nothing has been admitted at process start, and a cap is not negative.
LEMMA CapInit == Init => CapInv
<1> SUFFICES ASSUME Init PROVE CapInv
  OBVIOUS
<1>1. \A o \in Ids : venue[o].n = 0
  BY DEF Init
<1>2. Admitted = {}
  BY <1>1 DEF Init, Admitted, Reached, Passed, Ids
<1>3. \A side : OfSide(Admitted, side) = {}
  BY <1>2 DEF OfSide
<1>4. WithinCaps(Admitted)
  BY <1>2, <1>3, FS_EmptySet, BoundsAssumption DEF WithinCaps
<1> QED
  BY <1>1, <1>4 DEF Init, CapInv, Passed

\* Every step keeps the caps, as long as the store is reliable.
LEMMA CapStep ==
  ASSUME TypeInv, RowInv, PassInv, CapInv, [Next]_vars
  PROVE  CapInv'
<1>1. Rows(db) \subseteq Rows(db') /\ Rows(db) \in SUBSET Ids /\ Orders \subseteq Ids
  BY RowsStep, FiniteOrders
<1>2. SubmitAccepted => cur \in Rows(db) /\ ipc = "submit"
  <2>1. SubmitAccepted => ipc = "submit" /\ CtxAlive
    BY DEF SubmitAccepted
  <2>2. ipc = "submit" => cur \in Ids
    BY DEF TypeInv, Control, AtRest
  <2>3. ipc = "submit" /\ CtxAlive => db[cur].state # Absent
    BY DEF RowInv
  <2>4. DOMAIN db = Ids
    BY DEF TypeInv, TypeOK
  <2> QED
    BY <2>1, <2>2, <2>3, <2>4 DEF Rows
<1>3. \A o \in Ids : venue'[o].n > 0 => o \in Rows(db')
  BY <1>1, <1>2, ReachedStep DEF CapInv
<1>4. Reached' \subseteq Admitted
  BY <1>1, <1>2, ReachedStep DEF Reached, Admitted, Passed
<1>5. Admitted \in SUBSET Ids
  BY <1>1 DEF Admitted, Reached, PassInv
<1>6. CASE Admitted' \subseteq Admitted
  BY <1>3, <1>5, <1>6, FewerWithinCaps DEF CapInv
<1>7. CASE ~(Admitted' \subseteq Admitted)
  <2>1. /\ ipc' \in Passed /\ cur' = cur /\ ipc = "risk" /\ RiskAllowed(cur) /\ cur \in Orders
        /\ Admitted = Reached
    BY <1>4, <1>7, PassStep DEF Admitted, PassInv, Passed
  <2>2. Reached \in SUBSET Rows(db)
    BY <1>1 DEF Reached, CapInv
  <2>3. WithinCaps(Reached \cup {cur})
    BY <1>1, <2>1, <2>2, OneMoreWithinCaps DEF CapInv
  <2>4. Admitted' \in SUBSET (Reached \cup {cur}) /\ Reached \cup {cur} \in SUBSET Ids
    BY <1>1, <1>4, <2>1, <2>2 DEF Admitted
  <2>5. WithinCaps(Admitted')
    BY <2>3, <2>4, FewerWithinCaps
  <2> QED
    BY <1>3, <2>5 DEF CapInv, WithinCaps, OfSide
<1> QED
  BY <1>6, <1>7

\* With a reliable store, no more distinct orders reach the venue than the caps
\* allow, however often the process restarts or is shut down and whatever the
\* topic repeats.
THEOREM CapsHold ==
  ASSUME StoreReliable PROVE Spec => []DailyCapsHold
<1> DEFINE Inv == TypeInv /\ RowInv /\ PassInv /\ CapInv
<1>1. Init => Inv
  BY TypeInit, RowInit, PassInit, CapInit
<1>2. Inv /\ [Next]_vars => Inv'
  BY TypeStep, RowStep, PassInvStep, CapStep
<1>3. Inv => DailyCapsHold
  <2> SUFFICES ASSUME TypeInv, PassInv, CapInv PROVE DailyCapsHold
    OBVIOUS
  <2>1. Admitted \in SUBSET Ids /\ Reached \in SUBSET Admitted
    BY FiniteOrders DEF Admitted, Reached, PassInv
  <2>2. WithinCaps(Reached)
    BY <2>1, FewerWithinCaps DEF CapInv
  <2> QED
    BY <2>2 DEF WithinCaps, OfSide, Reached, DailyCapsHold
<1> QED
  BY <1>1, <1>2, <1>3, PTL DEF Spec

-----------------------------------------------------------------------------
(* Fetched means recorded.                                                  *)

\* Nobody shuts the process down: the context is never cancelled.
NoShutdown == "sigterm" \notin Env

\* The control points at which the order in hand may have no row yet.
Unrecorded == {"halt", "validate", "risk", "saveRejected", "limit", "savePending"}

\* The inductive strengthening: whatever makes the tracker remember an ID (boot,
\* reconciliation, the stream, the worker itself) is about an order with a row,
\* or the row is the worker's next write.  So an intent that the duplicate check
\* refuses has a row like one that was admitted.
RecordInv ==
  /\ phase \notin {"draining", "cancelled"}
  /\ \A o \in Ids : states[o] # Absent => o \in Rows(db) \/ (o = cur /\ ipc \in Inserting)
  /\ todo \subseteq Rows(db)
  /\ rpc # "query" => rec.order \in Rows(db)
  /\ \A o \in Ids : venue[o].status # Absent => o \in Rows(db)
  /\ \A i \in DOMAIN chan : chan[i].order \in Rows(db)
  /\ \A p \in 1..pos : Log[p] \in Orders =>
       Log[p] \in Rows(db) \/ (p = pos /\ ipc \in Unrecorded)

\* At first nothing is fetched, tracked or at the venue.
LEMMA RecordInit == Init => RecordInv
BY DEF Init, RecordInv

\* Every step keeps it: the worker leaves an order in hand only through one of its
\* two inserts, or because the order was tracked and so had a row.
LEMMA RecordStep ==
  ASSUME TypeInv, OffsetInv, RowInv, RecordInv, [Next]_vars, StoreReliable, NoShutdown
  PROVE  RecordInv'
<1> USE DEF TypeInv, Inserting, Unrecorded
<1>0. /\ Rows(db) \subseteq Rows(db') /\ DOMAIN db = Ids /\ Rows(db) \subseteq Ids
      /\ pos \in Nat /\ pos' \in Nat /\ CtxAlive
  <2>1. pos' \in 0..Len(Log)
    BY TypeStep DEF TypeOK
  <2>2. Rows(db) \subseteq Rows(db')
    BY RowsStep
  <2>3. pos \in 0..Len(Log) /\ DOMAIN db = Ids
    BY DEF TypeOK
  <2>4. CtxAlive
    BY DEF RecordInv, CtxAlive
  <2> QED
    BY <2>1, <2>2, <2>3, <2>4, LogLength DEF Rows
<1>1. CASE UNCHANGED <<phase, states, todo, rpc, rec, venue, chan, pos, ipc, cur>>
  BY <1>0, <1>1 DEF RecordInv
<1>2. CASE Preload
  <2>1. GetActiveOrders(db) \subseteq Rows(db)
    BY DEF GetActiveOrders, Rows
  <2>2. /\ \A o \in Ids : states'[o] # Absent => states[o] # Absent \/ o \in GetActiveOrders(db)
        /\ todo' \subseteq GetActiveOrders(db)
    BY <1>2 DEF Preload, Remembered, trackerVars
  <2> QED
    BY <1>0, <1>2, <2>1, <2>2 DEF Preload, RecordInv, intentVars, streamVars
<1>3. CASE \E o \in Ids : ReconcileQuery(o)
  BY <1>0, <1>3 DEF ReconcileQuery, RecordInv, trackerVars, intentVars, streamVars
<1>4. CASE ReconcilePublish
  BY <1>0, <1>4 DEF ReconcilePublish, RecordInv, trackerVars, intentVars, streamVars
<1>5. CASE ReconcileSync
  BY <1>0, <1>5 DEF ReconcileSync, RecordInv, intentVars, streamVars, TypeOK
<1>6. CASE Start
  <2>1. ipc = "off"
    BY <1>6 DEF Start, Control, WorkersUp
  <2> QED
    BY <1>0, <1>6, <2>1 DEF Start, RecordInv, trackerVars, recVars, streamVars
<1>7. CASE FetchIntent
  <2>1. Malformed \notin Orders
    BY OrdersAssumption DEF Ids
  <2> QED
    BY <1>0, <1>7, <2>1 DEF FetchIntent, Parses, RecordInv, IntentFrame, trackerVars, recVars, streamVars
<1>8. CASE StopIntents
  BY <1>8 DEF StopIntents, RecordInv
<1>9. CASE CheckHalt
  BY <1>0, <1>9 DEF CheckHalt, AddOrder, Goto, RecordInv, IntentFrame, trackerVars, recVars, streamVars, TypeOK
<1>10. CASE ValidateIntent
  <2>1. cur = Log[pos] /\ cur \in Ids
    BY <1>10 DEF ValidateIntent, Control, AtRest
  <2>2. cur \in BadIds => cur \notin Orders
    BY OrdersAssumption
  <2> QED
    BY <1>0, <1>10, <2>1, <2>2 DEF ValidateIntent, IsDuplicate, AfterRefusal, Goto, RecordInv, IntentFrame,
      trackerVars, recVars, streamVars
<1>11. CASE CheckRisk
  BY <1>0, <1>11 DEF CheckRisk, AddOrder, Goto, RecordInv, IntentFrame, trackerVars, recVars, streamVars, TypeOK
<1>12. CASE SaveRejected \/ SavePending
  <2>1. cur \in Ids /\ cur = Log[pos]
    BY <1>12 DEF SaveRejected, SavePending, Control, AtRest
  <2>2. PICK s \in {"REJECTED", "PENDING"} : StoreWrite(SaveOrder(db, cur, s))
    BY <1>12 DEF SaveRejected, SavePending
  <2>3. s \in OrderStates /\ db \in [Ids -> Row]
    BY DEF OrderStates, TypeOK
  <2>4. cur \in Rows(db')
    BY <1>0, <2>1, <2>2, <2>3, RowsAfterSave
  <2> QED
    BY <1>0, <1>12, <2>1, <2>4 DEF SaveRejected, SavePending, Goto, RecordInv, IntentFrame,
      trackerVars, recVars, streamVars
<1>13. CASE LimiterWait
  BY <1>0, <1>13 DEF LimiterWait, AddOrder, Goto, RecordInv, IntentFrame, trackerVars, recVars, streamVars, TypeOK
<1>14. CASE SubmitAccepted
  <2>1. cur \in Ids /\ cur \in Rows(db)
    BY <1>0, <1>14 DEF SubmitAccepted, RowInv, Rows, Control, AtRest
  <2>2. \A o \in Ids : venue'[o].status # Absent => venue[o].status # Absent \/ o = cur
    BY <1>14 DEF SubmitAccepted, TypeOK
  <2>3. \A i \in DOMAIN chan' : (i \in DOMAIN chan /\ chan'[i] = chan[i]) \/ chan'[i].order = cur
    <3>1. chan \in Seq(Fill)
      BY DEF TypeOK
    <3>2. chan' = chan \/ \E g : g.order = cur /\ chan' = Append(chan, g)
      BY <1>14 DEF SubmitAccepted, Report, StreamFill
    <3> QED
      BY <3>1, <3>2
  <2> QED
    BY <1>0, <1>14, <2>1, <2>2, <2>3 DEF SubmitAccepted, RecordInv, trackerVars, recVars
<1>15. CASE SubmitRefused \/ SubmitReturns \/ SubmitTimesOut
  BY <1>0, <1>15 DEF SubmitRefused, SubmitReturns, SubmitTimesOut, Goto, RecordInv, IntentFrame,
      trackerVars, recVars, streamVars
<1>16. CASE MarkFailed \/ MarkSubmitted \/ MarkFilled
  <2>1. cur \in Ids /\ states[cur] # Absent /\ ipc \notin Inserting \cup Unrecorded
    BY <1>16 DEF MarkFailed, MarkSubmitted, MarkFilled, RowInv, Registered, Control, AtRest
  <2>2. /\ ipc' \notin Inserting \cup Unrecorded
        /\ UNCHANGED <<pos, cur, db, phase, todo, rpc, rec, venue, chan>>
        /\ \A o \in Ids : states'[o] # Absent => states[o] # Absent \/ o = cur
    BY <1>16 DEF MarkFailed, MarkSubmitted, MarkFilled, UpdateOrderState, AfterAccepted, IntentFrame,
      recVars, streamVars, TypeOK
  <2> QED
    BY <1>0, <2>1, <2>2 DEF RecordInv
<1>17. CASE \/ StoreFailed \/ StoreSubmitted \/ StoreFilled \/ StoreRestCosts
            \/ PublishRestFill \/ CommitOffset
  BY <1>0, <1>17 DEF StoreFailed, StoreSubmitted, StoreFilled, StoreRestCosts, PublishRestFill,
      CommitOffset, StoreUpdate, AfterAccepted, Goto, ToFetch, RecordInv, IntentFrame,
      trackerVars, recVars, streamVars
<1>18. CASE ReceiveFill
  <2>1. chan \in Seq(Fill) /\ chan # <<>> /\ chan' = Tail(chan) /\ fill' = Head(chan)
    BY <1>18 DEF ReceiveFill, TypeOK
  <2>2. /\ Head(chan) = chan[1] /\ 1 \in DOMAIN chan
        /\ \A i \in DOMAIN Tail(chan) : i + 1 \in DOMAIN chan /\ Tail(chan)[i] = chan[i + 1]
    BY <2>1
  <2>3. fill'.order \in Rows(db)
    BY <2>1, <2>2 DEF RecordInv
  <2>4. \A o \in Ids : states'[o] # Absent => states[o] # Absent \/ o = fill'.order
    BY <1>18 DEF ReceiveFill, TypeOK
  <2>5. \A i \in DOMAIN chan' : chan'[i].order \in Rows(db)
    BY <2>1, <2>2 DEF RecordInv
  <2> QED
    BY <1>0, <1>18, <2>3, <2>4, <2>5 DEF ReceiveFill, RecordInv, FillFrame, recVars, intentVars
<1>19. CASE StoreFill \/ StoreFillCosts \/ PublishStreamFill \/ StopFills
  BY <1>1, <1>19 DEF StoreFill, StoreFillCosts, PublishStreamFill, StopFills, FillFrame,
      recVars, intentVars
<1>20. CASE StreamConnect \/ StreamDrop
  BY <1>1, <1>20 DEF StreamConnect, StreamDrop, StreamFrame, trackerVars, recVars, intentVars
<1>21. CASE \E o \in Orders : VenueTrade(o) \/ VenueCancel(o)
  <2>1. PICK o \in Orders : VenueTrade(o) \/ VenueCancel(o)
    BY <1>21
  <2>2. o \in Ids /\ o \in Rows(db)
    <3>1. venue[o].status # Absent /\ o \in Ids
      BY <2>1 DEF VenueTrade, VenueCancel, Absent, Ids
    <3> QED
      BY <3>1 DEF RecordInv
  <2>3. \A p \in Ids : venue'[p].status # Absent => venue[p].status # Absent \/ p = o
    BY <2>1 DEF VenueTrade, VenueCancel, TypeOK
  <2>4. \A i \in DOMAIN chan' : (i \in DOMAIN chan /\ chan'[i] = chan[i]) \/ chan'[i].order = o
    <3>1. chan \in Seq(Fill)
      BY DEF TypeOK
    <3>2. chan' = chan \/ \E g : g.order = o /\ chan' = Append(chan, g)
      BY <2>1 DEF VenueTrade, VenueCancel, Report, StreamFill
    <3> QED
      BY <3>1, <3>2
  <2> QED
    BY <1>0, <2>1, <2>2, <2>3, <2>4 DEF VenueTrade, VenueCancel, StreamFrame, RecordInv,
      trackerVars, recVars, intentVars
<1>22. CASE Sigterm \/ CancelRoot
  BY <1>22 DEF Sigterm, CancelRoot, DrainClean, DrainDeadline, RecordInv, NoShutdown
<1>23. CASE SetHalt \/ ClearHalt
  BY <1>1, <1>23 DEF SetHalt, ClearHalt, OperatorFrame, trackerVars, recVars, intentVars, streamVars
<1>24. CASE Exit
  BY <1>24 DEF Exit, RecordInv
<1>25. CASE Crash
  <2>1. committed \in Nat /\ committed <= pos /\ (committed = pos => ipc \notin Unrecorded)
    BY LogLength DEF OffsetInv, AtRest, TypeOK
  <2>2. \A p \in 1..committed : Log[p] \in Orders => Log[p] \in Rows(db)
    BY <1>0, <2>1 DEF RecordInv
  <2> QED
    BY <1>0, <1>25, <2>2 DEF Crash, LoseMemory, RecordInv
<1>26. CASE Restart
  BY <1>26, <1>0 DEF Restart, RecordInv, trackerVars, recVars, intentVars, streamVars
<1>27. CASE Idle \/ UNCHANGED vars
  BY <1>1, <1>27 DEF Idle, vars, trackerVars, recVars, intentVars, streamVars
<1> QED
  BY <1>2, <1>3, <1>4, <1>5, <1>6, <1>7, <1>8, <1>9, <1>10, <1>11, <1>12, <1>13, <1>14,
     <1>15, <1>16, <1>17, <1>18, <1>19, <1>20, <1>21, <1>22, <1>23, <1>24, <1>25, <1>26, <1>27
  DEF Next, Boot, IntentsWorker, FillsWorker, Shutdown, Environment

\* The invariant of a gateway with a reliable store that nobody shuts down.
LedgerInv == TypeInv /\ OffsetInv /\ OnceInv /\ RowInv /\ RecordInv

\* Together they hold in every reachable state.
LEMMA LedgerInvariant ==
  ASSUME StoreReliable, NoShutdown PROVE Spec => []LedgerInv
<1>1. Init => LedgerInv
  BY TypeInit, OffsetInit, OnceInit, RowInit, RecordInit DEF LedgerInv
<1>2. LedgerInv /\ [Next]_vars => LedgerInv'
  BY TypeStep, OffsetStep, OnceStep, RowStep, RecordStep DEF LedgerInv
<1> QED
  BY <1>1, <1>2, PTL DEF Spec

\* What the group offset has passed has a row.
LEMMA CommittedHasRow ==
  ASSUME LedgerInv, NEW p \in 1..committed, Log[p] \in Orders
  PROVE  Log[p] \in Rows(db)
<1>1. committed \in Nat /\ pos \in Nat /\ committed <= pos /\ (committed = pos => ipc \notin Unrecorded)
  BY LogLength DEF LedgerInv, OffsetInv, AtRest, Unrecorded, TypeInv, TypeOK
<1> QED
  BY <1>1 DEF LedgerInv, RecordInv

\* With a reliable store, and until somebody shuts the process down, no intent is
\* acknowledged without a row: not a refused or repeated one, not one whose
\* publish was given up, and not across crashes.
THEOREM CommittedIntentsAreRecorded ==
  ASSUME StoreReliable, NoShutdown PROVE Spec => []CommittedIntentRecorded
<1>1. LedgerInv => CommittedIntentRecorded
  BY CommittedHasRow DEF CommittedIntentRecorded, Rows
<1> QED
  BY <1>1, LedgerInvariant, PTL

-----------------------------------------------------------------------------
(* Refinement: Gateway implements IntentLedger.                             *)

\* Process start maps to an empty ledger.
LEMMA LedgerStart == Init => Ledger!Init
BY DEF Init, Ledger!Init, Ledger!Ids, Ids, Rows, NoRow

\* Every step is a step of the ledger or leaves it alone: the two inserts record
\* an intent, a submission submits one that is recorded and was not submitted in
\* this life, a commit acknowledges recorded intents, and the end of a process,
\* clean or not, begins a new life.
LEMMA LedgerStep ==
  ASSUME LedgerInv, [Next]_vars
  PROVE  [Ledger!Next]_(Ledger!ledgerVars)
<1> USE DEF LedgerInv, Ledger!Ids
<1>1. CASE SaveRejected \/ SavePending
  <2>1. UNCHANGED <<sent, committed>>
    BY <1>1 DEF SaveRejected, SavePending, kafkaVars, histVars
  <2>2. Rows(db') = Rows(db) \/ (cur \in Ids /\ Rows(db') = Rows(db) \cup {cur})
    BY RowsStep
  <2>3. cur \in Ids /\ Rows(db') = Rows(db) \cup {cur} => Ledger!Record(cur)
    BY <2>1 DEF Ledger!Record
  <2> QED
    BY <2>1, <2>2, <2>3 DEF Ledger!Next, Ledger!ledgerVars, Ids
<1>2. CASE SubmitAccepted \/ SubmitRefused
  <2>1. /\ CountSubmission(cur) /\ cur \in Ids /\ sent[cur] = 0 /\ db[cur].state # Absent
        /\ UNCHANGED <<db, committed>>
    BY <1>2 DEF SubmitAccepted, SubmitRefused, TypeInv, Control, AtRest, OnceInv,
      PastDuplicateCheck, RowInv, RecordInv, CtxAlive, kafkaVars
  <2>2. cur \in Rows(db)
    BY <2>1 DEF Rows, TypeInv, TypeOK
  <2>3. Ledger!Submit(cur)
    BY <2>1, <2>2 DEF Ledger!Submit, CountSubmission, TypeInv, TypeOK
  <2> QED
    BY <2>1, <2>3 DEF Ledger!Next, Ids
<1>3. CASE CommitOffset
  <2>1. UNCHANGED <<sent, db>> /\ (committed' = pos \/ UNCHANGED committed)
    BY <1>3 DEF CommitOffset, CommittedOffset, histVars
  <2>2. pos \in 1..Len(Log) /\ committed < pos /\ ipc \notin Unrecorded
    BY <1>3 DEF CommitOffset, TypeInv, Control, AtRest, OffsetInv, Unrecorded
  <2>3. \A i \in 1..pos : Log[i] \in Orders => Log[i] \in Rows(db)
    BY <2>2 DEF RecordInv
  <2>4. committed' = pos => Ledger!Acknowledge(pos)
    BY <2>1, <2>2, <2>3 DEF Ledger!Acknowledge
  <2> QED
    BY <2>1, <2>2, <2>4 DEF Ledger!Next, Ledger!ledgerVars
<1>4. CASE Exit \/ Crash
  <2>1. Ledger!NewLife
    BY <1>4 DEF Exit, Crash, LoseMemory, kafkaVars, Ledger!NewLife, Ids
  <2> QED
    BY <2>1 DEF Ledger!Next
<1>5. CASE UNCHANGED <<sent, committed>> /\ ~SaveRejected /\ ~SavePending
  BY <1>5, RowsStep DEF Ledger!ledgerVars
<1>6. CASE Boot
  BY <1>5, <1>6, <1>1 DEF Boot, Preload, ReconcileQuery, ReconcilePublish, ReconcileSync, Start,
     kafkaVars, histVars
<1>7. CASE \/ FetchIntent \/ StopIntents \/ CheckHalt \/ ValidateIntent \/ CheckRisk \/ LimiterWait
           \/ SubmitReturns \/ SubmitTimesOut
  BY <1>1, <1>5, <1>7 DEF FetchIntent, StopIntents, CheckHalt, ValidateIntent, CheckRisk, LimiterWait,
     SubmitReturns, SubmitTimesOut, kafkaVars, histVars
<1>8. CASE \/ MarkFailed \/ StoreFailed \/ MarkSubmitted \/ StoreSubmitted \/ MarkFilled \/ StoreFilled
           \/ StoreRestCosts \/ PublishRestFill
  BY <1>1, <1>5, <1>8 DEF MarkFailed, StoreFailed, MarkSubmitted, StoreSubmitted, MarkFilled,
     StoreFilled, StoreRestCosts, PublishRestFill, UpdateOrderState, StoreUpdate,
     kafkaVars, histVars
<1>9. CASE FillsWorker
  BY <1>1, <1>5, <1>9 DEF FillsWorker, ReceiveFill, StoreFill, StoreFillCosts,
     PublishStreamFill, StopFills, FillFrame, histVars
<1>10. CASE StreamConnect \/ StreamDrop \/ \E o \in Orders : VenueTrade(o) \/ VenueCancel(o)
  BY <1>1, <1>5, <1>10 DEF StreamConnect, StreamDrop, VenueTrade, VenueCancel, StreamFrame,
     kafkaVars, histVars
<1>11. CASE Sigterm \/ SetHalt \/ ClearHalt \/ CancelRoot
  BY <1>1, <1>5, <1>11 DEF Sigterm, SetHalt, ClearHalt, CancelRoot, OperatorFrame, kafkaVars, histVars
<1>12. CASE Restart \/ Idle \/ UNCHANGED vars
  BY <1>1, <1>5, <1>12 DEF Restart, Idle, vars, kafkaVars, histVars
<1> QED
  BY <1>1, <1>2, <1>3, <1>4, <1>6, <1>7, <1>8, <1>9, <1>10, <1>11, <1>12
     DEF Next, IntentsWorker, Shutdown, Environment

\* With a reliable store that nobody shuts down, the gateway with its tracker,
\* workers, recovery, stream and venue is nothing but the ledger it promises to be.
THEOREM GatewayImplementsLedger ==
  ASSUME StoreReliable, NoShutdown PROVE Spec => LedgerSpec
<1>1. Init => Ledger!Init
  BY LedgerStart
<1>2. LedgerInv /\ [Next]_vars => [Ledger!Next]_(Ledger!ledgerVars)
  BY LedgerStep
<1> QED
  BY <1>1, <1>2, LedgerInvariant, PTL DEF Spec, LedgerSpec, Ledger!Spec
=============================================================================
