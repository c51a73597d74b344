------------------------- MODULE GatewaySafetyProofs -------------------------
(***************************************************************************)
(* Safety of Gateway: an order is submitted at most once per process life   *)
(* and the halt switch lets at most one order through, with any faults; and *)
(* with a store whose statements succeed, an order is stored before it is   *)
(* submitted and the tracker knows every active order.                      *)
(***************************************************************************)
EXTENDS GatewayTypeProofs

-----------------------------------------------------------------------------
(* At most one submission per life, at most one order past the switch.      *)

\* The order in hand has passed the duplicate check and has not been submitted.
PastDuplicateCheck == {"risk", "limit", "savePending", "submit"}
\* It has passed the halt check as well.
PastHaltCheck == {"validate"} \cup PastDuplicateCheck

\* The inductive strengthening: an ID that was submitted has an entry in the
\* tracker until memory is lost, so the duplicate check holds it back; the one
\* order between the check and the submission has not been submitted; and an
\* order in hand past the halt check uses up what the switch may let through.
OnceInv ==
  /\ SubmittedOncePerLife
  /\ HaltLetsAtMostOneThrough
  /\ \A o \in Ids : sent[o] > 0 => states[o] # Absent
  /\ ipc \in PastDuplicateCheck => sent[cur] = 0
  /\ ipc \in {"savePending", "submit"} => states[cur] # Absent
  /\ halted /\ ipc \in PastHaltCheck => haltSent = 0

\* The strengthening holds at process start: nothing has been submitted.
LEMMA OnceInit == Init => OnceInv
BY DEF Init, OnceInv, SubmittedOncePerLife, HaltLetsAtMostOneThrough,
       PastDuplicateCheck, PastHaltCheck

\* Every step of every worker, the operator and the environment keeps it.
LEMMA OnceStep ==
  ASSUME TypeInv, OnceInv, [Next]_vars
  PROVE  OnceInv'
<1> USE DEF TypeInv, kafkaVars, trackerVars, recVars, intentVars, fillVars,
      streamVars, boundVars, histVars
<1>1. CASE Preload
  BY <1>1 DEF Preload, WorkersUp, OnceInv, SubmittedOncePerLife,
      HaltLetsAtMostOneThrough, PastDuplicateCheck, PastHaltCheck, TypeOK, Control, AtRest
<1>2. CASE \E o \in Ids : ReconcileQuery(o)
  BY <1>2 DEF ReconcileQuery, OnceInv, SubmittedOncePerLife, HaltLetsAtMostOneThrough,
      PastDuplicateCheck, PastHaltCheck, TypeOK, Control, AtRest
<1>3. CASE ReconcilePublish
  BY <1>3 DEF ReconcilePublish, OnceInv, SubmittedOncePerLife, HaltLetsAtMostOneThrough,
      PastDuplicateCheck, PastHaltCheck, TypeOK, Control, AtRest
<1>4. CASE ReconcileSync
  BY <1>4 DEF ReconcileSync, OrderStates, Absent, OnceInv, SubmittedOncePerLife,
      HaltLetsAtMostOneThrough, PastDuplicateCheck, PastHaltCheck, TypeOK, Control, AtRest
<1>5. CASE Start
  BY <1>5 DEF Start, OnceInv, SubmittedOncePerLife, HaltLetsAtMostOneThrough,
      PastDuplicateCheck, PastHaltCheck, TypeOK, Control, AtRest
<1>6. CASE FetchIntent
  BY <1>6 DEF FetchIntent, Parses, IntentFrame, Goto, ToFetch, OnceInv, SubmittedOncePerLife,
      HaltLetsAtMostOneThrough, PastDuplicateCheck, PastHaltCheck, TypeOK, Control, AtRest
<1>7. CASE StopIntents
  BY <1>7 DEF StopIntents, IntentFrame, Goto, ToFetch, OnceInv, SubmittedOncePerLife,
      HaltLetsAtMostOneThrough, PastDuplicateCheck, PastHaltCheck, TypeOK, Control, AtRest
<1>8. CASE CheckHalt
  BY <1>8 DEF CheckHalt, AddOrder, Absent, IntentFrame, Goto, ToFetch, OnceInv,
      SubmittedOncePerLife, HaltLetsAtMostOneThrough, PastDuplicateCheck, PastHaltCheck,
      TypeOK, Control, AtRest
<1>9. CASE ValidateIntent
  BY <1>9 DEF ValidateIntent, AfterRefusal, IsDuplicate, IntentFrame, Goto, ToFetch,
      OnceInv, SubmittedOncePerLife, HaltLetsAtMostOneThrough, PastDuplicateCheck,
      PastHaltCheck, TypeOK, Control, AtRest
<1>10. CASE CheckRisk
  BY <1>10 DEF CheckRisk, AddOrder, Absent, IntentFrame, Goto, ToFetch, OnceInv,
      SubmittedOncePerLife, HaltLetsAtMostOneThrough, PastDuplicateCheck, PastHaltCheck,
      TypeOK, Control, AtRest
<1>11. CASE SaveRejected
  BY <1>11 DEF SaveRejected, IntentFrame, Goto, ToFetch, OnceInv, SubmittedOncePerLife,
      HaltLetsAtMostOneThrough, PastDuplicateCheck, PastHaltCheck, TypeOK, Control, AtRest
<1>12. CASE LimiterWait
  BY <1>12 DEF LimiterWait, AddOrder, Absent, IntentFrame, Goto, ToFetch, OnceInv,
      SubmittedOncePerLife, HaltLetsAtMostOneThrough, PastDuplicateCheck, PastHaltCheck,
      TypeOK, Control, AtRest
<1>13. CASE SavePending
  BY <1>13 DEF SavePending, IntentFrame, Goto, ToFetch, OnceInv, SubmittedOncePerLife,
      HaltLetsAtMostOneThrough, PastDuplicateCheck, PastHaltCheck, TypeOK, Control, AtRest
<1>14. CASE SubmitAccepted
  BY <1>14 DEF SubmitAccepted, CountSubmission, IntentFrame, Goto, ToFetch, OnceInv,
      SubmittedOncePerLife, HaltLetsAtMostOneThrough, PastDuplicateCheck, PastHaltCheck,
      TypeOK, Control, AtRest
<1>15. CASE SubmitRefused
  <2>1. cur \in Ids /\ sent[cur] = 0 /\ states[cur] # Absent
    BY <1>15 DEF SubmitRefused, OnceInv, SubmittedOncePerLife, HaltLetsAtMostOneThrough,
      PastDuplicateCheck, PastHaltCheck, TypeOK, Control, AtRest
  <2>2. \A o \in Ids : sent'[o] <= 1 /\ (sent'[o] > 0 => states[o] # Absent)
    <3>1. \A o \in Ids : sent[o] \in Nat /\ sent[o] <= 1 /\ (sent[o] > 0 => states[o] # Absent)
      BY DEF TypeOK, OnceInv, SubmittedOncePerLife
    <3>2. sent \in [Ids -> Nat] /\ (sent' = sent \/ sent' = [sent EXCEPT ![cur] = @ + 1])
      BY <1>15 DEF SubmitRefused, CountSubmission, TypeOK
    <3> QED
      BY <2>1, <3>1, <3>2
  <2>3. halted => haltSent' <= 1
    BY <1>15 DEF SubmitRefused, CountSubmission, TypeOK, OnceInv, PastHaltCheck,
      PastDuplicateCheck, HaltLetsAtMostOneThrough
  <2> QED
    BY <1>15, <2>2, <2>3 DEF SubmitRefused, Goto, IntentFrame, OnceInv,
      SubmittedOncePerLife, HaltLetsAtMostOneThrough, PastDuplicateCheck, PastHaltCheck
<1>16. CASE SubmitReturns
  BY <1>16 DEF SubmitReturns, IntentFrame, Goto, ToFetch, OnceInv, SubmittedOncePerLife,
      HaltLetsAtMostOneThrough, PastDuplicateCheck, PastHaltCheck, TypeOK, Control, AtRest
<1>17. CASE SubmitTimesOut
  BY <1>17 DEF SubmitTimesOut, IntentFrame, Goto, ToFetch, OnceInv, SubmittedOncePerLife,
      HaltLetsAtMostOneThrough, PastDuplicateCheck, PastHaltCheck, TypeOK, Control, AtRest
<1>18. CASE MarkFailed
  BY <1>18 DEF MarkFailed, UpdateOrderState, Absent, IntentFrame, Goto, ToFetch, OnceInv,
      SubmittedOncePerLife, HaltLetsAtMostOneThrough, PastDuplicateCheck, PastHaltCheck,
      TypeOK, Control, AtRest
<1>19. CASE StoreFailed
  BY <1>19 DEF StoreFailed, StoreUpdate, IntentFrame, Goto, ToFetch, OnceInv,
      SubmittedOncePerLife, HaltLetsAtMostOneThrough, PastDuplicateCheck, PastHaltCheck,
      TypeOK, Control, AtRest
<1>20. CASE MarkSubmitted
  BY <1>20 DEF MarkSubmitted, UpdateOrderState, AfterAccepted, Absent, IntentFrame, Goto,
      ToFetch, OnceInv, SubmittedOncePerLife, HaltLetsAtMostOneThrough,
      PastDuplicateCheck, PastHaltCheck, TypeOK, Control, AtRest
<1>21. CASE StoreSubmitted
  BY <1>21 DEF StoreSubmitted, StoreUpdate, AfterAccepted, IntentFrame, Goto, ToFetch,
      OnceInv, SubmittedOncePerLife, HaltLetsAtMostOneThrough, PastDuplicateCheck,
      PastHaltCheck, TypeOK, Control, AtRest
<1>22. CASE MarkFilled
  BY <1>22 DEF MarkFilled, UpdateOrderState, Absent, IntentFrame, Goto, ToFetch, OnceInv,
      SubmittedOncePerLife, HaltLetsAtMostOneThrough, PastDuplicateCheck, PastHaltCheck,
      TypeOK, Control, AtRest
<1>23. CASE StoreFilled
  BY <1>23 DEF StoreFilled, StoreUpdate, IntentFrame, Goto, ToFetch, OnceInv,
      SubmittedOncePerLife, HaltLetsAtMostOneThrough, PastDuplicateCheck, PastHaltCheck,
      TypeOK, Control, AtRest
<1>24. CASE StoreRestCosts
  BY <1>24 DEF StoreRestCosts, IntentFrame, Goto, ToFetch, OnceInv, SubmittedOncePerLife,
      HaltLetsAtMostOneThrough, PastDuplicateCheck, PastHaltCheck, TypeOK, Control, AtRest
<1>25. CASE PublishRestFill
  BY <1>25 DEF PublishRestFill, IntentFrame, Goto, ToFetch, OnceInv,
      SubmittedOncePerLife, HaltLetsAtMostOneThrough, PastDuplicateCheck, PastHaltCheck,
      TypeOK, Control, AtRest
<1>26. CASE CommitOffset
  BY <1>26 DEF CommitOffset, IntentFrame, Goto, ToFetch, OnceInv, SubmittedOncePerLife,
      HaltLetsAtMostOneThrough, PastDuplicateCheck, PastHaltCheck, TypeOK, Control, AtRest
<1>27. CASE ReceiveFill
  <2>1. Head(chan) = chan[1] /\ 1 \in DOMAIN chan /\ Head(chan) \in Fill
    BY <1>27 DEF ReceiveFill, TypeOK
  <2>2. fill'.status # Absent
    BY <1>27, <2>1 DEF ReceiveFill, Control, OrderStates, Absent
  <2>3. \A o \in Ids : states[o] # Absent => states'[o] # Absent
    BY <1>27, <2>2 DEF ReceiveFill, TypeOK
  <2> QED
    BY <1>27, <2>3 DEF ReceiveFill, FillFrame, OnceInv, SubmittedOncePerLife,
      HaltLetsAtMostOneThrough, PastDuplicateCheck, PastHaltCheck, TypeOK, Control, AtRest
<1>28. CASE StoreFill
  BY <1>28 DEF StoreFill, FillFrame, OnceInv, SubmittedOncePerLife,
      HaltLetsAtMostOneThrough, PastDuplicateCheck, PastHaltCheck, TypeOK, Control, AtRest
<1>29. CASE StoreFillCosts
  BY <1>29 DEF StoreFillCosts, FillFrame, OnceInv, SubmittedOncePerLife,
      HaltLetsAtMostOneThrough, PastDuplicateCheck, PastHaltCheck, TypeOK, Control, AtRest
<1>30. CASE PublishStreamFill
  BY <1>30 DEF PublishStreamFill, FillFrame, OnceInv, SubmittedOncePerLife,
      HaltLetsAtMostOneThrough, PastDuplicateCheck, PastHaltCheck, TypeOK, Control, AtRest
<1>31. CASE StopFills
  BY <1>31 DEF StopFills, FillFrame, OnceInv, SubmittedOncePerLife,
      HaltLetsAtMostOneThrough, PastDuplicateCheck, PastHaltCheck, TypeOK, Control, AtRest
<1>32. CASE StreamConnect
  BY <1>32 DEF StreamConnect, StreamFrame, OnceInv, SubmittedOncePerLife,
      HaltLetsAtMostOneThrough, PastDuplicateCheck, PastHaltCheck, TypeOK, Control, AtRest
<1>33. CASE StreamDrop
  BY <1>33 DEF StreamDrop, StreamFrame, OnceInv, SubmittedOncePerLife,
      HaltLetsAtMostOneThrough, PastDuplicateCheck, PastHaltCheck, TypeOK, Control, AtRest
<1>34. CASE \E o \in Orders : VenueTrade(o)
  BY <1>34 DEF VenueTrade, StreamFrame, OnceInv, SubmittedOncePerLife,
      HaltLetsAtMostOneThrough, PastDuplicateCheck, PastHaltCheck, TypeOK, Control, AtRest
<1>35. CASE \E o \in Orders : VenueCancel(o)
  BY <1>35 DEF VenueCancel, StreamFrame, OnceInv, SubmittedOncePerLife,
      HaltLetsAtMostOneThrough, PastDuplicateCheck, PastHaltCheck, TypeOK, Control, AtRest
<1>36. CASE SetHalt
  BY <1>36 DEF SetHalt, OperatorFrame, OnceInv, SubmittedOncePerLife,
      HaltLetsAtMostOneThrough, PastDuplicateCheck, PastHaltCheck, TypeOK, Control, AtRest
<1>37. CASE ClearHalt
  BY <1>37 DEF ClearHalt, OperatorFrame, OnceInv, SubmittedOncePerLife,
      HaltLetsAtMostOneThrough, PastDuplicateCheck, PastHaltCheck, TypeOK, Control, AtRest
<1>38. CASE Sigterm
  BY <1>38 DEF Sigterm, OperatorFrame, OnceInv, SubmittedOncePerLife,
      HaltLetsAtMostOneThrough, PastDuplicateCheck, PastHaltCheck, TypeOK, Control, AtRest
<1>39. CASE CancelRoot
  BY <1>39 DEF CancelRoot, OperatorFrame, OnceInv, SubmittedOncePerLife,
      HaltLetsAtMostOneThrough, PastDuplicateCheck, PastHaltCheck, TypeOK, Control, AtRest
<1>40. CASE Exit
  BY <1>40 DEF Exit, LoseMemory, OnceInv, SubmittedOncePerLife, HaltLetsAtMostOneThrough,
      PastDuplicateCheck, PastHaltCheck, TypeOK, Control, AtRest
<1>41. CASE Restart
  BY <1>41 DEF Restart, OnceInv, SubmittedOncePerLife, HaltLetsAtMostOneThrough,
      PastDuplicateCheck, PastHaltCheck, TypeOK, Control, AtRest
<1>42. CASE Crash
  BY <1>42 DEF Crash, LoseMemory, OnceInv, SubmittedOncePerLife,
      HaltLetsAtMostOneThrough, PastDuplicateCheck, PastHaltCheck, TypeOK, Control, AtRest
<1>43. CASE Idle
  BY <1>43 DEF Idle, vars, OnceInv, SubmittedOncePerLife, HaltLetsAtMostOneThrough,
      PastDuplicateCheck, PastHaltCheck, TypeOK, Control, AtRest
<1>44. CASE UNCHANGED vars
  BY <1>44 DEF vars, OnceInv, SubmittedOncePerLife, HaltLetsAtMostOneThrough,
      PastDuplicateCheck, PastHaltCheck, TypeOK, Control, AtRest
<1> QED
  BY <1>1, <1>2, <1>3, <1>4, <1>5, <1>6, <1>7, <1>8, <1>9, <1>10, <1>11, <1>12, <1>13,
      <1>14, <1>15, <1>16, <1>17, <1>18, <1>19, <1>20, <1>21, <1>22, <1>23, <1>24, <1>25,
      <1>26, <1>27, <1>28, <1>29, <1>30, <1>31, <1>32, <1>33, <1>34, <1>35, <1>36, <1>37,
      <1>38, <1>39, <1>40, <1>41, <1>42, <1>43, <1>44
  DEF Next, Boot, IntentsWorker, FillsWorker, Shutdown, Environment


\* However intents repeat and whatever fails, one life of the process submits
\* an order ID at most once.
THEOREM AtMostOneSubmission == Spec => []SubmittedOncePerLife
<1>1. Spec => [](TypeInv /\ OnceInv)
  BY TypeInit, TypeStep, OnceInit, OnceStep, PTL DEF Spec
<1> QED
  BY <1>1, PTL DEF OnceInv

\* From the moment the operator sets the halt switch until it is cleared, at
\* most one order goes to the venue.
THEOREM HaltHolds == Spec => []HaltLetsAtMostOneThrough
<1>1. Spec => [](TypeInv /\ OnceInv)
  BY TypeInit, TypeStep, OnceInit, OnceStep, PTL DEF Spec
<1> QED
  BY <1>1, PTL DEF OnceInv
-----------------------------------------------------------------------------
(* Stored before submitted, active implies known.                           *)

\* The store's statements fail only once the root context is cancelled.
StoreReliable == "store" \notin Env

\* The control points at which the order in hand has an entry in the tracker.
Registered == {"saveRejected", "savePending", "submit", "await", "failed",
               "storeFailed", "accepted", "storeAccepted", "filled", "storeFilled"}

\* The inductive strengthening: the order that is about to be submitted under a
\* live context has its row, and whoever is about to write a row has made the
\* tracker's entry first.
RowInv ==
  /\ WriteAhead
  /\ ipc = "submit" /\ CtxAlive => db[cur].state # Absent
  /\ phase \notin {"boot", "down"} =>
       \A o \in Ids : o \in GetActiveOrders(db) => states[o] # Absent
  /\ ipc \in Registered => states[cur] # Absent
  /\ fpc = "store" /\ fill.order \in Ids => states[fill.order] # Absent

\* The strengthening holds at process start: there are no rows.
LEMMA RowInit == Init => RowInv
BY DEF Init, RowInv, WriteAhead, GetActiveOrders, NoRow, CtxAlive, Registered

\* A statement that only touches the row of id, and leaves a row where there was
\* one, brings no active order but id.
RowsKept(id) ==
  /\ \A o \in Ids : db[o].state # Absent => db'[o].state # Absent
  /\ \A o \in Ids : o # id /\ o \in GetActiveOrders(db') => o \in GetActiveOrders(db)

\* The INSERT of a reliable store (SQLiteOrderStore.SaveOrder) keeps the rows,
\* and under a live context the order's row has the state that was written.
LEMMA SaveOrderKeepsRows ==
  ASSUME StoreReliable, db \in [Ids -> Row], NEW id \in Ids, NEW state \in OrderStates,
         StoreWrite(SaveOrder(db, id, state))
  PROVE  RowsKept(id) /\ (CtxAlive => db'[id].state = state)
<1> DEFINE table == SaveOrder(db, id, state)
<1>1. /\ table \in [Ids -> Row] /\ table[id].state = state
      /\ \A o \in Ids : o # id => table[o] = db[o]
  BY DEF SaveOrder, Row, StatesOrAbsent
<1>2. state # Absent
  BY DEF OrderStates, Absent
<1>3. db' = table \/ db' = db
  BY DEF StoreWrite
<1>4. CtxAlive => db' = table
  BY DEF StoreWrite, StoreReliable, Fault
<1> HIDE DEF table
<1>5. \A o \in Ids : db[o].state # Absent => db'[o].state # Absent
  BY <1>1, <1>2, <1>3
<1>6. \A o \in Ids : o # id /\ o \in GetActiveOrders(db') => o \in GetActiveOrders(db)
  BY <1>1, <1>3 DEF GetActiveOrders
<1> QED
  BY <1>1, <1>4, <1>5, <1>6 DEF RowsKept

\* The UPDATE (SQLiteOrderStore.UpdateOrderState) keeps the rows, also when it
\* fails; it brings no row about.
LEMMA UpdateRowKeepsRows ==
  ASSUME db \in [Ids -> Row], NEW id, NEW state \in OrderStates, NEW q \in Nat,
         StoreWrite(UpdateRow(db, id, state, q)) \/ db' = db
  PROVE  RowsKept(id)
<1> DEFINE table == UpdateRow(db, id, state, q)
<1>1. /\ table \in [Ids -> Row]
      /\ \A o \in Ids : o # id => table[o] = db[o]
  BY DEF UpdateRow, Row, StatesOrAbsent
<1>2. \A o \in Ids : db[o].state # Absent => table[o].state # Absent
  BY DEF UpdateRow, Row, OrderStates, Absent
<1>3. db' = table \/ db' = db
  BY DEF StoreWrite
<1> HIDE DEF table
<1>4. \A o \in Ids : db[o].state # Absent => db'[o].state # Absent
  BY <1>2, <1>3
<1>5. \A o \in Ids : o # id /\ o \in GetActiveOrders(db') => o \in GetActiveOrders(db)
  BY <1>1, <1>3 DEF GetActiveOrders
<1> QED
  BY <1>4, <1>5 DEF RowsKept

\* RecordFillCosts leaves every state as it was.
LEMMA RecordFillCostsRows ==
  ASSUME NEW table \in [Ids -> Row], NEW id, NEW fee \in Nat
  PROVE  \A o \in Ids : RecordFillCosts(table, id, fee)[o].state = table[o].state
BY DEF RecordFillCosts, Row

\* Every step keeps it, as long as the store is reliable.
LEMMA RowStep ==
  ASSUME TypeInv, RowInv, [Next]_vars, StoreReliable
  PROVE  RowInv'
<1> USE DEF TypeInv, kafkaVars, trackerVars, recVars, intentVars, fillVars,
      streamVars, boundVars, histVars
<1>1. CASE Preload
  BY <1>1 DEF Preload, Remembered, GetActiveOrders, StoreReliable, Fault, RowInv,
      WriteAhead, Registered, CtxAlive, WorkersUp, TypeOK, Control, AtRest
<1>2. CASE \E o \in Ids : ReconcileQuery(o)
  BY <1>2 DEF ReconcileQuery, RowInv, WriteAhead, Registered, CtxAlive, WorkersUp,
      TypeOK, Control, AtRest
<1>3. CASE ReconcilePublish
  BY <1>3 DEF ReconcilePublish, RowInv, WriteAhead, Registered, CtxAlive, WorkersUp,
      TypeOK, Control, AtRest
<1>4. CASE ReconcileSync
  <2>1. db \in [Ids -> Row] /\ rec.exec \in Nat /\ rec.state \in OrderStates
    BY <1>4 DEF ReconcileSync, TypeOK, Control, AtRest, OrderStates, Answer
  <2>2. StoreWrite(UpdateRow(db, rec.order, rec.state, rec.exec)) \/ db' = db
    BY <1>4 DEF ReconcileSync
  <2>3. RowsKept(rec.order)
    BY <2>1, <2>2, UpdateRowKeepsRows DEF StoreReliable
  <2>4. \A o \in Ids : states[o] # Absent \/ o = rec.order => states'[o] # Absent
    BY <1>4 DEF ReconcileSync, TypeOK, Control, OrderStates, Absent
  <2> QED
    BY <1>4, <2>1, <2>3, <2>4 DEF ReconcileSync, RowInv, WriteAhead, Registered,
      CtxAlive, WorkersUp, TypeOK, Control, AtRest, RowsKept
<1>5. CASE Start
  BY <1>5 DEF Start, RowInv, WriteAhead, Registered, CtxAlive, WorkersUp, TypeOK,
      Control, AtRest
<1>6. CASE FetchIntent
  BY <1>6 DEF FetchIntent, Parses, IntentFrame, Goto, ToFetch, RowInv, WriteAhead, Registered,
      CtxAlive, WorkersUp, TypeOK, Control, AtRest
<1>7. CASE StopIntents
  BY <1>7 DEF StopIntents, IntentFrame, Goto, ToFetch, RowInv, WriteAhead, Registered,
      CtxAlive, WorkersUp, TypeOK, Control, AtRest
<1>8. CASE CheckHalt
  BY <1>8 DEF CheckHalt, AddOrder, Absent, IntentFrame, Goto, ToFetch, RowInv,
      WriteAhead, Registered, CtxAlive, WorkersUp, TypeOK, Control, AtRest
<1>9. CASE ValidateIntent
  BY <1>9 DEF ValidateIntent, AfterRefusal, IsDuplicate, IntentFrame, Goto, ToFetch,
      RowInv, WriteAhead, Registered, CtxAlive, WorkersUp, TypeOK, Control, AtRest
<1>10. CASE CheckRisk
  BY <1>10 DEF CheckRisk, AddOrder, Absent, IntentFrame, Goto, ToFetch, RowInv,
      WriteAhead, Registered, CtxAlive, WorkersUp, TypeOK, Control, AtRest
<1>11. CASE SaveRejected
  <2>1. db \in [Ids -> Row] /\ cur \in Ids /\ "REJECTED" \in OrderStates
    BY <1>11 DEF SaveRejected, TypeOK, Control, AtRest, OrderStates, Fill
  <2>2. StoreWrite(SaveOrder(db, cur, "REJECTED"))
    BY <1>11 DEF SaveRejected
  <2>3. RowsKept(cur)
    BY <2>1, <2>2, SaveOrderKeepsRows DEF StoreReliable
  <2> QED
    BY <1>11, <2>1, <2>3 DEF SaveRejected, IntentFrame, Goto, RowInv, WriteAhead,
      Registered, CtxAlive, WorkersUp, TypeOK, Control, AtRest, RowsKept
<1>12. CASE LimiterWait
  BY <1>12 DEF LimiterWait, AddOrder, Absent, IntentFrame, Goto, ToFetch, RowInv,
      WriteAhead, Registered, CtxAlive, WorkersUp, TypeOK, Control, AtRest
<1>13. CASE SavePending
  <2>1. db \in [Ids -> Row] /\ cur \in Ids /\ "PENDING" \in OrderStates
    BY <1>13 DEF SavePending, TypeOK, Control, AtRest, OrderStates, Fill
  <2>2. StoreWrite(SaveOrder(db, cur, "PENDING"))
    BY <1>13 DEF SavePending
  <2>3. RowsKept(cur)
    BY <2>1, <2>2, SaveOrderKeepsRows DEF StoreReliable
  <2>4. CtxAlive => db'[cur].state # Absent
    BY <2>1, <2>2, SaveOrderKeepsRows DEF Absent, StoreReliable
  <2> QED
    BY <1>13, <2>1, <2>3, <2>4 DEF SavePending, IntentFrame, Goto, RowInv, WriteAhead,
      Registered, CtxAlive, WorkersUp, TypeOK, Control, AtRest, RowsKept
<1>14. CASE SubmitAccepted
  BY <1>14 DEF SubmitAccepted, CountSubmission, IntentFrame, Goto, ToFetch, RowInv,
      WriteAhead, Registered, CtxAlive, WorkersUp, TypeOK, Control, AtRest
<1>15. CASE SubmitRefused
  BY <1>15 DEF SubmitRefused, CountSubmission, IntentFrame, Goto, ToFetch, RowInv,
      WriteAhead, Registered, CtxAlive, WorkersUp, TypeOK, Control, AtRest
<1>16. CASE SubmitReturns
  BY <1>16 DEF SubmitReturns, IntentFrame, Goto, ToFetch, RowInv, WriteAhead, Registered,
      CtxAlive, WorkersUp, TypeOK, Control, AtRest
<1>17. CASE SubmitTimesOut
  BY <1>17 DEF SubmitTimesOut, IntentFrame, Goto, ToFetch, RowInv, WriteAhead,
      Registered, CtxAlive, WorkersUp, TypeOK, Control, AtRest
<1>18. CASE MarkFailed
  BY <1>18 DEF MarkFailed, UpdateOrderState, Absent, IntentFrame, Goto, ToFetch, RowInv,
      WriteAhead, Registered, CtxAlive, WorkersUp, TypeOK, Control, AtRest
<1>19. CASE StoreFailed
  <2>1. db \in [Ids -> Row] /\ wqty \in Nat /\ "REJECTED" \in OrderStates
    BY <1>19 DEF StoreFailed, StoreUpdate, TypeOK, Control, AtRest, OrderStates, Fill
  <2>2. StoreWrite(UpdateRow(db, cur, "REJECTED", wqty))
    BY <1>19 DEF StoreFailed, StoreUpdate
  <2>3. RowsKept(cur)
    BY <2>1, <2>2, UpdateRowKeepsRows DEF StoreReliable
  <2> QED
    BY <1>19, <2>1, <2>3 DEF StoreFailed, StoreUpdate, IntentFrame, Goto, RowInv,
      WriteAhead, Registered, CtxAlive, WorkersUp, TypeOK, Control, AtRest, RowsKept
<1>20. CASE MarkSubmitted
  BY <1>20 DEF MarkSubmitted, UpdateOrderState, AfterAccepted, Absent, IntentFrame, Goto,
      ToFetch, RowInv, WriteAhead, Registered, CtxAlive, WorkersUp, TypeOK, Control, AtRest
<1>21. CASE StoreSubmitted
  <2>1. db \in [Ids -> Row] /\ wqty \in Nat /\ "SUBMITTED" \in OrderStates
    BY <1>21 DEF StoreSubmitted, StoreUpdate, TypeOK, Control, AtRest, OrderStates, Fill
  <2>2. StoreWrite(UpdateRow(db, cur, "SUBMITTED", wqty))
    BY <1>21 DEF StoreSubmitted, StoreUpdate
  <2>3. RowsKept(cur)
    BY <2>1, <2>2, UpdateRowKeepsRows DEF StoreReliable
  <2> QED
    BY <1>21, <2>1, <2>3 DEF StoreSubmitted, StoreUpdate, IntentFrame, Goto,
      AfterAccepted, RowInv, WriteAhead, Registered, CtxAlive, WorkersUp, TypeOK,
      Control, AtRest, RowsKept
<1>22. CASE MarkFilled
  BY <1>22 DEF MarkFilled, UpdateOrderState, Absent, IntentFrame, Goto, ToFetch, RowInv,
      WriteAhead, Registered, CtxAlive, WorkersUp, TypeOK, Control, AtRest
<1>23. CASE StoreFilled
  <2>1. db \in [Ids -> Row] /\ wqty \in Nat /\ "FILLED" \in OrderStates
    BY <1>23 DEF StoreFilled, StoreUpdate, TypeOK, Control, AtRest, OrderStates, Fill
  <2>2. StoreWrite(UpdateRow(db, cur, "FILLED", wqty))
    BY <1>23 DEF StoreFilled, StoreUpdate
  <2>3. RowsKept(cur)
    BY <2>1, <2>2, UpdateRowKeepsRows DEF StoreReliable
  <2> QED
    BY <1>23, <2>1, <2>3 DEF StoreFilled, StoreUpdate, IntentFrame, Goto, RowInv,
      WriteAhead, Registered, CtxAlive, WorkersUp, TypeOK, Control, AtRest, RowsKept
<1>24. CASE StoreRestCosts
  <2>1. db \in [Ids -> Row] /\ Commission(resp) \in Nat
    BY DEF TypeOK, Commission, Fill
  <2>2. StoreWrite(RecordFillCosts(db, cur, Commission(resp)))
    BY <1>24 DEF StoreRestCosts
  <2>3. \A o \in Ids : db'[o].state = db[o].state
    BY <2>1, <2>2, RecordFillCostsRows DEF StoreReliable, StoreWrite, Fault
  <2>4. DOMAIN db' = DOMAIN db
    BY <2>1, <2>2, TypeOfRecordFillCosts DEF StoreReliable, StoreWrite, Fault
  <2> QED
    BY <1>24, <2>1, <2>3, <2>4 DEF StoreRestCosts, IntentFrame, Goto, RowInv, WriteAhead,
      Registered, CtxAlive, WorkersUp, TypeOK, Control, AtRest, GetActiveOrders
<1>25. CASE PublishRestFill
  BY <1>25 DEF PublishRestFill, IntentFrame, Goto, ToFetch, RowInv, WriteAhead,
      Registered, CtxAlive, WorkersUp, TypeOK, Control, AtRest
<1>26. CASE CommitOffset
  BY <1>26 DEF CommitOffset, IntentFrame, Goto, ToFetch, RowInv, WriteAhead, Registered,
      CtxAlive, WorkersUp, TypeOK, Control, AtRest
<1>27. CASE ReceiveFill
  <2>1. Head(chan) = chan[1] /\ 1 \in DOMAIN chan /\ Head(chan) \in Fill
    BY <1>27 DEF ReceiveFill, TypeOK
  <2>2. fill'.status # Absent
    BY <1>27, <2>1 DEF ReceiveFill, Control, OrderStates, Absent
  <2>3. \A o \in Ids : states[o] # Absent => states'[o] # Absent
    BY <1>27, <2>2 DEF ReceiveFill, TypeOK
  <2>4. fill'.order \in Ids => states'[fill'.order] # Absent
    BY <1>27, <2>2 DEF ReceiveFill, TypeOK
  <2> QED
    BY <1>27, <2>3, <2>4 DEF ReceiveFill, FillFrame, RowInv, WriteAhead, Registered,
      CtxAlive, WorkersUp, TypeOK, Control, AtRest, GetActiveOrders
<1>28. CASE StoreFill
  <2>1. db \in [Ids -> Row] /\ fill.qty \in Nat /\ fill.status \in OrderStates
    BY <1>28 DEF StoreFill, TypeOK, Control, AtRest, OrderStates, Fill
  <2>2. StoreWrite(UpdateRow(db, fill.order, fill.status, fill.qty))
    BY <1>28 DEF StoreFill
  <2>3. RowsKept(fill.order)
    BY <2>1, <2>2, UpdateRowKeepsRows DEF StoreReliable
  <2> QED
    BY <1>28, <2>1, <2>3 DEF StoreFill, FillFrame, RowInv, WriteAhead, Registered,
      CtxAlive, WorkersUp, TypeOK, Control, AtRest, RowsKept
<1>29. CASE StoreFillCosts
  <2>1. db \in [Ids -> Row] /\ Commission(fill) \in Nat
    BY DEF TypeOK, Commission, Fill
  <2>2. StoreWrite(RecordFillCosts(db, fill.order, Commission(fill)))
    BY <1>29 DEF StoreFillCosts
  <2>3. \A o \in Ids : db'[o].state = db[o].state
    BY <2>1, <2>2, RecordFillCostsRows DEF StoreReliable, StoreWrite, Fault
  <2>4. DOMAIN db' = DOMAIN db
    BY <2>1, <2>2, TypeOfRecordFillCosts DEF StoreReliable, StoreWrite, Fault
  <2> QED
    BY <1>29, <2>1, <2>3, <2>4 DEF StoreFillCosts, FillFrame, RowInv, WriteAhead,
      Registered, CtxAlive, WorkersUp, TypeOK, Control, AtRest, GetActiveOrders
<1>30. CASE PublishStreamFill
  BY <1>30 DEF PublishStreamFill, FillFrame, RowInv, WriteAhead, Registered, CtxAlive,
      WorkersUp, TypeOK, Control, AtRest
<1>31. CASE StopFills
  BY <1>31 DEF StopFills, FillFrame, RowInv, WriteAhead, Registered, CtxAlive, WorkersUp,
      TypeOK, Control, AtRest
<1>32. CASE StreamConnect
  BY <1>32 DEF StreamConnect, StreamFrame, RowInv, WriteAhead, Registered, CtxAlive,
      WorkersUp, TypeOK, Control, AtRest
<1>33. CASE StreamDrop
  BY <1>33 DEF StreamDrop, StreamFrame, RowInv, WriteAhead, Registered, CtxAlive,
      WorkersUp, TypeOK, Control, AtRest
<1>34. CASE \E o \in Orders : VenueTrade(o)
  BY <1>34 DEF VenueTrade, StreamFrame, RowInv, WriteAhead, Registered, CtxAlive,
      WorkersUp, TypeOK, Control, AtRest
<1>35. CASE \E o \in Orders : VenueCancel(o)
  BY <1>35 DEF VenueCancel, StreamFrame, RowInv, WriteAhead, Registered, CtxAlive,
      WorkersUp, TypeOK, Control, AtRest
<1>36. CASE SetHalt
  BY <1>36 DEF SetHalt, OperatorFrame, RowInv, WriteAhead, Registered, CtxAlive,
      WorkersUp, TypeOK, Control, AtRest
<1>37. CASE ClearHalt
  BY <1>37 DEF ClearHalt, OperatorFrame, RowInv, WriteAhead, Registered, CtxAlive,
      WorkersUp, TypeOK, Control, AtRest
<1>38. CASE Sigterm
  BY <1>38 DEF Sigterm, OperatorFrame, RowInv, WriteAhead, Registered, CtxAlive,
      WorkersUp, TypeOK, Control, AtRest
<1>39. CASE CancelRoot
  BY <1>39 DEF CancelRoot, DrainClean, DrainDeadline, OperatorFrame, RowInv, WriteAhead,
      Registered, CtxAlive, WorkersUp, TypeOK, Control, AtRest
<1>40. CASE Exit
  BY <1>40 DEF Exit, LoseMemory, RowInv, WriteAhead, Registered, CtxAlive, WorkersUp,
      TypeOK, Control, AtRest
<1>41. CASE Restart
  BY <1>41 DEF Restart, RowInv, WriteAhead, Registered, CtxAlive, WorkersUp, TypeOK,
      Control, AtRest
<1>42. CASE Crash
  BY <1>42 DEF Crash, LoseMemory, RowInv, WriteAhead, Registered, CtxAlive, WorkersUp,
      TypeOK, Control, AtRest
<1>43. CASE Idle
  BY <1>43 DEF Idle, vars, RowInv, WriteAhead, Registered, CtxAlive, WorkersUp, TypeOK,
      Control, AtRest
<1>44. CASE UNCHANGED vars
  BY <1>44 DEF vars, RowInv, WriteAhead, Registered, CtxAlive, WorkersUp, TypeOK, Control, AtRest
<1> QED
  BY <1>1, <1>2, <1>3, <1>4, <1>5, <1>6, <1>7, <1>8, <1>9, <1>10, <1>11, <1>12, <1>13,
      <1>14, <1>15, <1>16, <1>17, <1>18, <1>19, <1>20, <1>21, <1>22, <1>23, <1>24, <1>25,
      <1>26, <1>27, <1>28, <1>29, <1>30, <1>31, <1>32, <1>33, <1>34, <1>35, <1>36, <1>37,
      <1>38, <1>39, <1>40, <1>41, <1>42, <1>43, <1>44
  DEF Next, Boot, IntentsWorker, FillsWorker, Shutdown, Environment


\* With a reliable store, whatever else fails and however the process is
\* stopped, a submitted order has a row in the store.
THEOREM StoredBeforeSubmitted ==
  ASSUME StoreReliable PROVE Spec => []WriteAhead
<1>1. Spec => [](TypeInv /\ RowInv)
  BY TypeInit, TypeStep, RowInit, RowStep, PTL DEF Spec
<1> QED
  BY <1>1, PTL DEF RowInv

\* With a reliable store, the tracker knows every order that the store holds as
\* active, so none of them passes the duplicate check.
THEOREM ActiveOrdersAreKnown ==
  ASSUME StoreReliable PROVE Spec => []ActiveOrdersKnown
<1>1. Spec => [](TypeInv /\ RowInv)
  BY TypeInit, TypeStep, RowInit, RowStep, PTL DEF Spec
<1>2. TypeInv /\ RowInv => ActiveOrdersKnown
  BY DEF TypeInv, TypeOK, RowInv, ActiveOrdersKnown, WorkersUp, GetActiveOrders
<1> QED
  BY <1>1, <1>2, PTL

-----------------------------------------------------------------------------
(* Only what the risk check lets pass reaches the venue.                    *)

\* The control points between the risk check and the submission.
Passed == {"limit", "savePending", "submit"}

\* The order in hand at the risk check is a valid one, past it one that the
\* check has not refused, and the venue has no other orders.
PassInv ==
  /\ ipc = "risk" => cur \in Orders
  /\ ipc \in Passed => cur \in Orders \ Refused
  /\ \A o \in Ids : venue[o].n > 0 => o \in Orders \ Refused

\* At first the worker has nothing in hand and the venue no order.
LEMMA PassInit == Init => PassInv
BY DEF Init, PassInv, Passed

\* An order gets past the risk check only by passing it, and to the risk check
\* only by passing ValidateOrderID.
LEMMA PassStep ==
  ASSUME [Next]_vars
  PROVE  /\ ipc' \in Passed =>
              /\ cur' = cur
              /\ ipc \in Passed \/ (ipc = "risk" /\ RiskAllowed(cur))
         /\ ipc' = "risk" => cur' = cur /\ (ipc = "risk" \/ (ipc = "validate" /\ cur \notin BadIds))
<1> USE DEF Passed
<1>1. CASE CheckRisk \/ ValidateIntent
  BY <1>1 DEF CheckRisk, ValidateIntent, AfterRefusal, Goto
<1>2. CASE \/ FetchIntent \/ StopIntents \/ CheckHalt \/ SaveRejected \/ LimiterWait \/ SavePending
           \/ SubmitAccepted \/ SubmitRefused \/ SubmitReturns \/ SubmitTimesOut
  BY <1>2 DEF FetchIntent, StopIntents, CheckHalt, SaveRejected, LimiterWait, SavePending,
     SubmitAccepted, SubmitRefused, SubmitReturns, SubmitTimesOut, Goto, ToFetch
<1>3. CASE \/ MarkFailed \/ StoreFailed \/ MarkSubmitted \/ StoreSubmitted \/ MarkFilled \/ StoreFilled
           \/ StoreRestCosts \/ PublishRestFill \/ CommitOffset
  BY <1>3 DEF MarkFailed, StoreFailed, MarkSubmitted, StoreSubmitted, MarkFilled, StoreFilled,
     StoreRestCosts, PublishRestFill, CommitOffset, UpdateOrderState, StoreUpdate,
     AfterAccepted, Goto, ToFetch
<1>4. CASE Boot
  BY <1>4 DEF Boot, Preload, ReconcileQuery, ReconcilePublish, ReconcileSync, Start, intentVars
<1>5. CASE FillsWorker
  BY <1>5 DEF FillsWorker, ReceiveFill, StoreFill, StoreFillCosts, PublishStreamFill,
              StopFills, FillFrame, intentVars
<1>6. CASE StreamConnect \/ StreamDrop \/ \E o \in Orders : VenueTrade(o) \/ VenueCancel(o)
  BY <1>6 DEF StreamConnect, StreamDrop, VenueTrade, VenueCancel, StreamFrame, intentVars
<1>7. CASE Sigterm \/ SetHalt \/ ClearHalt \/ CancelRoot
  BY <1>7 DEF Sigterm, SetHalt, ClearHalt, CancelRoot, OperatorFrame, intentVars
<1>8. CASE Exit \/ Crash \/ Restart \/ Idle \/ UNCHANGED vars
  BY <1>8 DEF Exit, Crash, Restart, LoseMemory, Idle, vars, intentVars
<1> QED
  BY <1>1, <1>2, <1>3, <1>4, <1>5, <1>6, <1>7, <1>8
     DEF Next, IntentsWorker, Shutdown, Environment

\* The venue gets an order by an accepted submission of the order in hand and in
\* no other way.
LEMMA ReachedStep ==
  ASSUME TypeInv, [Next]_vars, NEW o \in Ids
  PROVE  venue'[o].n = venue[o].n \/ (SubmitAccepted /\ o = cur)
<1> USE DEF TypeInv
<1>0. venue \in [Ids -> VenueOrder] /\ venue[o] \in VenueOrder
  BY DEF TypeOK
<1>1. CASE SubmitAccepted
  BY <1>0, <1>1 DEF SubmitAccepted
<1>2. CASE \E p \in Orders : VenueTrade(p)
  <2>1. PICK p \in Orders : VenueTrade(p)
    BY <1>2
  <2>2. PICK q \in 1..(Qty[p] - venue[p].exec) :
          venue' = [venue EXCEPT ![p] = Executed(venue[p], q, Qty[p])]
    BY <2>1 DEF VenueTrade
  <2> QED
    BY <1>0, <2>2 DEF Executed
<1>3. CASE \E p \in Orders : VenueCancel(p)
  <2>1. PICK p \in Orders, s \in ClosedStatuses : venue' = [venue EXCEPT ![p].status = s]
    BY <1>3 DEF VenueCancel
  <2> QED
    BY <1>0, <2>1 DEF VenueOrder
<1>4. CASE UNCHANGED venue
  BY <1>4
<1>5. CASE IntentsWorker /\ ~SubmitAccepted
  BY <1>4, <1>5 DEF IntentsWorker, FetchIntent, StopIntents, CheckHalt, ValidateIntent,
    CheckRisk, SaveRejected, LimiterWait, SavePending, SubmitRefused, SubmitReturns,
    SubmitTimesOut, MarkFailed, StoreFailed, MarkSubmitted, StoreSubmitted, MarkFilled,
    StoreFilled, StoreRestCosts, PublishRestFill, CommitOffset, UpdateOrderState,
    StoreUpdate, IntentFrame
<1>6. CASE Boot
  BY <1>4, <1>6 DEF Boot, Preload, ReconcileQuery, ReconcilePublish, ReconcileSync, Start
<1>7. CASE FillsWorker
  BY <1>4, <1>7 DEF FillsWorker, ReceiveFill, StoreFill, StoreFillCosts,
                    PublishStreamFill, StopFills, FillFrame
<1>8. CASE StreamConnect \/ StreamDrop \/ Sigterm \/ SetHalt \/ ClearHalt \/ CancelRoot
  BY <1>4, <1>8 DEF StreamConnect, StreamDrop, Sigterm, SetHalt, ClearHalt, CancelRoot, OperatorFrame
<1>9. CASE Exit \/ Crash \/ Restart \/ Idle \/ UNCHANGED vars
  BY <1>4, <1>9 DEF Exit, Crash, Restart, LoseMemory, Idle, vars
<1> QED
  BY <1>1, <1>2, <1>3, <1>5, <1>6, <1>7, <1>8, <1>9 DEF Next, Shutdown, Environment

\* Every step keeps this, whatever fails.
LEMMA PassInvStep ==
  ASSUME TypeInv, PassInv, [Next]_vars
  PROVE  PassInv'
<1>1. ipc' = "risk" => cur' \in Orders
  <2>1. ipc = "validate" => cur \in Ids
    BY DEF TypeInv, Control, AtRest
  <2> QED
    BY <2>1, PassStep DEF PassInv, Ids
<1>2. ipc' \in Passed => cur' \in Orders \ Refused
  BY PassStep DEF PassInv, RiskAllowed
<1>3. SubmitAccepted => ipc = "submit"
  BY DEF SubmitAccepted
<1>4. \A o \in Ids : venue'[o].n > 0 => o \in Orders \ Refused
  BY <1>3, ReachedStep DEF PassInv, Passed
<1> QED
  BY <1>1, <1>2, <1>4 DEF PassInv
=============================================================================
