----------------------------- MODULE OrderStore -----------------------------
(***************************************************************************)
(* The order life-cycle states (internal/exchange/connector.go), their      *)
(* mapping from Binance statuses (internal/exchange/binance.go) and the     *)
(* statements of the SQLite order store (internal/gateway/store.go) as      *)
(* operators on the orders table.                                           *)
(*                                                                          *)
(* A table is a function from order IDs to rows [state, filled, fee]; a row *)
(* whose state is "NONE" does not exist, and fee is the commission column.  *)
(* The columns no property tells apart (instrument, price, type, slippage,  *)
(* timestamps) are left out, and the model covers one trading day:          *)
(* created_at is always "today", so the daily counts count every row.       *)
(***************************************************************************)
EXTENDS Integers, FiniteSets

\* exchange.OrderState values.
OrderStates == {"PENDING", "SUBMITTED", "PARTIALLY_FILLED", "FILLED",
                "CANCELED", "REJECTED", "EXPIRED"}

\* The states GetActiveOrders and GetAllActiveOrders leave out.
TerminalStates == {"FILLED", "CANCELED", "REJECTED", "EXPIRED"}

\* "NONE" stands for an absent map entry or table row.
Absent == "NONE"
StatesOrAbsent == OrderStates \cup {Absent}

Row == [state : StatesOrAbsent, filled : Nat, fee : Nat]
NoRow == [state |-> Absent, filled |-> 0, fee |-> 0]

Sides == {"BUY", "SELL"}

\* The statuses the venue reports for an order it knows; the last one stands
\* for those the code has no case for.
ClosedStatuses == {"FILLED", "CANCELED", "EXPIRED", "EXPIRED_IN_MATCH"}
VenueStatuses == {"NEW", "PARTIALLY_FILLED"} \cup ClosedStatuses

MapBinanceStatus(status) ==
  IF status = "NEW" THEN "SUBMITTED"
  ELSE IF status \in OrderStates \ {"PENDING", "SUBMITTED"} THEN status
  ELSE "PENDING"

-----------------------------------------------------------------------------
\* INSERT ... ON CONFLICT(order_id) DO UPDATE SET state: a new row starts with
\* filled_qty 0, an existing one keeps its filled_qty and its costs.
SaveOrder(table, id, state) == [table EXCEPT ![id].state = state]

\* UPDATE ... WHERE order_id: nothing happens when the row does not exist.
UpdateRow(table, id, state, filledQty) ==
  IF table[id].state = Absent
    THEN table
    ELSE [table EXCEPT ![id].state = state, ![id].filled = filledQty]

\* UPDATE ... SET commission: the last fill's commission replaces the column.
RecordFillCosts(table, id, commission) ==
  IF table[id].state = Absent THEN table
  ELSE [table EXCEPT ![id].fee = commission]

\* The rows of a GetActiveOrders result.
GetActiveOrders(table) ==
  {id \in DOMAIN table : table[id].state \notin TerminalStates \cup {Absent}}

\* OrderTracker.lookupFilledQtyLocked: the quantity is searched among the
\* active rows only; any other order reads as 0.
LookupFilledQty(table, id) ==
  IF id \in GetActiveOrders(table) THEN table[id].filled ELSE 0

Rows(table) == {id \in DOMAIN table : table[id].state # Absent}

\* SELECT COUNT(*): refused orders count too.
GetDailyOrderCount(table) == Cardinality(Rows(table))

GetDailyOrderCountBySide(table, sideOf, side) ==
  Cardinality({id \in Rows(table) : sideOf[id] = side})
=============================================================================
