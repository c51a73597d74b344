----------------------------- MODULE MCGateway -----------------------------
(***************************************************************************)
(* Instances of Gateway for TLC: intents topics, sizes and sides.           *)
(***************************************************************************)
EXTENDS GatewayClaims

CONSTANTS o1, o2, o3, o4, bad

OneIntent == <<o1>>
RepeatedIntent == <<o1, o1>>
TwoOrders == <<o1, o2>>
TwoOrdersRepeated == <<o1, o2, o1>>
\* A message that does not parse, an invalid ID and four orders.
MixedIntents == <<Malformed, o1, bad, o2, o3, o4>>

UnitQty == [id \in Ids |-> 1]
PairQty == [id \in Ids |-> 2]

AllBuys == [id \in Ids |-> "BUY"]
\* o1 and o2 buy, o3 and o4 sell.
BuysAndSells == [id \in Ids |-> IF id \in {o3, o4} THEN "SELL" ELSE "BUY"]
\* o1 is small, the others are too large for the limits below.
OneSmall == [id \in Ids |-> IF id = o1 THEN 1 ELSE 2]

\* Two limits on one instrument, written in lower case; no defaults.
LowerCaseFile ==
  [defaultMaxQty |-> 0, defaultMaxNotional |-> 0,
   instruments |-> [k \in {<<"BTC-USD", FALSE>>} |-> Limits(1, 4, 1)]]

InstrumentMixedCase == [id \in Ids |-> <<"BTC-USD", id # o1>>]
PriceThree == [id \in Ids |-> 3]
\* Valid IDs of the greatest length, and one with a character too many.
Shapes == [id \in Ids |->
             [len |-> MaxOrderIDLen,
              chars |-> IF id = bad THEN {"letter", "other"} ELSE {"letter", "-"}]]

RefusedByPolicy ==
  LET policy == CHOOSE p \in RiskPolicies : TRUE
  IN  {o \in Orders : ~CheckIntent(policy, IntentOf(o))}
=============================================================================
