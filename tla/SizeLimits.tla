----------------------------- MODULE SizeLimits -----------------------------
(***************************************************************************)
(* Gateway with the size policy and the ID rule of RiskPolicy in the place   *)
(* of the constants Refused and BadIds: main.go loads one policy at boot,    *)
(* the intents worker consults it for every order.                          *)
(***************************************************************************)
EXTENDS Gateway, RiskPolicy

CONSTANTS
  NoFile,          \* RISK_CONFIG_PATH is not set
  RiskFile,        \* risk.yaml as written, or NoFile
  MaxOrderQtyBTC, MaxOrderQtyETH,
  Instrument, Price,   \* per ID
  Shape                \* per ID: its length and its characters

\* The policies the process may run with.
RiskPolicies ==
  IF RiskFile = NoFile
    THEN {NewLegacyRiskPolicy(MaxOrderQtyBTC, MaxOrderQtyETH)}
    ELSE LoadRiskPolicy(RiskFile)

IntentOf(id) == [instrument |-> Instrument[id], qty |-> Qty[id], price |-> Price[id]]

\* CheckIntent and ValidateOrderID are what Gateway abstracts from.
ASSUME PolicyAssumption ==
  /\ \E policy \in RiskPolicies :
        Refused = {o \in Orders : ~CheckIntent(policy, IntentOf(o))}
  /\ BadIds = {id \in Ids : ~ValidateOrderID(Shape[id])}

\* The fields of the struct RiskPolicy, into which risk.yaml is decoded.
ASSUME FileAssumption ==
  RiskFile # NoFile =>
    DOMAIN RiskFile = {"defaultMaxQty", "defaultMaxNotional", "instruments"}

\* The limits the operator wrote for an instrument, in whatever letter case the
\* file or the intent has it; without any, the defaults of the file.
WrittenLimits(id) ==
  LET named == {k \in DOMAIN RiskFile.instruments : k[1] = Instrument[id][1]}
  IN  IF named = {}
        THEN {Limits(RiskFile.defaultMaxQty, RiskFile.defaultMaxNotional, 0)}
        ELSE {RiskFile.instruments[k] : k \in named}

\* Whatever reaches the venue, in whichever life of the process and after
\* whatever redelivery, is within limits the operator wrote for its instrument
\* and has an ID the gateway accepts.
VenueOrdersWithinPolicy ==
  \A id \in Ids :
     venue[id].n > 0 =>
       /\ ValidateOrderID(Shape[id])
       /\ RiskFile # NoFile =>
            \E limits \in WrittenLimits(id) : Within(limits, Qty[id], Price[id])
=============================================================================
