----------------------------- MODULE RiskPolicy -----------------------------
(***************************************************************************)
(* The pure checks of internal/gateway/risk.go: the size policy, as written *)
(* in risk.yaml, as loaded, and as applied to an intent, and the rule for    *)
(* order IDs.                                                                *)
(*                                                                          *)
(* An instrument is <<name, upper>>: its name and whether it is written in   *)
(* upper case.  A limit of 0 is "no cap".                                    *)
(***************************************************************************)
EXTENDS Integers

Limits(maxQty, maxNotional, minQty) ==
  [maxQty |-> maxQty, maxNotional |-> maxNotional, minQty |-> minQty]

\* strings.ToUpper.
ToUpper(instrument) == <<instrument[1], TRUE>>

\* Mutant: keys are kept as the operator wrote them.
LoadRiskPolicy_AsWritten(file) == {file}
\* The policies a risk.yaml may be loaded as.  Keys become upper case; of two
\* that become equal, the last one in Go's random map order stays.
LoadRiskPolicy(file) ==
  LET written == DOMAIN file.instruments
      keys == {ToUpper(k) : k \in written}
      winners == {w \in [keys -> written] : \A k \in keys : ToUpper(w[k]) = k}
  IN  {[file EXCEPT !.instruments = [k \in keys |-> file.instruments[w[k]]]]
         : w \in winners}

\* The policy without a risk.yaml.
NewLegacyRiskPolicy(maxBTC, maxETH) ==
  LET btc == {<<"BTC-USD", TRUE>>, <<"BTCUSDT", TRUE>>}
      eth == {<<"ETH-USD", TRUE>>, <<"ETHUSDT", TRUE>>}
  IN  [defaultMaxQty |-> 0, defaultMaxNotional |-> 0,
       instruments |-> [k \in btc \cup eth |->
                          Limits(IF k \in btc THEN maxBTC ELSE maxETH, 0, 0)]]

\* The limits an intent is held to; unknown instruments get the defaults.
LimitsFor(policy, instrument) ==
  IF ToUpper(instrument) \in DOMAIN policy.instruments
    THEN policy.instruments[ToUpper(instrument)]
    ELSE Limits(policy.defaultMaxQty, policy.defaultMaxNotional, 0)

\* A MARKET order without a price has no notional to check.
Within(limits, qty, price) ==
  /\ limits.minQty > 0 => qty >= limits.minQty
  /\ limits.maxQty > 0 => qty <= limits.maxQty
  /\ limits.maxNotional > 0 /\ price > 0 => qty * price <= limits.maxNotional

CheckIntent(policy, intent) ==
  Within(LimitsFor(policy, intent.instrument), intent.qty, intent.price)

MaxOrderIDLen == 64

\* An ID by its length in bytes and the classes of its characters.
ValidateOrderID(shape) ==
  shape.len \in 1..MaxOrderIDLen /\ shape.chars \subseteq {"letter", "digit", "_", "-"}
=============================================================================
