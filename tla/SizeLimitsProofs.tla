-------------------------- MODULE SizeLimitsProofs --------------------------
(***************************************************************************)
(* The size policy of risk.yaml and the ID rule hold for everything at the   *)
(* venue: for every file, however its keys are written and whichever of two  *)
(* keys that become equal the map iteration keeps, and for every topic.      *)
(***************************************************************************)
EXTENDS SizeLimits, GatewaySafetyProofs

\* Loading only upper-cases keys: the limits an intent is held to under the
\* loaded policy are limits that the file gives for its instrument, or the
\* file's defaults when it gives none (LoadRiskPolicy, then limitsFor).
LEMMA LoadedLimitsAreWritten ==
  ASSUME RiskFile # NoFile, NEW policy \in LoadRiskPolicy(RiskFile), NEW id
  PROVE  LimitsFor(policy, Instrument[id]) \in WrittenLimits(id)
<1> DEFINE written == DOMAIN RiskFile.instruments
           keys == {ToUpper(k) : k \in written}
           upper == ToUpper(Instrument[id])
<1>1. PICK w \in [keys -> written] :
        /\ \A k \in keys : ToUpper(w[k]) = k
        /\ policy = [RiskFile EXCEPT !.instruments = [k \in keys |-> RiskFile.instruments[w[k]]]]
  BY DEF LoadRiskPolicy
<1>2. /\ policy.instruments = [k \in keys |-> RiskFile.instruments[w[k]]]
      /\ policy.defaultMaxQty = RiskFile.defaultMaxQty
      /\ policy.defaultMaxNotional = RiskFile.defaultMaxNotional
  BY <1>1, FileAssumption
<1>3. CASE upper \in keys
  <2>1. LimitsFor(policy, Instrument[id]) = RiskFile.instruments[w[upper]]
    BY <1>2, <1>3 DEF LimitsFor
  <2>2. w[upper] \in written /\ ToUpper(w[upper]) = upper
    BY <1>1, <1>3
  <2>3. w[upper][1] = Instrument[id][1]
    BY <2>2 DEF ToUpper
  <2> QED
    BY <2>1, <2>2, <2>3 DEF WrittenLimits
<1>4. CASE upper \notin keys
  <2>1. LimitsFor(policy, Instrument[id])
          = Limits(RiskFile.defaultMaxQty, RiskFile.defaultMaxNotional, 0)
    BY <1>2, <1>4 DEF LimitsFor
  <2>2. {k \in written : k[1] = Instrument[id][1]} = {}
    BY <1>4 DEF ToUpper
  <2> QED
    BY <2>1, <2>2 DEF WrittenLimits
<1> QED
  BY <1>3, <1>4

\* An order that the risk check does not refuse is within written limits.
LEMMA AdmittedIsWithin ==
  ASSUME NEW o \in Orders \ Refused
  PROVE  /\ ValidateOrderID(Shape[o])
         /\ RiskFile # NoFile => \E limits \in WrittenLimits(o) : Within(limits, Qty[o], Price[o])
<1>1. ValidateOrderID(Shape[o])
  <2>1. o \in Ids /\ o \notin BadIds
    BY OrdersAssumption DEF Ids
  <2> QED
    BY <2>1, PolicyAssumption
<1>2. ASSUME RiskFile # NoFile
      PROVE  \E limits \in WrittenLimits(o) : Within(limits, Qty[o], Price[o])
  <2>1. PICK policy \in LoadRiskPolicy(RiskFile) :
          Refused = {p \in Orders : ~CheckIntent(policy, IntentOf(p))}
    BY <1>2, PolicyAssumption DEF RiskPolicies
  <2>2. CheckIntent(policy, IntentOf(o))
    BY <2>1
  <2>3. Within(LimitsFor(policy, Instrument[o]), Qty[o], Price[o])
    BY <2>2 DEF CheckIntent, IntentOf
  <2> QED
    BY <1>2, <2>3, LoadedLimitsAreWritten
<1> QED
  BY <1>1, <1>2

\* Whatever fails, crashes, is repeated or is shut down, an order at the venue is
\* within limits the operator wrote for its instrument and has a valid ID.
THEOREM VenueOrdersAreWithinPolicy == Spec => []VenueOrdersWithinPolicy
<1>1. Spec => [](TypeInv /\ PassInv)
  <2>1. Init => TypeInv /\ PassInv
    BY TypeInit, PassInit
  <2>2. TypeInv /\ PassInv /\ [Next]_vars => (TypeInv /\ PassInv)'
    BY TypeStep, PassInvStep
  <2> QED
    BY <2>1, <2>2, PTL DEF Spec
<1>2. PassInv => VenueOrdersWithinPolicy
  BY AdmittedIsWithin DEF PassInv, VenueOrdersWithinPolicy
<1> QED
  BY <1>1, <1>2, PTL
=============================================================================
