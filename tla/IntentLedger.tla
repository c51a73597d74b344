---------------------------- MODULE IntentLedger ----------------------------
(***************************************************************************)
(* What the execution gateway promises about an intents topic, without its  *)
(* tracker, workers or recovery: every valid intent is recorded durably     *)
(* before an order goes to the venue, the order goes out at most once in    *)
(* each life of the process, and the offset only moves forward and only     *)
(* over intents that have been recorded.                                    *)
(***************************************************************************)
EXTENDS Integers, Sequences

CONSTANTS Orders, BadIds, Log

VARIABLES
  recorded,   \* IDs that survive a crash of the process
  sent,       \* submissions per ID in this life
  offset      \* messages of Log acknowledged

ledgerVars == <<recorded, sent, offset>>

Ids == Orders \cup BadIds

Init == recorded = {} /\ sent = [id \in Ids |-> 0] /\ offset = 0

Record(id) ==
  /\ recorded' = recorded \cup {id}
  /\ UNCHANGED <<sent, offset>>

Submit(id) ==
  /\ id \in recorded /\ sent[id] = 0
  /\ sent' = [sent EXCEPT ![id] = 1]
  /\ UNCHANGED <<recorded, offset>>

Acknowledge(p) ==
  /\ offset < p
  /\ \A i \in 1..p : Log[i] \in Orders => Log[i] \in recorded
  /\ offset' = p
  /\ UNCHANGED <<recorded, sent>>

NewLife ==
  /\ sent' = [id \in Ids |-> 0]
  /\ UNCHANGED <<recorded, offset>>

Next == \/ \E id \in Ids : Record(id) \/ Submit(id)
        \/ \E p \in 1..Len(Log) : Acknowledge(p)
        \/ NewLife

Spec == Init /\ [][Next]_ledgerVars
=============================================================================
