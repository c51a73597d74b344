--------------------------- MODULE GatewayClaims ---------------------------
(***************************************************************************)
(* Statements the repository makes about the gateway (comments, ADRs,       *)
(* contracts, runbook) that the code does not keep.  Each is refuted by a    *)
(* run; the README quotes the statement and explains the counterexample.    *)
(***************************************************************************)
EXTENDS SizeLimits

\* The units of an order's execution that a fill stands for.
Units(f) == (f.upto - f.qty + 1)..f.upto

\* ADR-0003: "anything the exchange completed while we were down is detected
\* and emitted on boot": when reconciliation is done, every quantity the store
\* counts as filled for the orders it visited has been published.
RestartsSelfHeal ==
  phase = "reconcile" /\ todo = {} /\ rpc = "query" =>
    \A o \in orders : \A u \in 1..db[o].filled :
       \E f \in topic : f.order = o /\ u \in Units(f)

\* ADR-0003: WithStore preloads the store "so the tracker's view survives
\* restarts": while both workers rest, the store has the tracker's states.
StoreMatchesTracker ==
  phase = "running" /\ ipc = "fetch" /\ fpc = "recv" =>
    \A o \in orders : db[o].state = states[o]

\* ports.go: Commit comes "after a successful submit (or risk rejection that
\* should not be retried)": a committed order that was not rejected has reached
\* the venue.
CommittedOrderReachedVenue ==
  \A p \in 1..committed :
     Log[p] \in Orders /\ db[Log[p]].state # "REJECTED" => venue[Log[p]].n > 0

\* CONTRACTS.md: "No two real fills across the three paths can collide": one
\* ExecutionID names one execution.
IdNamesOneFill ==
  \A f, g \in topic :
     f.order = g.order /\ f.path = g.path /\ f.key = g.key => f.upto = g.upto
=============================================================================
