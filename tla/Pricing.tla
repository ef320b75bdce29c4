------------------------------- MODULE Pricing -------------------------------
(***************************************************************************)
(* The stored prices of the items for sale: recalculateUnit and            *)
(* recalculateProperty of src/services/pricing/pricing.service.ts, which   *)
(* every handler that edits an item calls after its own write.  An amount  *)
(* is the version of the fields it was computed from (what computePrice    *)
(* makes of them is arithmetic); the lines entered by hand are stored      *)
(* among the computed ones and rewritten with them.                        *)
(***************************************************************************)
EXTENDS Handlers

CONSTANT PricedItems

VARIABLES
    edited,    \* version of the item's fields
    priced,    \* the version its stored lines and totals were computed from
    manual,    \* version of the lines entered by hand, as they were entered
    lines      \* ... and as they are stored

prices == <<edited, priced, manual, lines>>

PricingInit ==
    /\ edited = [i \in PricedItems |-> 0] /\ priced = edited
    /\ manual = [i \in PricedItems |-> 0] /\ lines = manual

\* A handler's own write to the fields that make the price.
Edit(i) == edited' = [edited EXCEPT ![i] = @ + 1]

\* recalculateUnit, recalculateProperty: the item, its rules and its manual lines are read ...
recalculate(c) ==
    LET job == call[c] IN
    /\ job.op = "price"
    /\ Continue(c, [job EXCEPT !.op = "persist", !.was = <<edited[job.on], lines[job.on]>>])
    /\ UNCHANGED prices

\* ... and one transaction deletes every stored line, manual ones too, and writes them anew.
persistComputation(c) ==
    LET job == call[c] IN
    /\ job.op = "persist"
    /\ priced' = [priced EXCEPT ![job.on] = job.was[1]]
    /\ lines' = [lines EXCEPT ![job.on] = job.was[2]]
    /\ Done(c)
    /\ UNCHANGED <<edited, manual>>

\* The manual lines of a request replace the stored ones: deleted, then created.
replaceManualLines(c) ==
    LET job == call[c] IN
    /\ job.op = "manual"
    /\ manual' = [manual EXCEPT ![job.on] = @ + 1]
    /\ lines' = [lines EXCEPT ![job.on] = manual[job.on] + 1]
    /\ Done(c)
    /\ UNCHANGED <<edited, priced>>

PricingStep(c) == recalculate(c) \/ persistComputation(c) \/ replaceManualLines(c)

-----------------------------------------------------------------------------
\* "Every create/update recomputes price via PricingService so the persisted PriceLine rows are
\* never stale relative to the fields that produced them": so it is, and the lines entered by
\* hand are the last ones entered, as long as no two handlers overlap and none fails.
PricesFresh == Undisturbed => priced = edited /\ lines = manual
==============================================================================
