---------------------------- MODULE LeadWorkflow ----------------------------
(***************************************************************************)
(* The lead's workflow (src/workflows/lead.workflow.ts and the engine that *)
(* applies it): which status may follow which, and what must be true of    *)
(* the lead's visits, demos and opportunity for the step to be allowed.    *)
(*                                                                         *)
(* A context record holds what the engine is shown about the lead:         *)
(*   exit        the reason given, or kept from an earlier drop            *)
(*   qualified   the four qualification fields are filled in               *)
(*   demo        a demo exists or is in the request                        *)
(*   visits      the lead's visits, as [status, saidNo] records            *)
(*   outcomes    the visited properties, as [interested, reason] records   *)
(*   value       the opportunity has an expected value                     *)
(*   target      ... and a property or unit                                *)
(*   bookingCancelled   the caller is cancelling the lead's booking        *)
(***************************************************************************)
EXTENDS FiniteSets

CONSTANT None

Working ==
    {"ASSIGNED", "CONTACTED", "QUALIFIED", "DEMO_SCHEDULED", "DEMO_COMPLETED",
     "SITE_VISIT_SCHEDULED", "SITE_VISIT_COMPLETED", "NEGOTIATION", "BOOKING_INITIATED"}

LeadStatus == Working \cup {"NEW", "BOOKED", "DROPPED", "RECOVERED_TO_POOL"}

DroppableFrom == Working

\* Every working status may be dropped or booked; the rest is a line with two shortcuts.
transitionMatrix ==
    (Working \X {"DROPPED", "BOOKED"}) \cup
    {<<"NEW", "ASSIGNED">>, <<"ASSIGNED", "CONTACTED">>, <<"CONTACTED", "QUALIFIED">>,
     <<"QUALIFIED", "DEMO_SCHEDULED">>, <<"QUALIFIED", "SITE_VISIT_SCHEDULED">>,
     <<"DEMO_SCHEDULED", "DEMO_COMPLETED">>, <<"DEMO_COMPLETED", "SITE_VISIT_SCHEDULED">>,
     <<"SITE_VISIT_SCHEDULED", "SITE_VISIT_COMPLETED">>,
     <<"SITE_VISIT_COMPLETED", "NEGOTIATION">>, <<"SITE_VISIT_COMPLETED", "SITE_VISIT_SCHEDULED">>,
     <<"NEGOTIATION", "BOOKING_INITIATED">>, <<"BOOKED", "DROPPED">>,
     <<"DROPPED", "RECOVERED_TO_POOL">>, <<"RECOVERED_TO_POOL", "ASSIGNED">>}

LiveVisits(ctx) == {v \in ctx.visits : v.status # "CANCELLED"}

\* What must have happened before the lead may enter a stage.
StageGuard_AnyVisit(from, to, ctx) ==
    /\ to = "QUALIFIED" => ctx.qualified
    /\ to = "DEMO_SCHEDULED" => ctx.demo
    /\ from = "BOOKED" => ctx.bookingCancelled
    /\ to \in {"SITE_VISIT_SCHEDULED", "SITE_VISIT_COMPLETED"} => LiveVisits(ctx) # {}

StageGuard(from, to, ctx) ==
    /\ to = "QUALIFIED" => ctx.qualified
    /\ to = "DEMO_SCHEDULED" => ctx.demo
    /\ from = "BOOKED" => ctx.bookingCancelled
    /\ to = "SITE_VISIT_SCHEDULED" =>
         /\ LiveVisits(ctx) # {}
         /\ from = "SITE_VISIT_COMPLETED" => \E v \in LiveVisits(ctx) : v.status # "COMPLETED"
    /\ to = "SITE_VISIT_COMPLETED" =>
         /\ LiveVisits(ctx) # {}
         /\ \A v \in LiveVisits(ctx) : v.status = "COMPLETED"

\* After a visit, the customer's "no" must be on record.
SaidNo(ctx) ==
    IF ctx.outcomes = {}
    THEN LET done == {v \in ctx.visits : v.status = "COMPLETED"}
         IN done # {} /\ \A v \in done : v.saidNo
    ELSE \A o \in ctx.outcomes : ~o.interested /\ o.reason

\* What must be known before the deal is made, or given up.
DealGuard(from, to, ctx) ==
    /\ to = "NEGOTIATION" => ctx.value
    /\ to = "BOOKING_INITIATED" => ctx.value /\ ctx.target
    /\ to = "DROPPED" =>
         /\ from = "SITE_VISIT_COMPLETED" => SaidNo(ctx)
         /\ from \in DroppableFrom \/ (from = "BOOKED" /\ ctx.bookingCancelled)
         /\ ctx.exit # None

\* A step to the same status is always allowed.
canTransition(from, to, ctx) ==
    \/ from = to
    \/ /\ <<from, to>> \in transitionMatrix
       /\ StageGuard(from, to, ctx)
       /\ DealGuard(from, to, ctx)
=============================================================================
