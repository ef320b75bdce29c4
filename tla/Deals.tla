-------------------------------- MODULE Deals --------------------------------
(***************************************************************************)
(* One lead's opportunities, their conversion into bookings, and its demos *)
(* (opportunity.service.ts, demo.service.ts).  The lead moves along with   *)
(* them, and by its own handlers (see Leads and SiteVisits), of which only *)
(* the effect on these rows is kept here.                                  *)
(*                                                                         *)
(* Abstracted: amounts, attribution and dates, the customer's row, the     *)
(* lead's visits, notes and notifications.                                 *)
(***************************************************************************)
EXTENDS Handlers, LeadWorkflow

CONSTANTS
    Items,         \* properties and units
    Agents,        \* employees who own opportunities and run demos
    Bosses,        \* management: MD, ADMIN, HR, marketing director, managers
    MaxOpps,       \* bound: opportunities of the lead
    Demos,         \* bound: demos of the lead
    StartDeals     \* what a behaviour begins with: [lead, opps, demos]

ASSUME DealsAssumption == MaxOpps \in Nat
VARIABLES
    lead,          \* the lead's status
    opportunity,   \* its Opportunity rows, by creation
    sale,          \* the bookings its conversions made
    taken,         \* items a booking holds
    demo           \* its Demo rows

deals == <<lead, opportunity, sale, taken, demo>>

Opp(e, item) == [owner |-> e, item |-> item, booking |-> 0]
NoDemo == [state |-> "NONE", handler |-> None, accepted |-> FALSE]
Scheduled(e) == [state |-> "PENDING", handler |-> e, accepted |-> FALSE]
Demo == [state : {"PENDING", "DECLINED"}, handler : Agents, accepted : BOOLEAN]

ASSUME StartDealsAssumption ==
    \A s \in StartDeals :
      /\ s.lead \in LeadStatus
      /\ s.opps \in Seq([owner : Agents, item : Items \cup {None}, booking : {0}])
      /\ Len(s.opps) <= MaxOpps
      /\ s.demos \in [Demos -> Demo \cup {NoDemo}]

DealsTypeOK ==
    /\ lead \in LeadStatus
    /\ Len(opportunity) <= MaxOpps
    /\ \A o \in DOMAIN opportunity :
         opportunity[o] \in [owner : Agents, item : Items \cup {None}, booking : {0} \cup DOMAIN sale]
    /\ \A b \in DOMAIN sale : sale[b] \in [item : Items, live : BOOLEAN]
    /\ taken \subseteq Items
    /\ demo \in [Demos -> Demo \cup {NoDemo}]

DealsInit ==
    /\ \E s \in StartDeals : lead = s.lead /\ opportunity = s.opps /\ demo = s.demos
    /\ sale = <<>> /\ taken = {}

\* A job names the opportunity or demo it is about, the lead's status (where it goes by
\* it) and the item it has read.
DealJob(op, on, item, then) ==
    [op |-> op, on |-> on, seen |-> IF op \in {"open", "complete"} THEN lead ELSE None,
     item |-> item, who |-> None, then |-> then]

Read(c, job) == Begin(c, job) /\ UNCHANGED deals
HeldLead == UNCHANGED <<opportunity, sale, taken, demo>>

\* What the engine is shown of the lead; the visits are SiteVisits' concern.
Shown(opps) ==
    [exit |-> "REASON", qualified |-> TRUE, visits |-> {}, outcomes |-> {},
     demo |-> \E d \in Demos : demo[d].state # "NONE",
     value |-> opps # <<>>, target |-> \E o \in DOMAIN opps : opps[o].item # None,
     bookingCancelled |-> FALSE]

-----------------------------------------------------------------------------
(* Opportunities: services/opportunity.service.ts and its policy.           *)

canMutate(e, o) == e \in Bosses \/ opportunity[o].owner = e

(* The routes.                                                              *)
PostOpportunity(e) == e \in Agents
PatchOpportunity(e, o) == o \in DOMAIN opportunity /\ canMutate(e, o)
PostConvert(e, o) == o \in DOMAIN opportunity /\ canMutate(e, o)

\* createFromLead: the lead's status decides, as read, whether it goes on to negotiation.
createFromLead(c, e, item) ==
    /\ PostOpportunity(e)
    /\ Len(opportunity) < MaxOpps
    /\ Read(c, [DealJob("open", 0, item, <<>>) EXCEPT !.who = e])

openOpportunity(c) ==
    LET opps == Append(opportunity, Opp(call[c].who, call[c].item)) IN
    /\ call[c].op = "open" /\ Len(opportunity) < MaxOpps
    /\ opportunity' = opps
    /\ \/ /\ call[c].seen = "SITE_VISIT_COMPLETED"
          /\ canTransition(call[c].seen, "NEGOTIATION", Shown(opps))
          /\ lead' = "NEGOTIATION"
       \/ call[c].seen # "SITE_VISIT_COMPLETED" /\ UNCHANGED lead
    /\ Done(c)
    /\ UNCHANGED <<sale, taken, demo>>

\* createFromLeadTx: entering negotiation opens an opportunity unless there is one.
createFromLeadTx(e, item) ==
    IF opportunity = <<>> /\ MaxOpps > 0 THEN <<Opp(e, item)>> ELSE opportunity

\* updateOpportunity: the target is a property or a unit, whichever was given last.
updateOpportunity(c, e, o, item) ==
    /\ PatchOpportunity(e, o)
    /\ opportunity' = [opportunity EXCEPT ![o].item = item]
    /\ Serve(c)
    /\ UNCHANGED <<lead, sale, taken, demo>>

\* convertToBooking: what was read of the opportunity is what will be booked.
convertToBooking(c, e, o) ==
    /\ PostConvert(e, o)
    /\ lead = "BOOKING_INITIATED"
    /\ opportunity[o].booking = 0 /\ opportunity[o].item # None
    /\ Read(c, DealJob("convert", o, opportunity[o].item, <<>>))

\* The compare of the last write, which undoes the booking when it misses.
Unconverted_Seen(o) == TRUE
Unconverted(o) == opportunity[o].booking = 0

convertTx(c) ==
    LET o == call[c].on
        item == call[c].item IN
    /\ call[c].op = "convert"
    /\ IF item \notin taken /\ Unconverted(o)
       THEN /\ sale' = Append(sale, [item |-> item, live |-> TRUE])
            /\ taken' = taken \cup {item}
            /\ opportunity' = [opportunity EXCEPT ![o].booking = Len(sale) + 1]
       ELSE UNCHANGED <<sale, taken, opportunity>>
    /\ Done(c)
    /\ UNCHANGED <<lead, demo>>

\* A booking that is cancelled gives its item back (see Bookings).
bookingEnds(b) ==
    /\ b \in DOMAIN sale /\ sale[b].live
    /\ sale' = [sale EXCEPT ![b].live = FALSE]
    /\ taken' = taken \ {sale[b].item}
    /\ UNCHANGED <<running, lead, opportunity, demo>>

-----------------------------------------------------------------------------
(* Demos: services/demo.service.ts.                                         *)

HandlerOrBoss(e, d) == demo[d].state # "NONE" /\ (demo[d].handler = e \/ e \in Bosses)

(* The routes.                                                              *)
PostAccept(e, d) == HandlerOrBoss(e, d) /\ ~demo[d].accepted
PostDecline(e, d) == HandlerOrBoss(e, d) /\ ~demo[d].accepted
PostComplete(e, d) == HandlerOrBoss(e, d)
PostCancel(e, d) == HandlerOrBoss(e, d)
PostReassign(e, d) == demo[d].state = "PENDING"

acceptDemo(c, e, d) == PostAccept(e, d) /\ Read(c, DealJob("accept", d, None, <<>>))
declineDemo(c, e, d) == PostDecline(e, d) /\ Read(c, DealJob("decline", d, None, <<>>))
completeDemo(c, e, d) == PostComplete(e, d) /\ Read(c, DealJob("complete", d, None, <<>>))
cancelDemo(c, e, d) == PostCancel(e, d) /\ Read(c, DealJob("remove", d, None, <<"revert">>))
reassignDemo(c, e, d, to) ==
    /\ PostReassign(e, d)
    /\ Read(c, [DealJob("reassign", d, None, <<>>) EXCEPT !.who = to])

\* Updates by id; a row that is gone fails the request.
Rewritten_Nobody(job, row) ==
    CASE job.op = "accept"   -> [row EXCEPT !.accepted = TRUE]
      [] job.op = "decline"  -> [row EXCEPT !.state = "DECLINED"]
      [] job.op = "reassign" -> [row EXCEPT !.state = "PENDING", !.handler = None]

Rewritten(job, row) ==
    CASE job.op = "accept"   -> [row EXCEPT !.accepted = TRUE]
      [] job.op = "decline"  -> [row EXCEPT !.state = "DECLINED"]
      [] job.op = "reassign" -> [row EXCEPT !.state = "PENDING", !.handler = job.who]

rewriteDemo(c) ==
    LET d == call[c].on IN
    /\ call[c].op \in {"accept", "decline", "reassign"}
    /\ demo[d] # NoDemo
    /\ demo' = [demo EXCEPT ![d] = Rewritten(call[c], demo[d])]
    /\ Done(c)
    /\ UNCHANGED <<lead, opportunity, sale, taken>>

\* The engine judges the lead as it was read.
completeDemoTx(c) ==
    /\ call[c].op = "complete"
    /\ lead' = IF canTransition(call[c].seen, "DEMO_COMPLETED", Shown(opportunity))
               THEN "DEMO_COMPLETED" ELSE lead
    /\ Done(c)
    /\ HeldLead

\* cancelDemo deletes the row, then writes the lead's status itself.
removeDemo(c) ==
    /\ call[c].op = "remove" /\ demo[call[c].on] # NoDemo
    /\ demo' = [demo EXCEPT ![call[c].on] = NoDemo]
    /\ Done(c)
    /\ UNCHANGED <<lead, opportunity, sale, taken>>

revertLead(c) ==
    /\ call[c].op = "revert"
    /\ lead' = "QUALIFIED"
    /\ Done(c)
    /\ HeldLead

-----------------------------------------------------------------------------
(* The lead's own handlers, each in one step.                               *)

\* updateLeadStatus: a scheduled demo and an opening negotiation leave their rows.
leadMoves(to) ==
    /\ <<lead, to>> \in transitionMatrix
    /\ to = "DEMO_SCHEDULED" => \E d \in Demos : demo[d] = NoDemo
    /\ DealGuard(lead, to, [Shown(opportunity) EXCEPT !.value = TRUE])
    /\ lead' = to
    /\ IF to = "NEGOTIATION"
       THEN \E e \in Agents, item \in Items \cup {None} : opportunity' = createFromLeadTx(e, item)
       ELSE UNCHANGED opportunity
    /\ IF to = "DEMO_SCHEDULED"
       THEN \E d \in Demos, e \in Agents :
              demo[d] = NoDemo /\ demo' = [demo EXCEPT ![d] = Scheduled(e)]
       ELSE UNCHANGED demo
    /\ UNCHANGED <<running, sale, taken>>

DealRequests(c) ==
    \/ \E e \in Agents, item \in Items \cup {None} : createFromLead(c, e, item)
    \/ \E e \in Agents, o \in DOMAIN opportunity, item \in Items : updateOpportunity(c, e, o, item)
    \/ \E e \in Agents, o \in DOMAIN opportunity : convertToBooking(c, e, o)
    \/ \E e \in Agents, d \in Demos :
         \/ acceptDemo(c, e, d) \/ declineDemo(c, e, d) \/ completeDemo(c, e, d) \/ cancelDemo(c, e, d)
         \/ \E to \in Agents : reassignDemo(c, e, d, to)

DealCommits(c) ==
    openOpportunity(c) \/ convertTx(c) \/ rewriteDemo(c) \/ completeDemoTx(c) \/ removeDemo(c) \/ revertLead(c)

DealsAround ==
    \/ \E to \in LeadStatus : leadMoves(to)
    \/ \E b \in DOMAIN sale : bookingEnds(b)

-----------------------------------------------------------------------------
(* Properties.                                                              *)

\* However many conversions race, and whatever is edited between their reads and
\* their writes, an opportunity has one booking and every booking its opportunity:
\* the compare of booking_id undoes the others with their locks.
ConvertedOnce ==
    /\ \A b \in DOMAIN sale :
         Cardinality({o \in DOMAIN opportunity : opportunity[o].booking = b}) = 1
    /\ \A item \in Items :
         Cardinality({b \in DOMAIN sale : sale[b].item = item /\ sale[b].live})
           = (IF item \in taken THEN 1 ELSE 0)

\* Only steps of the workflow change the lead's status, as opportunity.service.ts:117-119
\* says ("the only authority allowed to write Lead.status").
OnlyWorkflowMovesLead ==
    [][lead' # lead => <<lead, lead'>> \in transitionMatrix]_lead
=============================================================================
