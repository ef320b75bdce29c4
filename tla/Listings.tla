------------------------------ MODULE Listings ------------------------------
(***************************************************************************)
(* A property from its entry to the website: property.service.ts, its      *)
(* routes, its photos and its publication.  Every handler checks the row   *)
(* it reads and writes by id later, so two of them may interleave; the     *)
(* booking workflow locks a LIVE property meanwhile (see Bookings).        *)
(*                                                                         *)
(* Abstracted: the descriptive columns, codes and slugs, the log rows,   *)
(* notifications and the lead recovery a LIVE property starts (see Leads). *)
(***************************************************************************)
EXTENDS Pricing, FiniteSetsExt

CONSTANTS
    Properties, Images,
    Managers,      \* PROJECT_MANAGER
    MDs, Admins,   \* Technical Managers carry the ADMIN role
    Marketing,     \* DIGITAL_MARKETING_HEAD and the executives
    Clerks,        \* INVENTORY_EXECUTIVE, DATA_ENTRY_OPERATOR
    None,
    StartListings  \* rows and galleries a behaviour begins with: [row, photos]

Staff == Managers \cup MDs \cup Admins \cup Marketing \cup Clerks

VARIABLES
    listing,       \* the property rows
    gallery,       \* their PropertyImage rows
    published,     \* their PropertyPublication rows: is_published
    ruled,         \* properties with an active price rule of their own
    visitPm        \* the PM of an open site visit to the property, or None

listings == <<listing, gallery, published, ruled, visitPm>>

Pending == {"PENDING_VERIFICATION", "PENDING_DM_POLISH", "PENDING_MD_APPROVAL"}
Status == Pending \cup {"ABSENT", "LIVE", "REJECTED", "ARCHIVED", "LOCKED"}

NoListing == [status |-> "ABSENT", pm |-> None, creator |-> None, located |-> FALSE]
NoImage == [by |-> None, primary |-> FALSE, state |-> "NONE"]

\* What a behaviour begins with has come about as the code would have it.
Past == {"PENDING_DM_POLISH", "PENDING_MD_APPROVAL", "LIVE", "LOCKED"}
ListingRow == [status : Status, pm : Staff \cup {None}, creator : Staff \cup {None}, located : BOOLEAN]
Photos == [Images -> [by : Staff \cup {None}, primary : BOOLEAN,
                      state : {"NONE", "PENDING", "APPROVED", "REJECTED"}]]
ASSUME StartListingsAssumption ==
    \A start \in StartListings :
        /\ start.row \in ListingRow /\ (start.row.status \in Past => start.row.located)
        /\ start.photos \in Photos
        /\ \A m, n \in Images : start.photos[m].primary /\ start.photos[n].primary => m = n

ListingsTypeOK ==
    /\ \A p \in Properties :
         /\ listing[p] \in ListingRow
         /\ visitPm[p] \in Staff \cup {None}
    /\ gallery \in [Properties -> Photos]
    /\ published \in [Properties -> BOOLEAN] /\ ruled \subseteq Properties

ListingsInit ==
    /\ \E start \in [Properties -> StartListings] :
         /\ listing = [p \in Properties |-> start[p].row]
         /\ gallery = [p \in Properties |-> start[p].photos]
         /\ published = [p \in Properties |-> start[p].row.status = "LIVE"]
    /\ ruled = {}
    /\ visitPm = [p \in Properties |-> None]

-----------------------------------------------------------------------------
(* Who may do what: policies/property.policy.ts and authz/dataScope.ts.     *)

isOwningPm(e, row) == row.pm = e \/ (row.pm = None /\ row.creator = e)

canUpdateProperty(e, row) ==
    e \in Admins \cup MDs \cup Marketing \cup Clerks \/ (e \in Managers /\ isOwningPm(e, row))
canDeleteProperty(e) == e \in Admins
canChangePm(e) == e \in MDs \cup Admins
canVerifyProperty(e, row) == e \in MDs \cup Admins \/ (e \in Managers /\ row.pm = e)
canDMPolish(e) == e \in Marketing \cup MDs \cup Admins
canMDApprove(e) == e \in MDs \cup Admins

\* buildPropertyScope: the rows the employee's reads are filtered to.
buildPropertyScope(e, row) ==
    \/ e \in Admins \cup MDs \cup Marketing \cup Clerks
    \/ row.status = "LIVE" \/ row.creator = e
    \/ e \in Managers /\ row.pm = e

\* loadPropertyInScope: a route's resource loader.
loadPropertyInScope(e, p) ==
    listing[p].status # "ABSENT" /\ buildPropertyScope(e, listing[p])

(* The routes: src/routes/properties/.                                      *)
PostProperty(e) == e \in Managers \cup Admins \cup MDs \cup Clerks
PutProperty(e, p) == loadPropertyInScope(e, p) /\ canUpdateProperty(e, listing[p])
DeleteProperty(e, p) == loadPropertyInScope(e, p) /\ canDeleteProperty(e)
PostReassignProperty(e, p) == loadPropertyInScope(e, p) /\ canUpdateProperty(e, listing[p])
PostConfirmLocation(e) == e \in Managers \cup MDs \cup Admins
PostVerify(e) == e \in Managers \cup MDs \cup Admins
PostDmPolish(e) == canDMPolish(e)
PostDmVerifyAsIs(e) == canDMPolish(e)
PostMdApprove(e) == canMDApprove(e)
PostResubmit(e) == e \in Managers \cup MDs \cup Admins
PostPublication(e, p) == loadPropertyInScope(e, p) /\ canUpdateProperty(e, listing[p])
PostOverridePrice(e, p) == loadPropertyInScope(e, p) /\ canUpdateProperty(e, listing[p])
PostRule(e, p) == loadPropertyInScope(e, p) /\ canUpdateProperty(e, listing[p])
DeleteRule(e, p) == loadPropertyInScope(e, p) /\ canUpdateProperty(e, listing[p])
PostRecalculate(e, p) == loadPropertyInScope(e, p) /\ canUpdateProperty(e, listing[p])

-----------------------------------------------------------------------------
(* The workflow: workflows/property.workflow.ts.                            *)

validPropertyTransitions ==
    {<<"PENDING_VERIFICATION", "VERIFY", "PENDING_DM_POLISH">>,
     <<"PENDING_VERIFICATION", "VERIFY", "REJECTED">>,
     <<"PENDING_DM_POLISH", "DM_POLISH", "PENDING_MD_APPROVAL">>,
     <<"PENDING_DM_POLISH", "DM_VERIFY_AS_IS", "PENDING_MD_APPROVAL">>,
     <<"PENDING_MD_APPROVAL", "MD_APPROVE", "LIVE">>,
     <<"PENDING_MD_APPROVAL", "MD_APPROVE", "REJECTED">>,
     <<"REJECTED", "RESUBMIT", "PENDING_VERIFICATION">>}

NoChange == [pm |-> None]
Job(op, p, set, then) == [op |-> op, on |-> p, set |-> set, was |-> <<>>, then |-> then]

\* The read half of a handler on a listing that writes nothing itself.
Ask(c, p, job) ==
    /\ listing[p].status # "ABSENT"
    /\ Begin(c, job)
    /\ UNCHANGED <<listings, prices>>

\* A transition checked on the row as read.
Move(c, p, action, to, then) ==
    /\ <<listing[p].status, action, to>> \in validPropertyTransitions
    /\ Ask(c, p, Job("moveListing", p, [status |-> to], then))

\* One transaction writes the row by id (and a log row).
moveListing(c) ==
    LET job == call[c] IN
    /\ job.op = "moveListing"
    /\ listing' = [listing EXCEPT ![job.on].status = job.set.status]
    /\ Done(c)
    /\ UNCHANGED <<gallery, published, ruled, visitPm, prices>>

-----------------------------------------------------------------------------
(* Entry and edits.                                                         *)

\* Several PMs may cover the city: the one with the fewest properties to verify.
loads(pm) == Cardinality({p \in Properties : listing[p].pm = pm
                                              /\ listing[p].status = "PENDING_VERIFICATION"})
LeastLoaded(pms) == {pm \in pms : \A other \in pms : loads(pm) <= loads(other)}

\* The PM named in the form, else the project's, else the PM who enters it, else by city.
choosePm(e, named, projectPm, cityPms) ==
    IF named # None THEN {named}
    ELSE IF projectPm # None THEN {projectPm}
    ELSE IF e \in Managers THEN {e}
    ELSE IF cityPms = {} THEN {None} ELSE LeastLoaded(cityPms)

createProperty(c, e, p, named, projectPm, cityPms) ==
    /\ PostProperty(e) /\ listing[p].status = "ABSENT"
    /\ \E pm \in choosePm(e, named, projectPm, cityPms) :
         listing' = [listing EXCEPT ![p] = [NoListing EXCEPT
                        !.status = "PENDING_VERIFICATION", !.pm = pm, !.creator = e]]
    /\ Edit(p)
    /\ \E withLines \in BOOLEAN :
         Begin(c, IF withLines THEN Job("manual", p, NoChange, <<"price">>)
                  ELSE Job("price", p, NoChange, <<>>))
    /\ UNCHANGED <<gallery, published, ruled, visitPm, priced, manual, lines>>

\* Only the MD and Admin replace a PM; anybody who may edit gives one where there is none.
updateProperty(c, e, p, pm, withLines) ==
    /\ PutProperty(e, p)
    /\ pm # listing[p].pm /\ listing[p].pm # None => canChangePm(e)
    /\ Ask(c, p, [Job("editListing", p, [pm |-> pm],
                      <<"publish">>
                        \o (IF pm # listing[p].pm THEN <<"visits">> ELSE <<>>)
                        \o (IF withLines THEN <<"manual", "price">> ELSE <<"price">>))
                    EXCEPT !.was = <<listing[p].pm, pm>>])

editListing(c) ==
    LET job == call[c] IN
    /\ job.op = "editListing"
    /\ listing' = [listing EXCEPT ![job.on].pm = job.set.pm]
    /\ Edit(job.on)
    /\ Done(c)
    /\ UNCHANGED <<gallery, published, ruled, visitPm, priced, manual, lines>>

\* A LIVE property is published, whoever took it off the website before.
autoPublish(c) ==
    LET p == call[c].on IN
    /\ call[c].op = "publish"
    /\ published' = [published EXCEPT ![p] = @ \/ listing[p].status = "LIVE"]
    /\ Done(c)
    /\ UNCHANGED <<listing, gallery, ruled, visitPm, prices>>

\* moveOpenVisitsToNewPm: from the PM the handler read to the new one, when both are somebody.
moveVisits(c) ==
    LET job == call[c] IN
    /\ job.op = "visits"
    /\ visitPm' = IF None \notin {job.was[1], job.was[2]} /\ visitPm[job.on] = job.was[1]
                  THEN [visitPm EXCEPT ![job.on] = job.was[2]] ELSE visitPm
    /\ Done(c)
    /\ UNCHANGED <<listing, gallery, published, ruled, prices>>

\* /:id/reassign: row and visits in one transaction.
reassignProperty(c, e, p, pm) ==
    /\ PostReassignProperty(e, p) /\ canChangePm(e)
    /\ pm \in Managers /\ pm # listing[p].pm
    /\ Ask(c, p, [Job("reassign", p, [pm |-> pm], <<>>) EXCEPT !.was = <<listing[p].pm, pm>>])

reassignPropertyTx(c) ==
    LET job == call[c] IN
    /\ job.op = "reassign"
    /\ listing' = [listing EXCEPT ![job.on].pm = job.set.pm]
    /\ visitPm' = IF job.was[1] # None /\ visitPm[job.on] = job.was[1]
                  THEN [visitPm EXCEPT ![job.on] = job.set.pm] ELSE visitPm
    /\ Done(c)
    /\ UNCHANGED <<gallery, published, ruled, prices>>

archiveProperty(c, e, p) ==
    /\ DeleteProperty(e, p) /\ listing[p].status \notin {"ARCHIVED", "LOCKED"}
    /\ Ask(c, p, Job("moveListing", p, [status |-> "ARCHIVED"], <<>>))

-----------------------------------------------------------------------------
(* Verification.                                                            *)

confirmLocationByPM(c, e, p) ==
    /\ PostConfirmLocation(e) /\ canVerifyProperty(e, listing[p])
    /\ listing[p].status = "PENDING_VERIFICATION"
    /\ Ask(c, p, Job("locate", p, NoChange, <<>>))

locate(c) ==
    /\ call[c].op = "locate"
    /\ listing' = [listing EXCEPT ![call[c].on].located = TRUE]
    /\ Done(c)
    /\ UNCHANGED <<gallery, published, ruled, visitPm, prices>>

\* A photo of one's own and the confirmed location before the approval.
verifyProperty_Unseen(c, e, p, approved) ==
    /\ PostVerify(e) /\ canVerifyProperty(e, listing[p])
    /\ approved => \E m \in Images : gallery[p][m].by = e
    /\ Move(c, p, "VERIFY", IF approved THEN "PENDING_DM_POLISH" ELSE "REJECTED", <<>>)
verifyProperty(c, e, p, approved) ==
    /\ PostVerify(e) /\ canVerifyProperty(e, listing[p])
    /\ approved => listing[p].located /\ \E m \in Images : gallery[p][m].by = e
    /\ Move(c, p, "VERIFY", IF approved THEN "PENDING_DM_POLISH" ELSE "REJECTED", <<>>)

resubmitProperty(c, e, p) ==
    /\ PostResubmit(e) /\ canVerifyProperty(e, listing[p])
    /\ Move(c, p, "RESUBMIT", "PENDING_VERIFICATION", <<>>)

dmPolishProperty(c, e, p) ==
    PostDmPolish(e) /\ Move(c, p, "DM_POLISH", "PENDING_MD_APPROVAL", <<>>)

dmVerifyAsIsProperty(c, e, p) ==
    PostDmVerifyAsIs(e) /\ Move(c, p, "DM_VERIFY_AS_IS", "PENDING_MD_APPROVAL", <<>>)

mdApproveProperty(c, e, p, approved) ==
    /\ PostMdApprove(e)
    /\ IF approved THEN Move(c, p, "MD_APPROVE", "LIVE", <<"publish">>)
       ELSE Move(c, p, "MD_APPROVE", "REJECTED", <<>>)

-----------------------------------------------------------------------------
(* Price, publication, photos.                                              *)

overridePrice(c, e, p) ==
    /\ PostOverridePrice(e, p)
    /\ Edit(p)
    /\ Begin(c, Job("price", p, NoChange, <<>>))
    /\ UNCHANGED <<listings, priced, manual, lines>>

PostPricingRecalculate(c, e, p) ==
    PostRecalculate(e, p) /\ Ask(c, p, Job("price", p, NoChange, <<>>))

\* A property's rules reach its price with the next recalculation; a deleted one is kept inactive.
createPropertyRule(c, e, p) ==
    /\ PostRule(e, p)
    /\ ruled' = ruled \cup {p}
    /\ Serve(c)
    /\ UNCHANGED <<listing, gallery, published, visitPm, prices>>
deletePropertyRule(c, e, p) ==
    /\ DeleteRule(e, p) /\ p \in ruled
    /\ ruled' = ruled \ {p}
    /\ Serve(c)
    /\ UNCHANGED <<listing, gallery, published, visitPm, prices>>

togglePublication(c, e, p, on) ==
    /\ PostPublication(e, p)
    /\ on => listing[p].status = "LIVE"
    /\ Ask(c, p, Job("toggle", p, [on |-> on], <<>>))

toggle(c) ==
    /\ call[c].op = "toggle"
    /\ published' = [published EXCEPT ![call[c].on] = call[c].set.on]
    /\ Done(c)
    /\ UNCHANGED <<listing, gallery, ruled, visitPm, prices>>

Unmarked_All(g) == g
Unmarked(g) == [m \in Images |-> [g[m] EXCEPT !.primary = FALSE]]

Photo(c, p, g) == Serve(c) /\ gallery' = [gallery EXCEPT ![p] = g]
                  /\ UNCHANGED <<listing, published, ruled, visitPm, prices>>

\* A new primary photo takes the mark from the others in the same transaction.
uploadImage(c, e, p, m, primary) ==
    /\ PutProperty(e, p) /\ gallery[p][m] = NoImage
    /\ Photo(c, p, [IF primary THEN Unmarked(gallery[p]) ELSE gallery[p]
                      EXCEPT ![m] = [by |-> e, primary |-> primary, state |-> "PENDING"]])

updateImage(c, e, p, m, primary) ==
    /\ PutProperty(e, p) /\ gallery[p][m] # NoImage
    /\ Photo(c, p, [IF primary THEN Unmarked(gallery[p]) ELSE gallery[p]
                      EXCEPT ![m].primary = primary])

\* Whether it was the primary one is read before the transaction that hands the mark on.
deleteImage(c, e, p, m) ==
    /\ PutProperty(e, p) /\ gallery[p][m] # NoImage
    /\ Ask(c, p, Job("deleteImage", p, [image |-> m, primary |-> gallery[p][m].primary], <<>>))

deleteImageTx(c) ==
    LET job == call[c]
        left == {m \in Images \ {job.set.image} : gallery[job.on][m] # NoImage}
        cleared == [gallery[job.on] EXCEPT ![job.set.image] = NoImage] IN
    /\ job.op = "deleteImage"
    /\ IF ~job.set.primary \/ left = {}
       THEN gallery' = [gallery EXCEPT ![job.on] = cleared]
       ELSE \E next \in left :
              gallery' = [gallery EXCEPT ![job.on] = [cleared EXCEPT ![next].primary = TRUE]]
    /\ Done(c)
    /\ UNCHANGED <<listing, published, ruled, visitPm, prices>>

approveImage(c, e, p, m) ==
    /\ canDMPolish(e) /\ loadPropertyInScope(e, p) /\ gallery[p][m] # NoImage
    /\ Photo(c, p, [gallery[p] EXCEPT ![m].state = "APPROVED"])

rejectImage(c, e, p, m) ==
    /\ canDMPolish(e) /\ loadPropertyInScope(e, p) /\ gallery[p][m] # NoImage
    /\ Photo(c, p, [gallery[p] EXCEPT ![m].state = "REJECTED"])

-----------------------------------------------------------------------------
(* Around it: a booking locks and releases the property, a visit is routed. *)

bookingLocks(p) ==
    /\ listing[p].status = "LIVE"
    /\ listing' = [listing EXCEPT ![p].status = "LOCKED"]
    /\ UNCHANGED <<gallery, published, ruled, visitPm, prices, running>>

bookingReleases(p) ==
    /\ listing[p].status = "LOCKED"
    /\ listing' = [listing EXCEPT ![p].status = "LIVE"]
    /\ UNCHANGED <<gallery, published, ruled, visitPm, prices, running>>

routeVisit(p) ==
    /\ listing[p].status = "LIVE" /\ visitPm[p] = None
    /\ visitPm' = [visitPm EXCEPT ![p] = listing[p].pm]
    /\ UNCHANGED <<listing, gallery, published, ruled, prices, running>>

-----------------------------------------------------------------------------
ListingRequests(c, e, p) ==
    \/ \E named, projectPm \in Managers \cup {None}, cityPms \in SUBSET Managers :
         createProperty(c, e, p, named, projectPm, cityPms)
    \/ \E pm \in Managers \cup {None}, withLines \in BOOLEAN : updateProperty(c, e, p, pm, withLines)
    \/ \E pm \in Managers : reassignProperty(c, e, p, pm)
    \/ archiveProperty(c, e, p)
    \/ confirmLocationByPM(c, e, p) \/ resubmitProperty(c, e, p)
    \/ dmPolishProperty(c, e, p) \/ dmVerifyAsIsProperty(c, e, p)
    \/ \E approved \in BOOLEAN : verifyProperty(c, e, p, approved) \/ mdApproveProperty(c, e, p, approved)
    \/ overridePrice(c, e, p) \/ PostPricingRecalculate(c, e, p)
    \/ createPropertyRule(c, e, p) \/ deletePropertyRule(c, e, p)
    \/ \E on \in BOOLEAN : togglePublication(c, e, p, on)
    \/ \E m \in Images :
         \/ \E primary \in BOOLEAN : uploadImage(c, e, p, m, primary) \/ updateImage(c, e, p, m, primary)
         \/ deleteImage(c, e, p, m) \/ approveImage(c, e, p, m) \/ rejectImage(c, e, p, m)

ListingCommits(c) ==
    \/ moveListing(c) \/ editListing(c) \/ autoPublish(c) \/ moveVisits(c)
    \/ reassignPropertyTx(c) \/ locate(c) \/ toggle(c) \/ deleteImageTx(c)

ListingsAround(p) == bookingLocks(p) \/ bookingReleases(p) \/ routeVisit(p)

-----------------------------------------------------------------------------
\* A property past the PM's desk had its location confirmed on site, however stale the row was
\* that a handler decided on: nobody else could have let it through.
ListedWasLocated ==
    \A p \in Properties :
        listing[p].status \in Past => listing[p].located

\* Uploads, edits and deletions that do not overlap leave a gallery at most one primary photo.
OnePrimaryPhoto ==
    Undisturbed => \A p \in Properties :
        Cardinality({m \in Images : gallery[p][m].primary}) <= 1
=============================================================================
