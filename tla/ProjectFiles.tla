---------------------------- MODULE ProjectFiles ----------------------------
(***************************************************************************)
(* The files of a project: its site plans with a pin for each unit, its    *)
(* media, one of them the cover, and its documents (project.service.ts and *)
(* routes/projects/core.ts).  A handler checks the project in a query of   *)
(* its own; the rows of an upload are written after the file is stored.    *)
(*                                                                         *)
(* Abstracted: titles, sizes, where on the plan a pin is, and the storage. *)
(* Row ids are not used twice.  A cover that is edited in by hand lies     *)
(* elsewhere: it is no media of the project.                               *)
(***************************************************************************)
EXTENDS Projects

CONSTANTS
    Plans,         \* ProjectLayoutImage rows
    Media,         \* ProjectMedia rows
    MediaKinds,    \* kinds of media uploaded
    Documents,     \* ProjectDocument rows
    Elsewhere      \* an address that is no media of the project

ASSUME FilesAssumption ==
    /\ {"UNUSED", "DELETED"} \cap MediaKinds = {}
    /\ {Nobody, Elsewhere} \cap Media = {}

VARIABLES
    plan,          \* site plans: "UNUSED", "PRIMARY", "OTHER" or "DELETED"
    pins,          \* PropertyLayoutRegion rows: <<plan, unit>>
    media,         \* [kind, type] of the media there are, "UNUSED" or "DELETED" of the others
    cover,         \* Project.cover_image_url: the media it is the address of
    documents      \* ProjectDocument rows there are

files == <<plan, pins, media, cover, documents>>

FilesInit ==
    /\ plan = [i \in Plans |-> "UNUSED"] /\ pins = {}
    /\ media = [m \in Media |-> [kind |-> "UNUSED", type |-> Nobody]]
    /\ cover = Nobody /\ documents = {}

There(i) == plan[i] \in {"PRIMARY", "OTHER"}
Stored(m) == media[m].kind \notin {"UNUSED", "DELETED"}

FilesTypeOK ==
    /\ plan \in [Plans -> {"UNUSED", "PRIMARY", "OTHER", "DELETED"}]
    /\ pins \subseteq Plans \X Units
    /\ media \in [Media -> [kind : MediaKinds \cup {"UNUSED", "DELETED"},
                            type : {"image", "pdf", "video", Nobody}]]
    /\ cover \in Media \cup {Nobody, Elsewhere} /\ documents \subseteq Documents

(* The routes: src/routes/projects/core.ts.                                 *)
PostLayoutImage(e) == mayUpdate(e)
DeleteLayoutImage(e) == mayUpdate(e)
PutRegions(e) == mayUpdate(e)
DeleteRegion(e) == mayUpdate(e)
PostMedia(e) == mayUpdate(e)
DeleteMedia(e) == mayUpdate(e)
PostDocument(e) == mayUpdate(e)
DeleteDocument(e) == mayUpdate(e)

AskFiles(c, op, on, set) ==
    /\ AskProject(c, [Job2(op, on, set, <<>>) EXCEPT !.was = cover])
    /\ UNCHANGED files

Same == UNCHANGED <<projects, prices>>

-----------------------------------------------------------------------------
(* Site plans and the pins of the units on them.                            *)

uploadLayoutImage(c, e, i) ==
    PostLayoutImage(e) /\ plan[i] = "UNUSED" /\ AskFiles(c, "plan", i, Nothing)

\* The first plan is the primary one; nothing stops two from being first at once, and no other
\* takes the place of one that is deleted.
countPlans(c) ==
    LET first == \A i \in Plans : ~There(i) IN
    /\ call[c].op = "plan"
    /\ Continue(c, [call[c] EXCEPT !.op = "planRow", !.set = [first |-> first]])
    /\ Same /\ UNCHANGED files

planRow(c) ==
    LET i == call[c].on IN
    /\ call[c].op = "planRow" /\ plan[i] = "UNUSED"
    /\ plan' = [plan EXCEPT ![i] = IF call[c].set.first THEN "PRIMARY" ELSE "OTHER"]
    /\ Done(c)
    /\ Same /\ UNCHANGED <<pins, media, cover, documents>>

deleteLayoutImage(c, e, i) ==
    DeleteLayoutImage(e) /\ There(i) /\ AskFiles(c, "deletePlan", i, Nothing)

\* The pins on the plan go with it.
deletePlanRow_Pinned(c) ==
    LET i == call[c].on IN
    /\ call[c].op = "deletePlan" /\ There(i)
    /\ plan' = [plan EXCEPT ![i] = "DELETED"]
    /\ Done(c)
    /\ Same /\ UNCHANGED <<pins, media, cover, documents>>
deletePlanRow(c) ==
    LET i == call[c].on IN
    /\ call[c].op = "deletePlan" /\ There(i)
    /\ plan' = [plan EXCEPT ![i] = "DELETED"]
    /\ pins' = {x \in pins : x[1] # i}
    /\ Done(c)
    /\ Same /\ UNCHANGED <<media, cover, documents>>

upsertLayoutRegions(c, e, i, us) ==
    PutRegions(e) /\ There(i) /\ AskFiles(c, "pin", i, [us |-> us])

\* Each pin by itself: those of units the project does not have are left out, and a plan that
\* is gone by now takes none.
upsertRegionsTx(c) ==
    LET i == call[c].on
        known == {u \in call[c].set.us : There(i) /\ unit[u] # NoUnit} IN
    /\ call[c].op = "pin"
    /\ pins' = pins \cup ({i} \X known)
    /\ Done(c)
    /\ Same /\ UNCHANGED <<plan, media, cover, documents>>

deleteLayoutRegion(c, e, i, u) ==
    DeleteRegion(e) /\ <<i, u>> \in pins /\ AskFiles(c, "unpin", i, [u |-> u])

deleteRegionRow(c) ==
    /\ call[c].op = "unpin" /\ <<call[c].on, call[c].set.u>> \in pins
    /\ pins' = pins \ {<<call[c].on, call[c].set.u>>}
    /\ Done(c)
    /\ Same /\ UNCHANGED <<plan, media, cover, documents>>

\* A unit that is deleted leaves every plan.
unitLeavesPlans(c) ==
    /\ deleteUnitRow(c)
    /\ pins' = {x \in pins : x[2] # call[c].on}
    /\ UNCHANGED <<plan, media, cover, documents>>

-----------------------------------------------------------------------------
(* Media and documents.                                                     *)

\* What a file of the kind may be.
storeMediaFile(kind) ==
    IF kind = "VIDEO" THEN {"video"}
    ELSE IF kind \in {"COVER", "GALLERY"} THEN {"image"} ELSE {"image", "pdf"}

uploadMedia(c, e, m, kind, type) ==
    /\ PostMedia(e) /\ media[m].kind = "UNUSED"
    /\ type \in storeMediaFile(kind)
    /\ AskFiles(c, "media", m, [kind |-> kind, type |-> type])

mediaRow(c) ==
    LET m == call[c].on IN
    /\ call[c].op = "media" /\ media[m].kind = "UNUSED"
    /\ media' = [media EXCEPT ![m] = call[c].set]
    /\ IF call[c].set.kind = "COVER" THEN Continue(c, [call[c] EXCEPT !.op = "cover"]) ELSE Done(c)
    /\ Same /\ UNCHANGED <<plan, pins, cover, documents>>

\* The newest cover is the project's.
coverRow(c) ==
    /\ call[c].op = "cover"
    /\ cover' = call[c].on
    /\ Done(c)
    /\ Same /\ UNCHANGED <<plan, pins, media, documents>>

deleteMedia(c, e, m) == DeleteMedia(e) /\ Stored(m) /\ AskFiles(c, "deleteMedia", m, Nothing)

\* Whether it is the cover was read with the project, before the row goes.
deleteMediaRow_Shown(c) ==
    LET m == call[c].on IN
    /\ call[c].op = "deleteMedia" /\ Stored(m)
    /\ media' = [media EXCEPT ![m].kind = "DELETED"]
    /\ Done(c)
    /\ Same /\ UNCHANGED <<plan, pins, cover, documents>>
deleteMediaRow(c) ==
    LET m == call[c].on IN
    /\ call[c].op = "deleteMedia" /\ Stored(m)
    /\ media' = [media EXCEPT ![m].kind = "DELETED"]
    /\ IF call[c].was = m THEN Continue(c, [call[c] EXCEPT !.op = "uncover"]) ELSE Done(c)
    /\ Same /\ UNCHANGED <<plan, pins, cover, documents>>

uncover(c) ==
    /\ call[c].op = "uncover"
    /\ cover' = Nobody
    /\ Done(c)
    /\ Same /\ UNCHANGED <<plan, pins, media, documents>>

\* updateProject: an edit of the project may name any address, or none.
editCover(c, e, to) ==
    /\ PutProject(e) /\ to \in {Elsewhere, Nobody}
    /\ cover' = to
    /\ Serve(c)
    /\ Same /\ UNCHANGED <<plan, pins, media, documents>>

uploadDocument(c, e, d) ==
    /\ PostDocument(e) /\ d \notin documents
    /\ documents' = documents \cup {d}
    /\ Serve(c)
    /\ Same /\ UNCHANGED <<plan, pins, media, cover>>

deleteDocument(c, e, d) ==
    /\ DeleteDocument(e) /\ d \in documents
    /\ documents' = documents \ {d}
    /\ Serve(c)
    /\ Same /\ UNCHANGED <<plan, pins, media, cover>>

-----------------------------------------------------------------------------
FileRequests(c, e) ==
    \/ \E i \in Plans : \/ uploadLayoutImage(c, e, i) \/ deleteLayoutImage(c, e, i)
                        \/ \E us \in SUBSET Units : upsertLayoutRegions(c, e, i, us)
                        \/ \E u \in Units : deleteLayoutRegion(c, e, i, u)
    \/ \E m \in Media : \/ \E kind \in MediaKinds, type \in {"image", "pdf", "video"} :
                              uploadMedia(c, e, m, kind, type)
                        \/ deleteMedia(c, e, m)
    \/ \E to \in {Elsewhere, Nobody} : editCover(c, e, to)
    \/ \E d \in Documents : uploadDocument(c, e, d) \/ deleteDocument(c, e, d)

FileCommits(c) ==
    \/ countPlans(c) \/ planRow(c) \/ deletePlanRow(c) \/ upsertRegionsTx(c) \/ deleteRegionRow(c)
    \/ mediaRow(c) \/ coverRow(c) \/ deleteMediaRow(c) \/ uncover(c)

-----------------------------------------------------------------------------
\* Whatever is uploaded and deleted one after the other, the cover shown is a stored image that
\* was uploaded as a cover, or lies elsewhere.
CoverShown ==
    Undisturbed /\ cover \in Media => media[cover] = [kind |-> "COVER", type |-> "image"]

\* However handlers overlap, a pin is of a unit and on a plan that are still there.
PinsPlaced == \A x \in pins : There(x[1]) /\ unit[x[2]] # NoUnit

\* At most one plan is the primary one, unless two first plans came in at once.
OnePrimaryPlan ==
    Undisturbed => \A i, j \in Plans : plan[i] = "PRIMARY" /\ plan[j] = "PRIMARY" => i = j

\* The project's rows agree with each other: what is shown, its history, the buyers' notices
\* and its files.
ProjectRecordsAgree ==
    /\ UnitsShownWithProject /\ HistoryComplete /\ NoticesMatchUpdates
    /\ CoverShown /\ PinsPlaced /\ OnePrimaryPlan
=============================================================================
