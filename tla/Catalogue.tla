------------------------------ MODULE Catalogue ------------------------------
(***************************************************************************)
(* What the company sells: the listings, a project with its units, and the *)
(* project's files.  The listings share the handlers and the stored prices *)
(* with the project and no row, and the files share with it nothing that   *)
(* changes but the units that are deleted; so a behaviour is about one of  *)
(* the three and the others stay as they began.                            *)
(***************************************************************************)
EXTENDS Listings, ProjectFiles

VARIABLE part    \* which of the three this behaviour is about

vars == <<running, prices, listings, projects, files, part>>

TypeOK ==
    /\ ListingsTypeOK /\ ProjectsTypeOK /\ FilesTypeOK
    /\ part \in {"LISTINGS", "PROJECT", "FILES"}

Init ==
    /\ HandlersInit /\ PricingInit /\ ListingsInit /\ ProjectsInit /\ FilesInit
    /\ \/ part = "LISTINGS" /\ project \in NewProjects
       \/ part \in {"PROJECT", "FILES"} /\ \A p \in Properties : listing[p] = NoListing

ListingsNext ==
    /\ part = "LISTINGS"
    /\ \/ /\ requests < MaxRequests
          /\ \E c \in Idling, e \in Staff, p \in Properties : ListingRequests(c, e, p)
       \/ \E c \in Calls : ListingCommits(c)
       \/ \E p \in Properties : ListingsAround(p)
    /\ UNCHANGED <<projects, files, part>>

ProjectsNext ==
    /\ part = "PROJECT"
    /\ \/ /\ requests < MaxRequests
          /\ \E c \in Idling, e \in ProjectStaff : ProjectRequests(c, e)
       \/ \E c \in Calls : ProjectCommits(c)
       \/ \E u \in Units : ProjectsAround(u)
    /\ UNCHANGED <<listings, files, part>>

FilesNext ==
    /\ part = "FILES"
    /\ \/ /\ requests < MaxRequests
          /\ \E c \in Idling, e \in ProjectStaff :
               \/ FileRequests(c, e)
               \/ (\E u \in Units : deleteUnit(c, e, u)) /\ UNCHANGED files
       \/ \E c \in Calls : FileCommits(c) \/ unitLeavesPlans(c) \/ (recordChanges(c) /\ UNCHANGED files)
    /\ UNCHANGED <<listings, part>>

Repricing ==
    /\ \E c \in Calls : PricingStep(c) \/ (Abandon(c) /\ UNCHANGED prices)
    /\ UNCHANGED <<listings, projects, files, part>>

Next == ListingsNext \/ ProjectsNext \/ FilesNext \/ Repricing

Spec == Init /\ [][Next]_vars
==============================================================================
