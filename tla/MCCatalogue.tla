----------------------------- MODULE MCCatalogue -----------------------------
(* Model values for checking Catalogue with TLC.                            *)
EXTENDS Catalogue, TLC

CONSTANTS h1, pm1, pm2, md, ad, u1, u2, n1, n2, b1, b2, c1, c2

OneProperty == {h1}
TwoPhotos   == {1, 2}
TwoManagers == {pm1, pm2}
TheMD       == {md}
NoOne       == {}
TwoUnits    == {u1, u2}
TwoNumbers  == {n1, n2}
TwoBuyers   == {b1, b2}
TwoUpdates  == {1, 2}
OnePM       == {pm1}
TheAdmin    == {ad}
ItemsPriced == {h1, u1, u2}
TwoPlans    == {1, 2}
TwoMedia    == {1, 2}
SomeKinds   == {"COVER", "BROCHURE"}
OneDocument == {1}
TwoCalls    == {c1, c2}

\* A listing nobody entered yet, one to be verified, one to be polished and one for sale.
Entered(status, seen) ==
    [row |-> [status |-> status, pm |-> pm1, creator |-> pm1, located |-> seen],
     photos |-> [m \in TwoPhotos |-> IF seen /\ m = 1 THEN [by |-> pm1, primary |-> TRUE, state |-> "PENDING"]
                                     ELSE NoImage]]
SomeListings ==
    {[row |-> NoListing, photos |-> [m \in TwoPhotos |-> NoImage]],
     Entered("PENDING_VERIFICATION", FALSE), Entered("PENDING_DM_POLISH", TRUE), Entered("LIVE", TRUE)}

\* A new project, and one about to be approved with a unit.
Fresh == CHOOSE row \in NewProjects : row.pm = pm1 /\ row.creator = pm1
InReview == [Fresh EXCEPT !.review = "PENDING_MD_APPROVAL"]
FirstUnit == [u \in TwoUnits |-> IF u = u1 THEN [number |-> n1, sales |-> "AVAILABLE", pub |-> FALSE] ELSE NoUnit]
SomeProjects == {<<Fresh, [u \in TwoUnits |-> NoUnit]>>, <<InReview, FirstUnit>>}

Symmetry    == Permutations(TwoCalls) \cup Permutations(TwoBuyers)
==============================================================================
