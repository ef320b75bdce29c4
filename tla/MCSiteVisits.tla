---------------------------- MODULE MCSiteVisits ----------------------------
(* Model values for checking SiteVisits with TLC.                           *)
EXTENDS SiteVisits, TLC

CONSTANTS p1, p2, tc, md, i1, c1, c2

TwoVisits == {1, 2}
OneItem   == {i1}
OnePM     == {p1}
TwoPMs    == {p1, p2}
OneCaller == {tc}
TheMD     == {md}
TwoCalls  == {c1, c2}
Callers   == Permutations(TwoCalls)

\* The permissions the seeded roles have.
Seeded ==
    ({md} \X {"CREATE", "VERIFY", "ACCEPT", "ASSIGN", "COMPLETE"})
       \cup ({tc} \X {"CREATE", "VERIFY"})
       \cup (ProjectPMs \X {"ACCEPT", "ASSIGN", "COMPLETE"})

\* A visit at the points where its handlers part, routed to p1 for the first day.
At(status) == [Routed(tc, 1, {i1}, p1) EXCEPT !.status = status]
SomeRows ==
    {At("PENDING_ACCEPTANCE"), At("ACCEPTED"), At("RECONFIRMING"), At("ON_HOLD"),
     At("CANCELLATION_PENDING"), At("PENDING_PM_RECONFIRMATION"),
     [At("ACTIVE") EXCEPT !.photo = TRUE], DirectRow(tc, 1, {i1})}
=============================================================================
