------------------------------ MODULE MCOffice ------------------------------
(* Model values for checking Office with TLC.                               *)
EXTENDS Office, TLC

CONSTANTS a1, a2, boss, i1, i2, r1, k1, t1, l1, l2, rest, foreign, c1, c2,
          n1, n2, m1, m2, tc, s1, s2

TwoAgents  == {a1, a2}
TheBoss    == {boss}
OneItem    == {i1}
OneDemo    == {1}
OneRefund  == {r1}
OneComplaint == {k1}
OneTask    == {t1}
TwoLeads   == {l1, l2}
TwoCalls   == {c1, c2}

\* A lead with a demo, which may get anywhere; one being booked with two opportunities.
Rows(status, opps, d) == [lead |-> status, opps |-> opps, demos |-> [x \in OneDemo |-> d]]
SomeDeals ==
    {Rows("DEMO_SCHEDULED", <<>>, Scheduled(a1)),
     Rows("BOOKING_INITIATED", <<Opp(a1, i1), Opp(a2, None)>>, NoDemo)}

\* Everybody works; or a colleague is serving notice.
WorkOfA1 == [w \in TwoLeads \cup {rest, foreign} |-> a1]
Everybody == [e \in TwoAgents |-> InService]
SomePeople ==
    {[people |-> Everybody, owner |-> WorkOfA1],
     [people |-> [Everybody EXCEPT ![a1] = [InService EXCEPT !.resigned = TRUE, !.lastDay = "AHEAD",
                                                           !.heir = a2]],
      owner |-> WorkOfA1]}

\* A refund takes four requests to be paid, a complaint five to be closed again.
Shares == [p \in Parts |-> IF p \in {"DEALS", "PEOPLE"} THEN 3 ELSE IF p = "SIGNINS" THEN 4 ELSE 5]

\* Two uploads of which one repeats a number; a row without a phone.
Numbers    == {n1, n2}
Uploads    == {m1, m2}
Files      == (m1 :> <<<<n1, Bad>>, <<n1, n2>>>>) @@ (m2 :> <<<<n2, n2>>>>)
OneCaller  == {tc}
TwoServers == {s1, s2}

Symmetry == Permutations(TwoCalls) \cup Permutations(TwoServers)
=============================================================================
