------------------------------- MODULE MCLeads -------------------------------
(* Model values for checking Leads with TLC.                                *)
EXTENDS Leads, TLC

CONSTANTS p1, md, tc, c1, c2

OnePhone  == {p1}
OneLead   == {1}
TwoLeads  == {1, 2}
Staff     == {md, tc}
Bosses    == {md}
Callers   == {tc}
\* The permissions the seeded roles of a director and of a telecaller have.
Seeded    == ({md} \X {"CREATE", "UPDATE", "ASSIGN", "BULK_UPLOAD"}) \cup ({tc} \X {"CREATE", "UPDATE"})
TwoCalls  == {c1, c2}

\* Nothing has happened on the lead yet, and everything the workflow asks for has.
Nothing == [exit |-> None, qualified |-> FALSE, demo |-> FALSE, visits |-> {}, outcomes |-> {},
            value |-> FALSE, target |-> FALSE, bookingCancelled |-> FALSE]
Everything ==
    [exit |-> None, qualified |-> TRUE, demo |-> TRUE, value |-> TRUE, target |-> TRUE,
     visits |-> {[status |-> "COMPLETED", saidNo |-> TRUE]},
     outcomes |-> {[interested |-> FALSE, reason |-> TRUE]}, bookingCancelled |-> FALSE]
SomeContexts == {Nothing, Everything}
=============================================================================
