------------------------------- MODULE Sales --------------------------------
(***************************************************************************)
(* What the booking component promises its callers: an item is sold to at  *)
(* most one booking at a time, only to a booking that is still open, and   *)
(* it comes back on sale only when the booking it was sold to is closed.   *)
(* An unsold item may pass from one open booking to the next.              *)
(***************************************************************************)
CONSTANTS Items, BookingIds, None

VARIABLES
    item,    \* item[b]: the item booking b is for, None until it is opened
    closed,  \* the bookings that were cancelled
    owner,   \* owner[i]: the booking that holds or bought item i
    sold     \* the items that are sold

svars == <<item, closed, owner, sold>>

Init ==
    /\ item = [b \in BookingIds |-> None]
    /\ closed = {}
    /\ owner = [i \in Items |-> None]
    /\ sold = {}

\* A new booking takes an item that is not sold.
Open(b, i) ==
    /\ item[b] = None
    /\ i \notin sold
    /\ item' = [item EXCEPT ![b] = i]
    /\ owner' = [owner EXCEPT ![i] = b]
    /\ UNCHANGED <<closed, sold>>

\* The item is sold to an open booking that nobody else stands before.
Sell(b, i) ==
    /\ item[b] = i /\ b \notin closed
    /\ i \notin sold
    /\ owner[i] \in {None, b}
    /\ owner' = [owner EXCEPT ![i] = b]
    /\ sold' = sold \cup {i}
    /\ UNCHANGED <<item, closed>>

\* Closing a booking gives back what it held or bought.
Close(b) ==
    /\ item[b] # None /\ b \notin closed
    /\ closed' = closed \cup {b}
    /\ owner' = [i \in Items |-> IF owner[i] = b THEN None ELSE owner[i]]
    /\ sold' = {i \in sold : owner[i] # b}
    /\ UNCHANGED item

Next ==
    \/ \E b \in BookingIds, i \in Items : Open(b, i) \/ Sell(b, i)
    \/ \E b \in BookingIds : Close(b)

Spec == Init /\ [][Next]_svars
=============================================================================
