--------------------------- MODULE CatalogueProofs ---------------------------
(***************************************************************************)
(* What is proved about Catalogue for every set of listings, units, files, *)
(* employees and concurrent handlers.  A handler carries the steps it has  *)
(* still to take; the invariant says which they can be (Formed), what it   *)
(* owes to the rows by them, and what it read that is still so.            *)
(***************************************************************************)
EXTENDS Catalogue, SequenceTheorems, FiniteSetTheorems, TLAPS

-----------------------------------------------------------------------------
(* The steps ahead of a handler.                                            *)

Later == {"publish", "visits", "manual", "price", "record", "each"}
Last  == {"record", "each"}

Has(s, step) == \E k \in 1 .. Len(s) : s[k] = step

Ahead(s) == s \in Seq(Later) /\ \A k \in 1 .. Len(s) : s[k] \in Last => k = Len(s)

\* The first step ahead, and those after it.
LEMMA AheadOf ==
  ASSUME NEW s, Ahead(s), s # <<>>
  PROVE  /\ Head(s) \in Later /\ Ahead(Tail(s)) /\ (Head(s) \in Last => Tail(s) = <<>>)
         /\ Has(s, Head(s))
         /\ \A step : Has(s, step) => Head(s) = step \/ Has(Tail(s), step)
         /\ \A step : Has(Tail(s), step) => Has(s, step)
<1>1. s \in Seq(Later) /\ Len(s) \in Nat \ {0} /\ Head(s) = s[1]
  BY EmptySeq DEF Ahead
<1>2. /\ Head(s) \in Later /\ Tail(s) \in Seq(Later) /\ Len(Tail(s)) = Len(s) - 1
      /\ \A k \in 1 .. Len(Tail(s)) : Tail(s)[k] = s[k + 1]
  BY <1>1, HeadTailProperties
<1>3. Ahead(Tail(s))
  <2>1. ASSUME NEW k \in 1 .. Len(Tail(s)), Tail(s)[k] \in Last
        PROVE  k = Len(Tail(s))
    <3>1. k + 1 \in 1 .. Len(s) /\ s[k + 1] \in Last
      BY <2>1, <1>1, <1>2
    <3>2. k + 1 = Len(s)
      BY <3>1 DEF Ahead
    <3> QED
      BY <3>2, <1>1, <1>2
  <2> QED
    BY <2>1, <1>2 DEF Ahead
<1>4. Head(s) \in Last => Tail(s) = <<>>
  <2>1. 1 \in 1 .. Len(s)
    BY <1>1
  <2>2. Head(s) \in Last => Len(s) = 1
    BY <1>1, <2>1 DEF Ahead
  <2> QED
    BY <2>2, <1>2, EmptySeq
<1>5. ASSUME NEW step, Has(s, step)
      PROVE  Head(s) = step \/ Has(Tail(s), step)
  <2>1. PICK k \in 1 .. Len(s) : s[k] = step
    BY <1>5 DEF Has
  <2>2. CASE k = 1
    BY <2>1, <2>2, <1>1
  <2>3. CASE k # 1
    <3>1. k - 1 \in 1 .. Len(Tail(s)) /\ Tail(s)[k - 1] = s[k]
      BY <2>3, <1>1, <1>2
    <3> QED
      BY <2>1, <3>1 DEF Has
  <2> QED
    BY <2>2, <2>3
<1>6. ASSUME NEW step, Has(Tail(s), step)
      PROVE  Has(s, step)
  <2>1. PICK k \in 1 .. Len(Tail(s)) : Tail(s)[k] = step
    BY <1>6 DEF Has
  <2>2. k + 1 \in 1 .. Len(s) /\ s[k + 1] = step
    BY <2>1, <1>1, <1>2
  <2> QED
    BY <2>2 DEF Has
<1>7. Has(s, Head(s))
  BY <1>1 DEF Has
<1> QED
  BY <1>2, <1>3, <1>4, <1>5, <1>6, <1>7

\* The lists the handlers start with.
LEMMA NoneAhead == Ahead(<<>>) /\ \A step : ~Has(<<>>, step)
  BY DEF Ahead, Has

LEMMA OneAhead ==
  ASSUME NEW step \in Later
  PROVE  Ahead(<<step>>) /\ \A other : Has(<<step>>, other) <=> other = step
<1>1. <<step>> \in Seq(Later) /\ Len(<<step>>) = 1 /\ <<step>>[1] = step
  OBVIOUS
<1> QED
  BY <1>1 DEF Ahead, Has

LEMMA JoinedAhead ==
  ASSUME NEW s \in Seq(Later \ Last), NEW t, Ahead(t)
  PROVE  Ahead(s \o t) /\ \A step : Has(s \o t, step) <=> Has(s, step) \/ Has(t, step)
<1>1. s \in Seq(Later) /\ t \in Seq(Later) /\ Len(s) \in Nat /\ Len(t) \in Nat
  BY SeqMonotonic DEF Ahead
<1>2. /\ s \o t \in Seq(Later) /\ Len(s \o t) = Len(s) + Len(t)
      /\ \A k \in 1 .. Len(s) + Len(t) :
           (s \o t)[k] = IF k <= Len(s) THEN s[k] ELSE t[k - Len(s)]
  BY <1>1, ConcatProperties
<1>3. \A k \in 1 .. Len(s) : s[k] \notin Last
  BY ElementOfSeq
<1>4. Ahead(s \o t)
  <2>1. ASSUME NEW k \in 1 .. Len(s \o t), (s \o t)[k] \in Last
        PROVE  k = Len(s \o t)
    <3>1. k \notin 1 .. Len(s)
      BY <2>1, <1>1, <1>2, <1>3
    <3>2. k - Len(s) \in 1 .. Len(t) /\ t[k - Len(s)] \in Last
      BY <2>1, <3>1, <1>1, <1>2
    <3>3. k - Len(s) = Len(t)
      BY <3>2 DEF Ahead
    <3> QED
      BY <3>3, <1>1, <1>2
  <2> QED
    BY <2>1, <1>2 DEF Ahead
<1>5. ASSUME NEW step PROVE Has(s \o t, step) => Has(s, step) \/ Has(t, step)
  BY <1>1, <1>2 DEF Has
<1>6. ASSUME NEW step, Has(s, step) PROVE Has(s \o t, step)
  BY <1>1, <1>2, <1>6 DEF Has
<1>7. ASSUME NEW step, Has(t, step) PROVE Has(s \o t, step)
  <2>1. PICK k \in 1 .. Len(t) : t[k] = step
    BY <1>7 DEF Has
  <2>2. Len(s) + k \in 1 .. Len(s \o t) /\ (s \o t)[Len(s) + k] = step
    BY <2>1, <1>1, <1>2
  <2> QED
    BY <2>2 DEF Has
<1> QED
  BY <1>4, <1>5, <1>6, <1>7

\* Tuples are the joint of their first step and the others.
LEMMA PairAhead ==
  ASSUME NEW a \in Later \ Last, NEW b \in Later
  PROVE  Ahead(<<a, b>>) /\ \A step : Has(<<a, b>>, step) <=> step \in {a, b}
<1>1. /\ <<a, b>> \in Seq(Later) /\ Len(<<a, b>>) = 2 /\ <<a, b>>[1] = a /\ <<a, b>>[2] = b
  OBVIOUS
<1> QED
  BY <1>1 DEF Ahead, Has

-----------------------------------------------------------------------------
(* The handlers, one step after the other.                                  *)

Fields(j) == {"op", "on", "set", "was", "then"} \subseteq DOMAIN j

\* The steps that edit a price's fields, or owe the project's history a row.
Edits   == {"editListing", "createUnit", "editUnit", "override"}
Changes == {"createUnit", "bulk", "editUnit", "override", "deleteUnit", "rule"}

\* What is true of every running handler: a recalculation follows an edit, a history row a
\* change of the project, and nothing follows the last steps.
Formed(j) ==
    /\ Fields(j)
    /\ part # "LISTINGS" => "approved" \in DOMAIN j
    /\ Ahead(j.then)
    /\ j.op \in Last => j.then = <<>>
    /\ j.op \in Edits => Has(j.then, "price")
    /\ j.op \in Changes => Has(j.then, "record")
    /\ j.op = "bulk" => j.then = <<"record">>

Running(c) == call[c] # Idle

Shaped ==
    /\ part \in {"LISTINGS", "PROJECT", "FILES"}
    /\ call = [c \in Calls |-> call[c]]
    /\ \A c \in Calls : Running(c) => Formed(call[c])
    /\ ~disturbed => \A c, d \in Calls : Running(c) /\ Running(d) => c = d

\* What `Done' makes of a handler.
After(j) == IF j.then = <<>> THEN Idle ELSE [j EXCEPT !.op = Head(j.then), !.then = Tail(j.then)]

LEMMA FieldsRun == ASSUME NEW j, Fields(j) PROVE j # Idle
  BY DEF Fields, Idle

LEMMA AfterFormed ==
  ASSUME NEW j, Formed(j), After(j) # Idle
  PROVE  LET k == After(j) IN
         /\ Formed(k) /\ k # Idle /\ k.on = j.on /\ k.set = j.set /\ k.was = j.was
         /\ k.op \in Later /\ DOMAIN k = DOMAIN j
         /\ part # "LISTINGS" => k.approved = j.approved
         /\ k.op = Head(j.then) /\ k.then = Tail(j.then)
<1> DEFINE k == After(j)
<1>1. j.then # <<>> /\ k = [j EXCEPT !.op = Head(j.then), !.then = Tail(j.then)]
  BY DEF After
<1>2. /\ DOMAIN k = DOMAIN j /\ k.on = j.on /\ k.set = j.set /\ k.was = j.was
      /\ k.op = Head(j.then) /\ k.then = Tail(j.then) /\ Fields(k)
      /\ part # "LISTINGS" => k.approved = j.approved
  BY <1>1 DEF Formed, Fields
<1>3. k.op \in Later /\ Ahead(k.then) /\ (k.op \in Last => k.then = <<>>)
  BY <1>1, <1>2, AheadOf DEF Formed
<1>4. k.op \notin Edits /\ k.op \notin Changes /\ k.op # "bulk"
  BY <1>3 DEF Later, Edits, Changes
<1> HIDE DEF k
<1>5. Formed(k)
  BY <1>2, <1>3, <1>4 DEF Formed
<1> QED
  BY <1>2, <1>3, <1>5 DEF k

\* A handler starts ...
LEMMA Opens ==
  ASSUME Shaped, NEW c \in Idling, NEW j, j # Idle => Formed(j), Begin(c, j), UNCHANGED part
  PROVE  /\ Shaped' /\ call'[c] = j /\ \A d \in Calls \ {c} : call'[d] = call[d]
         /\ ~disturbed' => ~disturbed /\ \A d \in Calls : ~Running(d)
<1>1. /\ c \in Calls /\ call[c] = Idle /\ call' = [call EXCEPT ![c] = j]
      /\ disturbed' = (disturbed \/ ~AtRest)
  BY DEF Idling, Begin
<1>2. /\ call' = [d \in Calls |-> call'[d]] /\ call'[c] = j
      /\ \A d \in Calls \ {c} : call'[d] = call[d]
  BY <1>1 DEF Shaped
<1>3. ~disturbed' => ~disturbed /\ \A d \in Calls : ~Running(d)
  BY <1>1 DEF AtRest, Idling, Running
<1>4. \A d \in Calls : Running(d)' => Formed(call[d])'
  BY <1>1, <1>2 DEF Shaped, Formed, Running
<1>5. ~disturbed' => \A d, e \in Calls : Running(d)' /\ Running(e)' => d = e
  BY <1>2, <1>3 DEF Running
<1> QED
  BY <1>2, <1>3, <1>4, <1>5 DEF Shaped

\* ... and goes on.
LEMMA GoesOn ==
  ASSUME Shaped, NEW c \in Calls, Running(c), NEW j, j # Idle => Formed(j), Continue(c, j),
         UNCHANGED part
  PROVE  /\ Shaped' /\ call'[c] = j /\ \A d \in Calls \ {c} : call'[d] = call[d]
         /\ disturbed' = disturbed /\ (~disturbed => \A d \in Calls \ {c} : ~Running(d))
<1>1. /\ call' = [call EXCEPT ![c] = j] /\ disturbed' = disturbed
  BY DEF Continue
<1>2. /\ call' = [d \in Calls |-> call'[d]] /\ call'[c] = j
      /\ \A d \in Calls \ {c} : call'[d] = call[d]
  BY <1>1 DEF Shaped
<1>3. ~disturbed => \A d \in Calls \ {c} : ~Running(d)
  BY DEF Shaped
<1>4. \A d \in Calls : Running(d)' => Formed(call[d])'
  BY <1>2 DEF Shaped, Formed, Running
<1>5. ~disturbed' => \A d, e \in Calls : Running(d)' /\ Running(e)' => d = e
  BY <1>1, <1>2, <1>3 DEF Running
<1> QED
  BY <1>1, <1>2, <1>3, <1>4, <1>5 DEF Shaped

LEMMA IsDone ==
  ASSUME Shaped, NEW c \in Calls, Running(c), Done(c), UNCHANGED part
  PROVE  /\ Shaped' /\ call'[c] = After(call[c]) /\ \A d \in Calls \ {c} : call'[d] = call[d]
         /\ disturbed' = disturbed /\ (~disturbed => \A d \in Calls \ {c} : ~Running(d))
<1>1. Formed(call[c])
  BY DEF Shaped
<1>2. After(call[c]) # Idle => Formed(After(call[c]))
  BY <1>1, AfterFormed
<1>3. Continue(c, After(call[c]))
  BY DEF Done, After
<1> QED
  BY <1>2, <1>3, GoesOn

LEMMA Rests ==
  ASSUME Shaped, UNCHANGED <<running, part>>
  PROVE  Shaped'
  BY DEF Shaped, Formed, Running, running

LEMMA Stops ==
  ASSUME Shaped, NEW c \in Calls, Abandon(c), UNCHANGED part
  PROVE  Shaped' /\ disturbed' /\ \A d \in Calls : call'[d] \in {call[d], Idle}
<1>1. /\ call' = [call EXCEPT ![c] = Idle] /\ disturbed'
  BY DEF Abandon
<1>2. /\ call' = [d \in Calls |-> call'[d]] /\ \A d \in Calls : call'[d] \in {call[d], Idle}
  BY <1>1 DEF Shaped
<1> QED
  BY <1>1, <1>2 DEF Shaped, Formed, Running

-----------------------------------------------------------------------------
(* What a step may do to the calls, the prices and the history.             *)

Starts ==
    {"moveListing", "editListing", "reassign", "locate", "toggle", "deleteImage", "price", "manual",
     "review", "mdReview", "editProject", "cancelProject", "createUnit", "bulk", "editUnit",
     "unitStatus", "override", "deleteUnit", "rule", "each", "plan", "deletePlan", "pin", "unpin",
     "media", "deleteMedia"}

Kept == UNCHANGED <<prices, unrecorded>>

\* A handler has checked its request, or served it, ...
Asks(c, j) ==
    /\ c \in Idling /\ Begin(c, j) /\ Kept
    /\ j # Idle =>
         /\ Formed(j) /\ j.op \in Starts
         /\ part # "LISTINGS" => j.op \in Changes \/ ~Has(j.then, "record")

\* ... edited a price with it, ...
Enters(c, j) ==
    /\ part = "LISTINGS" /\ c \in Idling /\ Begin(c, j) /\ Formed(j) /\ j.op \in Starts
    /\ j.op = "price" \/ Has(j.then, "price")
    /\ Edit(j.on) /\ UNCHANGED <<priced, manual, lines, unrecorded>>

\* ... writes rows and is done with the step, ...
Writes(c) ==
    /\ call[c].op \notin Changes \cup {"price", "persist", "record"}
    /\ Done(c) /\ Kept

\* ... or has another step before the next, ...
Turns(c, j) ==
    /\ call[c].op \in {"plan", "media", "deleteMedia", "each"}
    /\ Continue(c, j) /\ Formed(j) /\ Kept
    /\ part # "LISTINGS" => j.approved = call[c].approved
    /\ IF call[c].op = "each" THEN j.op = "price" /\ j.then = <<"each">>
       ELSE /\ j.op \in {"planRow", "cover", "uncover"}
            /\ j.on = call[c].on /\ j.then = call[c].then

\* ... edits a price, ...
Reprices(c) ==
    /\ call[c].op \in Edits
    /\ Edit(call[c].on) /\ UNCHANGED <<priced, manual, lines>> /\ Done(c)
    /\ IF call[c].op = "editListing" THEN UNCHANGED unrecorded ELSE Owed(c)

\* ... or changes the project.
Alters(c) ==
    /\ call[c].op \in Changes \ Edits
    /\ \/ Owed(c) /\ Done(c)
       \/ call[c].op = "bulk" /\ Finish(c) /\ UNCHANGED unrecorded
    /\ \/ UNCHANGED prices
       \/ /\ priced' = [priced EXCEPT ![call[c].on] = edited[call[c].on]]
          /\ lines' = [lines EXCEPT ![call[c].on] = manual[call[c].on]]
          /\ UNCHANGED <<edited, manual>>
       \/ \E made : /\ edited' = [i \in PricedItems |-> IF i \in made THEN edited[i] + 1 ELSE edited[i]]
                    /\ priced' = [i \in PricedItems |-> IF i \in made THEN edited[i] + 1 ELSE priced[i]]
                    /\ UNCHANGED <<manual, lines>>

Step(c) ==
    \/ \E j : Asks(c, j) \/ Enters(c, j)
    \/ /\ Running(c)
       /\ \/ Writes(c) \/ (\E j : Turns(c, j)) \/ Reprices(c) \/ Alters(c)
          \/ PricingStep(c) /\ UNCHANGED unrecorded
          \/ recordChanges(c)
          \/ Abandon(c) /\ Kept

LEMMA JobFormed ==
  ASSUME part = "LISTINGS", NEW op, NEW p, NEW set, NEW then, Ahead(then),
         op \notin Last, op \notin Changes, op \in Edits => Has(then, "price")
  PROVE  LET j == Job(op, p, set, then) IN
         /\ Formed(j) /\ j # Idle
         /\ j.op = op /\ j.on = p /\ j.set = set /\ j.was = <<>> /\ j.then = then
<1> DEFINE j == Job(op, p, set, then)
<1>1. /\ Fields(j) /\ j.op = op /\ j.on = p /\ j.set = set /\ j.was = <<>> /\ j.then = then
  BY DEF Job, Fields
<1> HIDE DEF j
<1>2. Formed(j)
  BY <1>1 DEF Formed, Changes
<1> QED
  BY <1>1, <1>2, FieldsRun DEF j

LEMMA Job2Formed ==
  ASSUME NEW op, NEW u, NEW set, NEW then, Ahead(then), op \in Last => then = <<>>,
         op \in Edits => Has(then, "price"), op \in Changes => Has(then, "record"),
         op = "bulk" => then = <<"record">>
  PROVE  LET j == Job2(op, u, set, then) IN
         /\ Formed(j) /\ j # Idle
         /\ j.op = op /\ j.on = u /\ j.set = set /\ j.was = <<>> /\ j.then = then
         /\ j.approved = isApproved
<1> DEFINE j == Job2(op, u, set, then)
<1>1. /\ Fields(j) /\ j.op = op /\ j.on = u /\ j.set = set /\ j.was = <<>> /\ j.then = then
      /\ j.approved = isApproved /\ "approved" \in DOMAIN j
  BY DEF Job2, Fields
<1> HIDE DEF j
<1>2. Formed(j)
  BY <1>1 DEF Formed
<1> QED
  BY <1>1, <1>2, FieldsRun DEF j

-----------------------------------------------------------------------------
(* The handlers of the listings.                                            *)

ListingRows ==
    /\ listing = [p \in Properties |-> listing[p]]
    /\ \A p \in Properties : {"status", "pm", "creator", "located"} \subseteq DOMAIN listing[p]

PhotoRows ==
    /\ gallery = [p \in Properties |-> gallery[p]]
    /\ \A p \in Properties :
         /\ gallery[p] = [m \in Images |-> gallery[p][m]]
         /\ \A m \in Images : "primary" \in DOMAIN gallery[p][m] /\ gallery[p][m].primary \in BOOLEAN

\* What a handler of the listings has just read.
ListingRead(j) ==
    /\ j.op = "moveListing" =>
         /\ j.on \in Properties /\ listing[j.on].status # "ABSENT" /\ j.set.status # "ABSENT"
         /\ j.set.status \in Past => listing[j.on].located \/ listing[j.on].status \in Past
    /\ j.op = "deleteImage" =>
         /\ j.on \in Properties /\ j.set.image \in Images
         /\ j.set.primary = gallery[j.on][j.set.image].primary

\* A property is entered ...
Entering(p) ==
    /\ listing[p].status = "ABSENT"
    /\ \E pm, e : listing' = [listing EXCEPT ![p] = [NoListing EXCEPT
                                !.status = "PENDING_VERIFICATION", !.pm = pm, !.creator = e]]

\* ... or one of its photos.
Photographing(p) ==
    \E m \in Images, base \in {gallery[p], Unmarked(gallery[p])} : \E row :
        /\ gallery' = [gallery EXCEPT ![p] = [base EXCEPT ![m] = row]]
        /\ "primary" \in DOMAIN row /\ row.primary \in BOOLEAN
        /\ row.primary => base = Unmarked(gallery[p]) \/ gallery[p][m].primary

ListingRequest(c) ==
    \E j :
        \/ Asks(c, j) /\ j # Idle /\ ListingRead(j) /\ UNCHANGED <<listing, gallery>>
        \/ /\ Enters(c, j) /\ j.op \notin {"moveListing", "deleteImage"}
           /\ UNCHANGED gallery
           /\ UNCHANGED listing \/ \E p \in Properties : Entering(p)
        \/ /\ Asks(c, j) /\ j = Idle
           /\ UNCHANGED listing
           /\ UNCHANGED gallery \/ \E p \in Properties : Photographing(p)

LEMMA ListingAsk ==
  ASSUME part = "LISTINGS", NEW c \in Idling, NEW p, NEW j, Ask(c, p, j), Formed(j), j.op \in Starts, j # Idle,
         ListingRead(j), UNCHANGED projects
  PROVE  ListingRequest(c)
<1>1. Asks(c, j) /\ UNCHANGED <<listing, gallery>>
  BY DEF Ask, Asks, Kept, projects, listings
<1> QED
  BY <1>1 DEF ListingRequest

LEMMA MoveAsk ==
  ASSUME part = "LISTINGS", UNCHANGED projects,
         NEW c \in Idling, NEW p \in Properties, NEW action, NEW to, NEW then, Ahead(then),
         Move(c, p, action, to, then), to \in Past => listing[p].located \/ listing[p].status \in Past
  PROVE  ListingRequest(c)
<1> DEFINE j == Job("moveListing", p, [status |-> to], then)
<1>1. Ask(c, p, j) /\ listing[p].status # "ABSENT" /\ to # "ABSENT"
  BY DEF Move, Ask, validPropertyTransitions
<1>2. Formed(j) /\ j # Idle /\ j.op = "moveListing" /\ j.on = p /\ j.set = [status |-> to]
  BY JobFormed DEF Last, Changes, Edits
<1> HIDE DEF j
<1>3. ListingRead(j) /\ j.op \in Starts
  BY <1>1, <1>2 DEF ListingRead, Starts
<1> QED
  BY <1>1, <1>2, <1>3, ListingAsk

\* A handler that asks with a job that neither moves the property nor deletes a photo.
LEMMA OtherAsk ==
  ASSUME part = "LISTINGS", UNCHANGED projects,
         NEW c \in Idling, NEW p \in Properties, NEW j, Formed(j), j # Idle, Ask(c, p, j),
         j.op \in Starts \ {"moveListing", "deleteImage"}
  PROVE  ListingRequest(c)
<1>1. ListingRead(j)
  BY DEF ListingRead
<1> QED
  BY <1>1, ListingAsk

LEMMA PhotoTaken ==
  ASSUME UNCHANGED projects, PhotoRows,
         NEW c \in Idling, NEW p \in Properties, NEW m \in Images,
         NEW base \in {gallery[p], Unmarked(gallery[p])}, NEW row,
         "primary" \in DOMAIN row, row.primary \in BOOLEAN,
         row.primary => base = Unmarked(gallery[p]) \/ gallery[p][m].primary,
         Photo(c, p, [base EXCEPT ![m] = row])
  PROVE  ListingRequest(c)
<1>1. Photographing(p)
  BY DEF Photographing, Photo
<1>2. Asks(c, Idle) /\ UNCHANGED listing
  BY DEF Asks, Kept, Photo, Serve, projects
<1> QED
  BY <1>1, <1>2 DEF ListingRequest

\* A rule's row, and nothing else.
LEMMA RuleServed ==
  ASSUME UNCHANGED <<projects, listing, gallery, prices>>, NEW c \in Idling, Serve(c)
  PROVE  ListingRequest(c)
<1>1. Asks(c, Idle) /\ UNCHANGED <<listing, gallery>>
  BY DEF Asks, Kept, Serve, projects
<1> QED
  BY <1>1 DEF ListingRequest

LEMMA Entered ==
  ASSUME part = "LISTINGS", UNCHANGED projects,
         NEW c \in Idling, NEW p \in Properties, NEW j, Formed(j), Begin(c, j),
         j.op \in {"price", "manual"}, j.on = p, j.op = "price" \/ Has(j.then, "price"),
         Edit(p), UNCHANGED <<priced, manual, lines, gallery>>,
         UNCHANGED listing \/ Entering(p)
  PROVE  ListingRequest(c)
<1>1. Enters(c, j) /\ j.op \notin {"moveListing", "deleteImage"}
  BY DEF Enters, Starts, projects
<1> QED
  BY <1>1 DEF ListingRequest

LEMMA WasRead ==
  ASSUME NEW j, Formed(j), NEW w
  PROVE  LET k == [j EXCEPT !.was = w] IN
         /\ Formed(k) /\ k # Idle
         /\ k.op = j.op /\ k.on = j.on /\ k.set = j.set /\ k.was = w /\ k.then = j.then
         /\ part # "LISTINGS" => k.approved = j.approved
<1> DEFINE k == [j EXCEPT !.was = w]
<1>1. /\ DOMAIN k = DOMAIN j
      /\ k.op = j.op /\ k.on = j.on /\ k.set = j.set /\ k.was = w /\ k.then = j.then
      /\ part # "LISTINGS" => k.approved = j.approved
  BY DEF Formed, Fields
<1> HIDE DEF k
<1>2. Formed(k)
  BY <1>1 DEF Formed, Fields
<1> QED
  BY <1>1, <1>2, FieldsRun DEF k, Formed

\* Every request to the listings.
LEMMA ListingHandlers ==
  ASSUME part = "LISTINGS", UNCHANGED projects, PhotoRows, Shaped,
         NEW c \in Idling, NEW e \in Staff, NEW p \in Properties, ListingRequests(c, e, p)
  PROVE  ListingRequest(c)
<1> USE NoneAhead, OneAhead
<1>1. ASSUME NEW named, NEW projectPm, NEW cityPms, createProperty(c, e, p, named, projectPm, cityPms)
      PROVE  ListingRequest(c)
  <2>1. Entering(p) /\ Edit(p) /\ UNCHANGED <<priced, manual, lines, gallery>>
    BY <1>1 DEF createProperty, Entering
  <2>2. CASE Begin(c, Job("manual", p, NoChange, <<"price">>))
    <3>1. Ahead(<<"price">>) /\ Has(<<"price">>, "price")
      BY DEF Later
    <3> QED
      BY <2>1, <2>2, <3>1, JobFormed, Entered DEF Last, Changes, Edits
  <2>3. CASE Begin(c, Job("price", p, NoChange, <<>>))
    BY <2>1, <2>3, JobFormed, Entered DEF Last, Changes, Edits
  <2> QED
    BY <1>1, <2>2, <2>3 DEF createProperty
<1>2. ASSUME NEW pm, NEW withLines \in BOOLEAN, updateProperty(c, e, p, pm, withLines)
      PROVE  ListingRequest(c)
  <2> DEFINE first  == <<"publish">> \o (IF pm # listing[p].pm THEN <<"visits">> ELSE <<>>)
             second == IF withLines THEN <<"manual", "price">> ELSE <<"price">>
             j      == Job("editListing", p, [pm |-> pm], first \o second)
             k      == [j EXCEPT !.was = <<listing[p].pm, pm>>]
  <2>1. Ask(c, p, k)
    BY <1>2 DEF updateProperty
  <2>2. first \in Seq(Later \ Last)
    <3>1. "publish" \in Later \ Last /\ "visits" \in Later \ Last
      BY DEF Later, Last
    <3>2. /\ <<"publish">> \in Seq(Later \ Last) /\ <<"visits">> \in Seq(Later \ Last)
          /\ <<>> \in Seq(Later \ Last)
      BY <3>1
    <3> QED
      BY <3>2, ConcatProperties
  <2>3. Ahead(second) /\ Has(second, "price")
    BY PairAhead DEF Later, Last
  <2> HIDE DEF first, second
  <2>4. Ahead(first \o second) /\ Has(first \o second, "price")
    BY <2>2, <2>3, JoinedAhead
  <2>5. Formed(j) /\ j.op = "editListing"
    BY <2>4, JobFormed DEF Last, Changes, Edits
  <2> HIDE DEF j
  <2>6. PICK w : w = <<listing[p].pm, pm>>
    OBVIOUS
  <2>7. /\ Formed([j EXCEPT !.was = w]) /\ [j EXCEPT !.was = w] # Idle
        /\ [j EXCEPT !.was = w].op = "editListing"
    BY <2>5, WasRead, Zenon
  <2>8. Formed(k) /\ k # Idle /\ k.op = "editListing"
    BY <2>6, <2>7
  <2> QED
    BY <2>1, <2>8, OtherAsk DEF Starts
<1>3. ASSUME NEW pm, reassignProperty(c, e, p, pm)
      PROVE  ListingRequest(c)
  <2> DEFINE j == Job("reassign", p, [pm |-> pm], <<>>)
             k == [j EXCEPT !.was = <<listing[p].pm, pm>>]
  <2>1. Ask(c, p, k)
    BY <1>3 DEF reassignProperty
  <2>2. Formed(j) /\ j.op = "reassign"
    BY JobFormed DEF Last, Changes, Edits
  <2> HIDE DEF j
  <2>3. PICK w : w = <<listing[p].pm, pm>>
    OBVIOUS
  <2>4. /\ Formed([j EXCEPT !.was = w]) /\ [j EXCEPT !.was = w] # Idle
        /\ [j EXCEPT !.was = w].op = "reassign"
    BY <2>2, WasRead, Zenon
  <2>5. Formed(k) /\ k # Idle /\ k.op = "reassign"
    BY <2>3, <2>4
  <2> QED
    BY <2>1, <2>5, OtherAsk DEF Starts
<1>4. ASSUME archiveProperty(c, e, p) PROVE ListingRequest(c)
  <2> DEFINE j == Job("moveListing", p, [status |-> "ARCHIVED"], <<>>)
  <2>1. Ask(c, p, j) /\ listing[p].status # "ABSENT"
    BY <1>4 DEF archiveProperty, Ask
  <2>2. Formed(j) /\ j # Idle /\ j.op = "moveListing" /\ j.on = p /\ j.set = [status |-> "ARCHIVED"]
    BY JobFormed DEF Last, Changes, Edits
  <2> HIDE DEF j
  <2>3. ListingRead(j) /\ j.op \in Starts
    BY <2>1, <2>2 DEF ListingRead, Starts, Past
  <2> QED
    BY <2>1, <2>2, <2>3, ListingAsk
<1>5. ASSUME confirmLocationByPM(c, e, p) PROVE ListingRequest(c)
  <2>1. Ask(c, p, Job("locate", p, NoChange, <<>>))
    BY <1>5 DEF confirmLocationByPM
  <2> QED
    BY <2>1, JobFormed, OtherAsk DEF Last, Changes, Edits, Starts
<1>6. ASSUME \/ resubmitProperty(c, e, p) \/ dmPolishProperty(c, e, p) \/ dmVerifyAsIsProperty(c, e, p)
      PROVE  ListingRequest(c)
  <2>1. CASE resubmitProperty(c, e, p)
    BY <2>1, MoveAsk DEF resubmitProperty, Past
  <2>2. CASE dmPolishProperty(c, e, p)
    <3>1. listing[p].status = "PENDING_DM_POLISH"
      BY <2>2 DEF dmPolishProperty, Move, validPropertyTransitions
    <3> QED
      BY <2>2, <3>1, MoveAsk DEF dmPolishProperty, Past
  <2>3. CASE dmVerifyAsIsProperty(c, e, p)
    <3>1. listing[p].status = "PENDING_DM_POLISH"
      BY <2>3 DEF dmVerifyAsIsProperty, Move, validPropertyTransitions
    <3> QED
      BY <2>3, <3>1, MoveAsk DEF dmVerifyAsIsProperty, Past
  <2> QED
    BY <1>6, <2>1, <2>2, <2>3
<1>7. ASSUME NEW approved \in BOOLEAN, verifyProperty(c, e, p, approved)
      PROVE  ListingRequest(c)
  BY <1>7, MoveAsk DEF verifyProperty, Past
<1>8. ASSUME NEW approved \in BOOLEAN, mdApproveProperty(c, e, p, approved)
      PROVE  ListingRequest(c)
  <2>1. CASE approved
    <3>1. Move(c, p, "MD_APPROVE", "LIVE", <<"publish">>) /\ listing[p].status = "PENDING_MD_APPROVAL"
      BY <1>8, <2>1 DEF mdApproveProperty, Move, validPropertyTransitions
    <3>2. Ahead(<<"publish">>)
      BY DEF Later
    <3> QED
      BY <3>1, <3>2, MoveAsk DEF Past
  <2>2. CASE ~approved
    BY <1>8, <2>2, MoveAsk DEF mdApproveProperty, Past
  <2> QED
    BY <2>1, <2>2
<1>9. ASSUME overridePrice(c, e, p) PROVE ListingRequest(c)
  <2>1. /\ Edit(p) /\ Begin(c, Job("price", p, NoChange, <<>>))
        /\ UNCHANGED <<priced, manual, lines, gallery, listing>>
    BY <1>9 DEF overridePrice, listings
  <2> QED
    BY <2>1, JobFormed, Entered DEF Last, Changes, Edits
<1>10. ASSUME PostPricingRecalculate(c, e, p) PROVE ListingRequest(c)
  <2>1. Ask(c, p, Job("price", p, NoChange, <<>>))
    BY <1>10 DEF PostPricingRecalculate
  <2> QED
    BY <2>1, JobFormed, OtherAsk DEF Last, Changes, Edits, Starts
<1>11. ASSUME createPropertyRule(c, e, p) \/ deletePropertyRule(c, e, p) PROVE ListingRequest(c)
  BY <1>11, RuleServed DEF createPropertyRule, deletePropertyRule
<1>12. ASSUME NEW on \in BOOLEAN, togglePublication(c, e, p, on) PROVE ListingRequest(c)
  <2>1. Ask(c, p, Job("toggle", p, [on |-> on], <<>>))
    BY <1>12 DEF togglePublication
  <2> QED
    BY <2>1, JobFormed, OtherAsk DEF Last, Changes, Edits, Starts
<1>13. ASSUME NEW m \in Images, NEW primary \in BOOLEAN,
              uploadImage(c, e, p, m, primary) \/ updateImage(c, e, p, m, primary)
       PROVE  ListingRequest(c)
  <2> DEFINE base == IF primary THEN Unmarked(gallery[p]) ELSE gallery[p]
  <2>1. base \in {gallery[p], Unmarked(gallery[p])} /\ (primary => base = Unmarked(gallery[p]))
    OBVIOUS
  <2>2. "primary" \in DOMAIN base[m]
    BY DEF PhotoRows, Unmarked
  <2>3. CASE uploadImage(c, e, p, m, primary)
    <3> DEFINE row == [by |-> e, primary |-> primary, state |-> "PENDING"]
    <3>1. Photo(c, p, [base EXCEPT ![m] = row])
      BY <2>3 DEF uploadImage
    <3>2. "primary" \in DOMAIN row /\ row.primary = primary
      OBVIOUS
    <3> HIDE DEF row, base
    <3> QED
      BY <2>1, <3>1, <3>2, PhotoTaken
  <2>4. CASE updateImage(c, e, p, m, primary)
    <3> DEFINE row == [base[m] EXCEPT !.primary = primary]
    <3>1. Photo(c, p, [base EXCEPT ![m] = row])
      BY <2>4 DEF updateImage
    <3>2. "primary" \in DOMAIN row /\ row.primary = primary
      BY <2>2
    <3> HIDE DEF row, base
    <3> QED
      BY <2>1, <3>1, <3>2, PhotoTaken
  <2> QED
    BY <1>13, <2>3, <2>4
<1>14. ASSUME NEW m \in Images, deleteImage(c, e, p, m) PROVE ListingRequest(c)
  <2> DEFINE j == Job("deleteImage", p, [image |-> m, primary |-> gallery[p][m].primary], <<>>)
  <2>1. Ask(c, p, j)
    BY <1>14 DEF deleteImage
  <2>2. /\ Formed(j) /\ j # Idle /\ j.op = "deleteImage" /\ j.on = p
        /\ j.set = [image |-> m, primary |-> gallery[p][m].primary]
    BY JobFormed DEF Last, Changes, Edits
  <2> HIDE DEF j
  <2>3. ListingRead(j) /\ j.op \in Starts
    BY <2>2 DEF ListingRead, Starts
  <2> QED
    BY <2>1, <2>2, <2>3, ListingAsk
<1>15. ASSUME NEW m \in Images, approveImage(c, e, p, m) \/ rejectImage(c, e, p, m)
       PROVE  ListingRequest(c)
  <2>1. PICK state : Photo(c, p, [gallery[p] EXCEPT ![m].state = state])
    BY <1>15 DEF approveImage, rejectImage
  <2> DEFINE row == [gallery[p][m] EXCEPT !.state = state]
  <2>2. "primary" \in DOMAIN row /\ row.primary = gallery[p][m].primary /\ row.primary \in BOOLEAN
    BY DEF PhotoRows
  <2>3. Photo(c, p, [gallery[p] EXCEPT ![m] = row])
    BY <2>1
  <2> HIDE DEF row
  <2> QED
    BY <2>2, <2>3, PhotoTaken
<1> QED
  BY <1>1, <1>2, <1>3, <1>4, <1>5, <1>6, <1>7, <1>8, <1>9, <1>10, <1>11, <1>12, <1>13, <1>14, <1>15
     DEF ListingRequests

-----------------------------------------------------------------------------
(* A step leaves the handlers in shape.                                     *)

LEMMA PersistFormed ==
  ASSUME NEW j, Formed(j), NEW w
  PROVE  LET k == [j EXCEPT !.op = "persist", !.was = w] IN
         /\ Formed(k) /\ k # Idle /\ k.op = "persist" /\ k.on = j.on /\ k.set = j.set
         /\ k.was = w /\ k.then = j.then
         /\ part # "LISTINGS" => k.approved = j.approved
<1> DEFINE k == [j EXCEPT !.op = "persist", !.was = w]
<1>1. /\ DOMAIN k = DOMAIN j
      /\ k.op = "persist" /\ k.on = j.on /\ k.set = j.set /\ k.was = w /\ k.then = j.then
      /\ part # "LISTINGS" => k.approved = j.approved
  BY DEF Formed, Fields
<1> HIDE DEF k
<1>2. Formed(k)
  BY <1>1 DEF Formed, Fields, Last, Edits, Changes
<1> QED
  BY <1>1, <1>2, FieldsRun DEF k, Formed

LEMMA StepShapes ==
  ASSUME Shaped, UNCHANGED part, NEW c \in Calls, Step(c)
  PROVE  /\ Shaped' /\ \A d \in Calls \ {c} : call'[d] = call[d]
         /\ ~disturbed' => ~disturbed /\ \A d \in Calls \ {c} : ~Running(d)
<1>1. CASE \E j : Asks(c, j) \/ Enters(c, j)
  BY <1>1, Opens DEF Asks, Enters
<1>2. CASE Running(c) /\ Done(c)
  BY <1>2, IsDone
<1>3. CASE Running(c) /\ \E j : Turns(c, j)
  BY <1>3, GoesOn DEF Turns
<1>4. CASE Running(c) /\ recalculate(c)
  <2>1. Formed(call[c])
    BY <1>4 DEF Shaped
  <2>2. PICK w : Continue(c, [call[c] EXCEPT !.op = "persist", !.was = w])
    BY <1>4 DEF recalculate
  <2> DEFINE k == [call[c] EXCEPT !.op = "persist", !.was = w]
  <2>3. Formed(k) /\ Continue(c, k)
    BY <2>1, <2>2, PersistFormed
  <2> HIDE DEF k
  <2> QED
    BY <1>4, <2>3, GoesOn
<1>5. CASE Running(c) /\ Finish(c)
  BY <1>5, GoesOn DEF Finish
<1>6. CASE Abandon(c)
  BY <1>6, Stops DEF Abandon, Shaped
<1> QED
  BY <1>1, <1>2, <1>3, <1>4, <1>5, <1>6
     DEF Step, Writes, Reprices, Alters, PricingStep, persistComputation, replaceManualLines, recordChanges

\* A recalculation goes on with itself, or what is to be done later.
LEMMA PricingGoesOn ==
  ASSUME Shaped, UNCHANGED part, NEW c \in Calls, PricingStep(c) \/ Abandon(c)
  PROVE  Running(c)' => call'[c].op \in Later \cup {"persist"}
<1>1. CASE Abandon(c)
  BY <1>1, Stops DEF Abandon, Running, Shaped
<1>2. CASE persistComputation(c) \/ replaceManualLines(c)
  <2>1. Running(c) /\ Done(c)
    BY <1>2 DEF persistComputation, replaceManualLines, Running, Idle
  <2>2. call'[c] = After(call[c]) /\ Formed(call[c])
    BY <2>1, IsDone DEF Shaped
  <2> QED
    BY <2>2, AfterFormed DEF Running
<1>3. CASE recalculate(c)
  <2>1. Running(c)
    BY <1>3 DEF recalculate, Running, Idle
  <2>2. PICK w : call' = [call EXCEPT ![c] = [call[c] EXCEPT !.op = "persist", !.was = w]]
    BY <1>3 DEF recalculate, Continue
  <2>3. call'[c].op = "persist"
    BY <2>1, <2>2 DEF Shaped, Formed, Fields
  <2> QED
    BY <2>3
<1> QED
  BY <1>1, <1>2, <1>3 DEF PricingStep

\* Everything a handler of the listings still writes.
LEMMA ListingCommit ==
  ASSUME part = "LISTINGS", UNCHANGED projects, Shaped, NEW c \in Calls, ListingCommits(c)
  PROVE  Running(c) /\ Done(c) /\ Step(c)
<1>1. /\ call[c].op \in {"moveListing", "editListing", "publish", "visits", "reassign", "locate",
                         "toggle", "deleteImage"}
      /\ Done(c) /\ UNCHANGED unrecorded
  BY DEF ListingCommits, moveListing, editListing, autoPublish, moveVisits, reassignPropertyTx,
         locate, toggle, deleteImageTx, projects
<1>2. Running(c)
  BY <1>1 DEF Running, Idle
<1>3. CASE editListing(c)
  BY <1>1, <1>2, <1>3 DEF editListing, Step, Reprices, Edits
<1>4. CASE ~editListing(c)
  <2>1. UNCHANGED prices /\ call[c].op # "editListing"
    BY <1>4 DEF ListingCommits, moveListing, autoPublish, moveVisits, reassignPropertyTx,
         locate, toggle, deleteImageTx
  <2> QED
    BY <1>1, <1>2, <2>1 DEF Step, Writes, Kept, Changes
<1> QED
  BY <1>1, <1>2, <1>3, <1>4


\* The steps of a behaviour about the listings.
LEMMA ListingSteps ==
  ASSUME part = "LISTINGS", Shaped, PhotoRows, [Next]_vars
  PROVE  /\ UNCHANGED <<projects, files, part>>
         /\ \/ \E c \in Calls : Step(c) /\ ListingRequest(c)
            \/ \E c \in Calls : Step(c) /\ ListingCommits(c)
            \/ \E c \in Calls : Step(c) /\ UNCHANGED listings /\ (PricingStep(c) \/ Abandon(c))
            \/ UNCHANGED <<running, prices, listings>>
            \/ \E p \in Properties : ListingsAround(p)
<1>1. CASE ListingsNext
  <2>1. UNCHANGED <<projects, files, part>>
    BY <1>1 DEF ListingsNext
  <2>2. CASE \E c \in Idling, e \in Staff, p \in Properties : ListingRequests(c, e, p)
    <3>1. PICK c \in Idling, e \in Staff, p \in Properties : ListingRequests(c, e, p)
      BY <2>2
    <3>2. ListingRequest(c)
      BY <2>1, <3>1, ListingHandlers
    <3>3. Step(c) /\ c \in Calls
      BY <3>2 DEF ListingRequest, Step, Idling
    <3> QED
      BY <2>1, <3>2, <3>3
  <2>3. CASE \E c \in Calls : ListingCommits(c)
    BY <2>1, <2>3, ListingCommit
  <2>4. CASE \E p \in Properties : ListingsAround(p)
    BY <2>1, <2>4
  <2> QED
    BY <1>1, <2>2, <2>3, <2>4 DEF ListingsNext
<1>2. CASE Repricing
  <2>1. UNCHANGED <<listings, projects, files, part, unrecorded>>
    BY <1>2 DEF Repricing, projects
  <2>2. PICK c \in Calls : PricingStep(c) \/ (Abandon(c) /\ UNCHANGED prices)
    BY <1>2 DEF Repricing
  <2>3. Running(c)
    BY <2>2 DEF PricingStep, recalculate, persistComputation, replaceManualLines, Abandon,
                Running, Idle
  <2>4. Step(c)
    BY <2>1, <2>2, <2>3 DEF Step, Kept
  <2> QED
    BY <2>1, <2>2, <2>4
<1>3. CASE UNCHANGED vars
  BY <1>3 DEF vars, projects, files, listings, prices, running
<1> QED
  BY <1>1, <1>2, <1>3 DEF Next, ProjectsNext, FilesNext


-----------------------------------------------------------------------------
(* Nothing gets past the PM's desk unseen, overlap or not: a handler that   *)
(* moves a property on has seen it located, or already past the desk, and  *)
(* no handler takes that back.                                             *)

MovesLocated ==
    part = "LISTINGS" =>
        \A c \in Calls : Running(c) /\ call[c].op = "moveListing" =>
            LET job == call[c] IN
            /\ job.on \in Properties /\ listing[job.on].status # "ABSENT" /\ job.set.status # "ABSENT"
            /\ job.set.status \in Past => listing[job.on].located

LocatedInv == ListingRows /\ ListedWasLocated /\ MovesLocated

\* What a step may do to a property: enter one, or write one column of one that is there.
Kind(p) ==
    /\ {"status", "pm", "creator", "located"} \subseteq DOMAIN listing'[p]
    /\ \/ listing[p].status = "ABSENT"
       \/ /\ listing'[p].located = listing[p].located \/ listing'[p].located = TRUE
          /\ listing'[p].status # "ABSENT" \/ listing'[p].status = listing[p].status
    /\ listing'[p].status \in Past =>
         listing'[p].located \/ (listing[p].status \in Past /\ listing'[p].located = listing[p].located)

LEMMA ListingWritten ==
  ASSUME ListingRows, ListedWasLocated, MovesLocated, part = "LISTINGS", Shaped, NEW c \in Calls,
         ListingCommits(c)
  PROVE  ListingRows' /\ \A p \in Properties : Kind(p)
<1>1. Running(c)
  <2>1. call[c].op # "IDLE"
    <3>1. CASE moveListing(c) \/ editListing(c) \/ autoPublish(c) \/ moveVisits(c)
      BY <3>1 DEF moveListing, editListing, autoPublish, moveVisits
    <3>2. CASE reassignPropertyTx(c) \/ locate(c) \/ toggle(c) \/ deleteImageTx(c)
      BY <3>2 DEF reassignPropertyTx, locate, toggle, deleteImageTx
    <3> QED
      BY <3>1, <3>2 DEF ListingCommits
  <2> QED
    BY <2>1 DEF Running, Idle
<1> DEFINE on == call[c].on
<1>2. CASE moveListing(c)
  <2>1. /\ on \in Properties /\ call[c].set.status # "ABSENT"
        /\ call[c].set.status \in Past => listing[on].located
    BY <1>1, <1>2 DEF MovesLocated, moveListing
  <2>2. listing' = [listing EXCEPT ![on].status = call[c].set.status]
    BY <1>2 DEF moveListing
  <2> QED
    BY <2>1, <2>2 DEF ListingRows, Kind, ListedWasLocated
<1>3. CASE editListing(c) \/ reassignPropertyTx(c)
  <2>1. listing' = [listing EXCEPT ![on].pm = call[c].set.pm]
    BY <1>3 DEF editListing, reassignPropertyTx
  <2> QED
    BY <2>1 DEF ListingRows, Kind
<1>4. CASE locate(c)
  <2>1. listing' = [listing EXCEPT ![on].located = TRUE]
    BY <1>4 DEF locate
  <2> QED
    BY <2>1 DEF ListingRows, Kind
<1>5. CASE UNCHANGED listing
  BY <1>5 DEF ListingRows, Kind
<1> QED
  BY <1>2, <1>3, <1>4, <1>5 DEF ListingCommits, autoPublish, moveVisits, toggle, deleteImageTx

LEMMA ListingTouched ==
  ASSUME ListingRows, NEW p \in Properties, Entering(p) \/ bookingLocks(p) \/ bookingReleases(p)
  PROVE  ListingRows' /\ \A q \in Properties : Kind(q)
<1>1. CASE Entering(p)
  <2>0. PICK pm, e : listing' = [listing EXCEPT ![p] = [NoListing EXCEPT
                                !.status = "PENDING_VERIFICATION", !.pm = pm, !.creator = e]]
    BY <1>1 DEF Entering
  <2> DEFINE row == [NoListing EXCEPT !.status = "PENDING_VERIFICATION", !.pm = pm, !.creator = e]
  <2>1. /\ listing' = [listing EXCEPT ![p] = row] /\ row.status = "PENDING_VERIFICATION"
        /\ {"status", "pm", "creator", "located"} \subseteq DOMAIN row
    BY <2>0 DEF NoListing
  <2> HIDE DEF row
  <2>2. listing[p].status = "ABSENT"
    BY <1>1 DEF Entering
  <2> QED
    BY <2>1, <2>2 DEF ListingRows, Kind, Past
<1>2. CASE bookingLocks(p) \/ bookingReleases(p)
  <2>1. PICK status \in {"LIVE", "LOCKED"} : listing' = [listing EXCEPT ![p].status = status]
    BY <1>2 DEF bookingLocks, bookingReleases
  <2>2. listing[p].status \in Past
    BY <1>2 DEF bookingLocks, bookingReleases, Past
  <2> QED
    BY <2>1, <2>2 DEF ListingRows, Kind, Past
<1> QED
  BY <1>1, <1>2

\* Such writes leave what is seen seen, and what a handler saw as it saw it.
LEMMA LocatedKept ==
  ASSUME LocatedInv, part = "LISTINGS", UNCHANGED part,
         ListingRows', \A p \in Properties : Kind(p),
         \A d \in Calls : Running(d)' /\ call'[d].op = "moveListing" =>
             \/ call'[d] = call[d]
             \/ UNCHANGED listing /\ ListingRead(call'[d])
  PROVE  LocatedInv'
<1>1. ListedWasLocated'
  BY DEF LocatedInv, ListedWasLocated, Kind
<1>2. ASSUME NEW d \in Calls, Running(d)', call'[d].op = "moveListing"
      PROVE  LET job == call'[d] IN
             /\ job.on \in Properties /\ listing'[job.on].status # "ABSENT" /\ job.set.status # "ABSENT"
             /\ job.set.status \in Past => listing'[job.on].located
  <2>1. CASE call'[d] = call[d]
    BY <1>2, <2>1 DEF LocatedInv, MovesLocated, Running, Kind
  <2>2. CASE UNCHANGED listing /\ ListingRead(call'[d])
    BY <1>2, <2>2 DEF LocatedInv, ListedWasLocated, ListingRead
  <2> QED
    BY <1>2, <2>1, <2>2
<1>3. MovesLocated'
  BY <1>2 DEF MovesLocated
<1> QED
  BY <1>1, <1>3 DEF LocatedInv


LEMMA LocatedInit ==
  ASSUME Init
  PROVE  LocatedInv
<1>1. PICK start \in [Properties -> StartListings] : listing = [p \in Properties |-> start[p].row]
  BY DEF Init, ListingsInit
<1>2. ListingRows /\ ListedWasLocated
  BY <1>1, StartListingsAssumption DEF ListingRows, ListedWasLocated, ListingRow
<1>3. MovesLocated
  BY DEF Init, HandlersInit, MovesLocated, Running
<1> QED
  BY <1>2, <1>3 DEF LocatedInv

LEMMA LocatedStep ==
  ASSUME Shaped, PhotoRows, LocatedInv, [Next]_vars
  PROVE  LocatedInv'
<1>1. CASE part = "LISTINGS"
  <2>1. UNCHANGED <<projects, part>>
    BY <1>1, ListingSteps
  <2>2. ASSUME NEW c \in Calls, Step(c), ListingRequest(c)
        PROVE  LocatedInv'
    <3>1. \A d \in Calls \ {c} : call'[d] = call[d]
      BY <2>1, <2>2, StepShapes
    <3>2. PICK j : \/ Asks(c, j) /\ j # Idle /\ ListingRead(j) /\ UNCHANGED listing
                   \/ /\ Enters(c, j) /\ j.op \notin {"moveListing", "deleteImage"}
                      /\ UNCHANGED listing \/ \E p \in Properties : Entering(p)
                   \/ Asks(c, j) /\ j = Idle /\ UNCHANGED listing
      BY <2>2 DEF ListingRequest
    <3>3. call'[c] = j
      <4>1. c \in Idling /\ Begin(c, j) /\ (j # Idle => Formed(j))
        BY <3>2 DEF Asks, Enters
      <4> QED
        BY <2>1, <4>1, Opens
    <3>4. ListingRows' /\ \A p \in Properties : Kind(p)
      <4>1. CASE UNCHANGED listing
        BY <4>1 DEF LocatedInv, ListingRows, Kind
      <4> QED
        BY <3>2, <4>1, ListingTouched DEF LocatedInv
    <3>5. \A d \in Calls : Running(d)' /\ call'[d].op = "moveListing" =>
             call'[d] = call[d] \/ (UNCHANGED listing /\ ListingRead(call'[d]))
      BY <3>1, <3>2, <3>3 DEF Running
    <3> QED
      BY <1>1, <2>1, <3>4, <3>5, LocatedKept
  <2>3. ASSUME NEW c \in Calls, Step(c), ListingCommits(c)
        PROVE  LocatedInv'
    <3>1. \A d \in Calls \ {c} : call'[d] = call[d]
      BY <2>1, <2>3, StepShapes
    <3>2. Running(c) /\ call'[c] = After(call[c]) /\ Formed(call[c])
      BY <1>1, <2>1, <2>3, ListingCommit, IsDone DEF Shaped
    <3>3. Running(c)' => call'[c].op # "moveListing"
      BY <3>2, AfterFormed DEF Later, Running
    <3>4. ListingRows' /\ \A p \in Properties : Kind(p)
      BY <1>1, <2>3, ListingWritten DEF LocatedInv
    <3> QED
      BY <1>1, <2>1, <3>1, <3>3, <3>4, LocatedKept
  <2>4. ASSUME NEW c \in Calls, Step(c), UNCHANGED listings, PricingStep(c) \/ Abandon(c)
        PROVE  LocatedInv'
    <3>1. \A d \in Calls \ {c} : call'[d] = call[d]
      BY <2>1, <2>4, StepShapes
    <3>2. Running(c)' => call'[c].op # "moveListing"
      BY <2>1, <2>4, PricingGoesOn DEF Later
    <3>3. ListingRows' /\ \A p \in Properties : Kind(p)
      BY <2>4 DEF LocatedInv, ListingRows, Kind, listings
    <3> QED
      BY <1>1, <2>1, <3>1, <3>2, <3>3, LocatedKept
  <2>5. CASE UNCHANGED <<running, prices, listings>>
    BY <2>1, <2>5 DEF LocatedInv, ListingRows, ListedWasLocated, MovesLocated, Running, running, listings
  <2>6. ASSUME NEW p \in Properties, ListingsAround(p)
        PROVE  LocatedInv'
    <3>1. UNCHANGED running
      BY <2>6 DEF ListingsAround, bookingLocks, bookingReleases, routeVisit
    <3>2. ListingRows' /\ \A q \in Properties : Kind(q)
      <4>1. CASE UNCHANGED listing
        BY <4>1 DEF LocatedInv, ListingRows, Kind
      <4> QED
        BY <2>6, <4>1, ListingTouched DEF LocatedInv, ListingsAround, routeVisit
    <3> QED
      BY <1>1, <2>1, <3>1, <3>2, LocatedKept DEF running
  <2> QED
    BY <1>1, <2>2, <2>3, <2>4, <2>5, <2>6, ListingSteps
<1>2. CASE part # "LISTINGS"
  <2>1. UNCHANGED <<listings, part>>
    BY <1>2 DEF Next, ListingsNext, ProjectsNext, FilesNext, Repricing, vars
  <2> QED
    BY <1>2, <2>1 DEF LocatedInv, ListingRows, ListedWasLocated, MovesLocated, listings
<1> QED
  BY <1>1, <1>2


-----------------------------------------------------------------------------
(* One primary photo: the handler that deletes one knows whether it was.    *)

OnePrimary ==
    ~disturbed \/ part # "LISTINGS" =>
        \A p \in Properties : \A m, n \in Images : gallery[p][m].primary /\ gallery[p][n].primary => m = n

DeletesKnowing ==
    part = "LISTINGS" /\ ~disturbed =>
        \A c \in Calls : Running(c) /\ call[c].op = "deleteImage" =>
            LET job == call[c] IN
            /\ job.on \in Properties /\ job.set.image \in Images
            /\ job.set.primary = gallery[job.on][job.set.image].primary

PhotosInv == PhotoRows /\ OnePrimary /\ DeletesKnowing

LEMMA Photographed ==
  ASSUME PhotoRows, NEW p \in Properties, Photographing(p)
  PROVE  /\ PhotoRows'
         /\ (\A m, n \in Images : gallery[p][m].primary /\ gallery[p][n].primary => m = n) =>
              (\A m, n \in Images : gallery'[p][m].primary /\ gallery'[p][n].primary => m = n)
         /\ \A q \in Properties \ {p} : gallery'[q] = gallery[q]
<1>1. PICK m \in Images, base \in {gallery[p], Unmarked(gallery[p])} : \E row :
        /\ gallery' = [gallery EXCEPT ![p] = [base EXCEPT ![m] = row]]
        /\ "primary" \in DOMAIN row /\ row.primary \in BOOLEAN
        /\ row.primary => base = Unmarked(gallery[p]) \/ gallery[p][m].primary
  BY DEF Photographing
<1>2. PICK row :
        /\ gallery' = [gallery EXCEPT ![p] = [base EXCEPT ![m] = row]]
        /\ "primary" \in DOMAIN row /\ row.primary \in BOOLEAN
        /\ row.primary => base = Unmarked(gallery[p]) \/ gallery[p][m].primary
  BY <1>1
<1>3. /\ base = [n \in Images |-> base[n]]
      /\ \A n \in Images : "primary" \in DOMAIN base[n] /\ base[n].primary \in BOOLEAN
      /\ \A n \in Images : base[n].primary => gallery[p][n].primary
      /\ base = Unmarked(gallery[p]) => \A n \in Images : ~base[n].primary
  <2>1. CASE base = gallery[p]
    <3>1. base = Unmarked(gallery[p]) => \A n \in Images : ~base[n].primary
      <4> DEFINE u == Unmarked(gallery[p])
      <4>1. \A n \in Images : u[n].primary = FALSE
        BY DEF PhotoRows, Unmarked
      <4> HIDE DEF u
      <4> QED
        BY <4>1 DEF u
    <3> QED
      BY <2>1, <3>1 DEF PhotoRows
  <2>2. CASE base = Unmarked(gallery[p])
    <3>1. /\ base = [n \in Images |-> base[n]]
          /\ \A n \in Images : "primary" \in DOMAIN base[n] /\ base[n].primary = FALSE
      BY <2>2 DEF PhotoRows, Unmarked
    <3> QED
      BY <3>1
  <2> QED
    BY <2>1, <2>2
<1> DEFINE g == [base EXCEPT ![m] = row]
<1>4. /\ g = [n \in Images |-> g[n]] /\ g[m] = row /\ \A n \in Images \ {m} : g[n] = base[n]
  BY <1>3
<1>5. gallery' = [gallery EXCEPT ![p] = g]
  BY <1>2
<1> HIDE DEF g
<1>6. gallery'[p] = g /\ \A q \in Properties \ {p} : gallery'[q] = gallery[q]
  BY <1>5 DEF PhotoRows
<1>7. PhotoRows'
  <2>1. gallery' = [q \in Properties |-> gallery'[q]]
    BY <1>5 DEF PhotoRows
  <2>2. \A n \in Images : "primary" \in DOMAIN g[n] /\ g[n].primary \in BOOLEAN
    BY <1>2, <1>3, <1>4
  <2> QED
    BY <2>1, <2>2, <1>4, <1>6 DEF PhotoRows
<1>8. ASSUME \A k, n \in Images : gallery[p][k].primary /\ gallery[p][n].primary => k = n,
             NEW k \in Images, NEW n \in Images, g[k].primary, g[n].primary
      PROVE  k = n
  <2>1. CASE base = Unmarked(gallery[p])
    BY <1>3, <1>4, <1>8, <2>1
  <2>2. CASE base = gallery[p]
    BY <1>2, <1>3, <1>4, <1>8, <2>2
  <2> QED
    BY <2>1, <2>2
<1> QED
  BY <1>6, <1>7, <1>8

\* The photo goes, and hands its mark to another if it had it.
LEMMA PhotoDeleted ==
  ASSUME PhotosInv, part = "LISTINGS", NEW c \in Calls, deleteImageTx(c)
  PROVE  PhotoRows' /\ (~disturbed =>
           \A p \in Properties : \A m, n \in Images : gallery'[p][m].primary /\ gallery'[p][n].primary => m = n)
<1> DEFINE p     == call[c].on
           image == call[c].set.image
           left  == {m \in Images \ {image} : gallery[p][m] # NoImage}
           cleared == [gallery[p] EXCEPT ![image] = NoImage]
<1>1. Running(c)
  BY DEF deleteImageTx, Running, Idle
<1>2. PICK g : /\ gallery' = [gallery EXCEPT ![p] = g]
               /\ \/ g = cleared /\ (~call[c].set.primary \/ left = {})
                  \/ \E next \in left : call[c].set.primary /\ g = [cleared EXCEPT ![next].primary = TRUE]
  BY DEF deleteImageTx
<1>3. CASE p \notin Properties
  <2>1. gallery' = gallery
    BY <1>2, <1>3 DEF PhotosInv, PhotoRows
  <2> QED
    BY <2>1 DEF PhotosInv, PhotoRows, OnePrimary
<1>4. CASE p \in Properties
  <2>1. /\ cleared = [m \in Images |-> cleared[m]]
        /\ image \in Images => cleared[image] = NoImage
        /\ \A m \in Images \ {image} : cleared[m] = gallery[p][m]
        /\ \A m \in Images : "primary" \in DOMAIN cleared[m] /\ cleared[m].primary \in BOOLEAN
        /\ image \in Images => ~cleared[image].primary
    BY <1>4 DEF PhotosInv, PhotoRows, NoImage
  <2> HIDE DEF cleared
  <2>2. /\ g = [m \in Images |-> g[m]]
        /\ \A m \in Images : "primary" \in DOMAIN g[m] /\ g[m].primary \in BOOLEAN
    BY <1>2, <2>1
  <2>3. gallery'[p] = g /\ \A q \in Properties \ {p} : gallery'[q] = gallery[q]
    BY <1>2, <1>4 DEF PhotosInv, PhotoRows
  <2>4. PhotoRows'
    <3>1. gallery' = [q \in Properties |-> gallery'[q]]
      BY <1>2 DEF PhotosInv, PhotoRows
    <3> QED
      BY <3>1, <2>2, <2>3 DEF PhotosInv, PhotoRows
  <2>5. ASSUME ~disturbed, NEW m \in Images, NEW n \in Images, g[m].primary, g[n].primary
        PROVE  m = n
    <3>1. /\ image \in Images /\ call[c].set.primary = gallery[p][image].primary
          /\ \A k, l \in Images : gallery[p][k].primary /\ gallery[p][l].primary => k = l
      BY <1>1, <1>4, <2>5 DEF PhotosInv, DeletesKnowing, OnePrimary, deleteImageTx
    <3>2. \A k \in Images : cleared[k].primary => k # image /\ gallery[p][k].primary
      BY <2>1
    <3>3. CASE g = cleared
      BY <2>5, <3>1, <3>2, <3>3
    <3>4. CASE \E next \in left : call[c].set.primary /\ g = [cleared EXCEPT ![next].primary = TRUE]
      <4>1. PICK next \in left : call[c].set.primary /\ g = [cleared EXCEPT ![next].primary = TRUE]
        BY <3>4
      <4>2. \A k \in Images : ~cleared[k].primary
        BY <3>1, <3>2, <4>1
      <4>3. \A k \in Images \ {next} : g[k] = cleared[k]
        BY <2>1, <4>1
      <4> QED
        BY <2>5, <4>2, <4>3
    <3> QED
      BY <1>2, <3>3, <3>4
  <2> QED
    BY <2>3, <2>4, <2>5 DEF PhotosInv, OnePrimary
<1> QED
  BY <1>3, <1>4

LEMMA PhotosInit ==
  ASSUME Init
  PROVE  PhotosInv
<1>1. PICK start \in [Properties -> StartListings] : gallery = [p \in Properties |-> start[p].photos]
  BY DEF Init, ListingsInit
<1>2. PhotoRows /\ OnePrimary
  BY <1>1, StartListingsAssumption DEF PhotoRows, OnePrimary, Photos
<1>3. DeletesKnowing
  BY DEF Init, HandlersInit, DeletesKnowing, Running
<1> QED
  BY <1>2, <1>3 DEF PhotosInv


LEMMA PhotosStep ==
  ASSUME Shaped, PhotosInv, [Next]_vars
  PROVE  PhotosInv'
<1>1. CASE part = "LISTINGS"
  <2>1. UNCHANGED <<projects, part>>
    BY <1>1, ListingSteps DEF PhotosInv
  \* A handler that asks: nobody else is running, and nothing is written unless it is served.
  <2>2. ASSUME NEW c \in Calls, Step(c), ListingRequest(c)
        PROVE  PhotosInv'
    <3>1. /\ \A d \in Calls \ {c} : call'[d] = call[d]
          /\ ~disturbed' => ~disturbed /\ \A d \in Calls \ {c} : ~Running(d)
      BY <2>1, <2>2, StepShapes
    <3>2. PICK j : \/ Asks(c, j) /\ j # Idle /\ ListingRead(j) /\ UNCHANGED <<listing, gallery>>
                   \/ Enters(c, j) /\ j.op \notin {"moveListing", "deleteImage"} /\ UNCHANGED gallery
                   \/ /\ Asks(c, j) /\ j = Idle
                      /\ UNCHANGED gallery \/ \E p \in Properties : Photographing(p)
      BY <2>2 DEF ListingRequest
    <3>3. call'[c] = j
      <4>1. c \in Idling /\ Begin(c, j) /\ (j # Idle => Formed(j))
        BY <3>2 DEF Asks, Enters
      <4> QED
        BY <2>1, <4>1, Opens
    <3>4. PhotoRows' /\ OnePrimary'
      <4>1. CASE UNCHANGED gallery
        BY <1>1, <2>1, <3>1, <4>1 DEF PhotosInv, PhotoRows, OnePrimary
      <4>2. CASE \E p \in Properties : Photographing(p)
        <5>1. PICK p \in Properties : Photographing(p)
          BY <4>2
        <5>2. /\ PhotoRows'
              /\ (\A m, n \in Images : gallery[p][m].primary /\ gallery[p][n].primary => m = n) =>
                   (\A m, n \in Images : gallery'[p][m].primary /\ gallery'[p][n].primary => m = n)
              /\ \A q \in Properties \ {p} : gallery'[q] = gallery[q]
          BY <5>1, Photographed DEF PhotosInv
        <5> QED
          BY <1>1, <2>1, <3>1, <5>2 DEF PhotosInv, OnePrimary
      <4> QED
        BY <3>2, <4>1, <4>2
    <3>5. DeletesKnowing'
      BY <3>1, <3>2, <3>3 DEF DeletesKnowing, Running, ListingRead
    <3> QED
      BY <3>4, <3>5 DEF PhotosInv
  <2>3. ASSUME NEW c \in Calls, Step(c), ListingCommits(c)
        PROVE  PhotosInv'
    <3>1. Running(c) /\ call'[c] = After(call[c]) /\ Formed(call[c])
          /\ (\A d \in Calls \ {c} : call'[d] = call[d]) /\ disturbed' = disturbed
          /\ (~disturbed => \A d \in Calls \ {c} : ~Running(d))
      BY <1>1, <2>1, <2>3, ListingCommit, IsDone DEF Shaped
    <3>2. Running(c)' => call'[c].op # "deleteImage"
      BY <3>1, AfterFormed DEF Later, Running
    <3>3. PhotoRows' /\ OnePrimary'
      <4>1. CASE deleteImageTx(c)
        BY <1>1, <2>1, <3>1, <4>1, PhotoDeleted DEF OnePrimary
      <4>2. CASE UNCHANGED gallery
        BY <1>1, <2>1, <3>1, <4>2 DEF PhotosInv, PhotoRows, OnePrimary
      <4> QED
        BY <2>3, <4>1, <4>2 DEF ListingCommits, moveListing, editListing, autoPublish, moveVisits,
             reassignPropertyTx, locate, toggle
    <3>4. DeletesKnowing'
      BY <3>1, <3>2 DEF DeletesKnowing, Running
    <3> QED
      BY <3>3, <3>4 DEF PhotosInv
  <2>4. ASSUME NEW c \in Calls, Step(c), UNCHANGED listings, PricingStep(c) \/ Abandon(c)
        PROVE  PhotosInv'
    <3>1. /\ \A d \in Calls \ {c} : call'[d] = call[d]
          /\ ~disturbed' => ~disturbed /\ \A d \in Calls \ {c} : ~Running(d)
      BY <2>1, <2>4, StepShapes
    <3>2. Running(c)' => call'[c].op # "deleteImage"
      BY <2>1, <2>4, PricingGoesOn DEF Later
    <3>3. DeletesKnowing'
      BY <3>1, <3>2, <2>4 DEF DeletesKnowing, Running, listings
    <3> QED
      BY <1>1, <2>1, <2>4, <3>1, <3>3 DEF PhotosInv, PhotoRows, OnePrimary, listings
  <2>5. CASE UNCHANGED <<running, listings>>
    BY <2>1, <2>5 DEF PhotosInv, PhotoRows, OnePrimary, DeletesKnowing, Running, running, listings
  <2>6. ASSUME NEW p \in Properties, ListingsAround(p)
        PROVE  PhotosInv'
    <3>1. UNCHANGED <<running, gallery>>
      BY <2>6 DEF ListingsAround, bookingLocks, bookingReleases, routeVisit
    <3> QED
      BY <2>1, <3>1 DEF PhotosInv, PhotoRows, OnePrimary, DeletesKnowing, Running, running
  <2> QED
    BY <1>1, <2>2, <2>3, <2>4, <2>5, <2>6, ListingSteps DEF PhotosInv
<1>2. CASE part # "LISTINGS"
  <2>1. UNCHANGED <<listings, part>>
    BY <1>2 DEF Next, ListingsNext, ProjectsNext, FilesNext, Repricing, vars
  <2> QED
    BY <1>2, <2>1 DEF PhotosInv, PhotoRows, OnePrimary, DeletesKnowing, listings
<1> QED
  BY <1>1, <1>2


-----------------------------------------------------------------------------
(* The handlers of a project and its files.                                 *)

ProjectOps ==
    {"review", "mdReview", "editProject", "cancelProject", "createUnit", "bulk", "editUnit",
     "unitStatus", "override", "deleteUnit", "rule", "each"}

\* What a handler of the project has just read.
ProjectRead(j) ==
    /\ j.op \in ProjectOps
    /\ j.op = "review" => j.set.to # "VERIFIED"
    /\ j.op \in {"createUnit", "bulk"} => j.set.pub = (project.pub /\ isApproved)

ProjectRequest(c) ==
    /\ \E j : Asks(c, j) /\ (j # Idle => ProjectRead(j))
    /\ UNCHANGED <<project, unit>>
    /\ NoticesMatchUpdates => NoticesMatchUpdates'

LEMMA ProjectAsk ==
  ASSUME NEW c \in Idling, NEW j, AskProject(c, j), Formed(j), j # Idle, ProjectRead(j),
         j.op \in Changes \/ ~Has(j.then, "record")
  PROVE  ProjectRequest(c)
<1>1. j.op \in Starts
  BY DEF ProjectRead, ProjectOps, Starts
<1>2. Asks(c, j) /\ UNCHANGED <<project, unit, notices, posted>>
  BY <1>1 DEF Asks, Kept, AskProject, projects
<1> QED
  BY <1>2 DEF ProjectRequest, NoticesMatchUpdates

\* A job whose steps are known.
LEMMA ProjectJob ==
  ASSUME NEW c \in Idling, NEW op, NEW u, NEW set, NEW then,
         AskProject(c, Job2(op, u, set, then)), op \in ProjectOps, Ahead(then),
         op \in Edits => Has(then, "price"), op \in Changes => Has(then, "record"),
         op \notin Changes => then = <<>>, op = "bulk" => then = <<"record">>,
         op = "review" => set.to # "VERIFIED",
         op \in {"createUnit", "bulk"} => set.pub = (project.pub /\ isApproved)
  PROVE  ProjectRequest(c)
<1> DEFINE j == Job2(op, u, set, then)
<1>1. op \in Last => then = <<>>
  BY DEF Last, ProjectOps, Changes
<1>2. Formed(j) /\ j # Idle /\ j.op = op /\ j.set = set /\ j.then = then
  BY <1>1, Job2Formed
<1> HIDE DEF j
<1>3. ProjectRead(j) /\ (j.op \in Changes \/ ~Has(j.then, "record"))
  BY <1>2, NoneAhead DEF ProjectRead
<1> QED
  BY <1>2, <1>3, ProjectAsk DEF j

LEMMA PriceThenRecord ==
  LET s == <<"price", "record">> IN Ahead(s) /\ Has(s, "price") /\ Has(s, "record")
<1>1. "price" \in Later \ Last /\ "record" \in Later
  BY DEF Later, Last
<1>2. Ahead(<<"price", "record">>) /\ \A step : Has(<<"price", "record">>, step) <=> step \in {"price", "record"}
  BY <1>1, PairAhead
<1> QED
  BY <1>2

LEMMA PricedAhead ==
  ASSUME NEW withLines \in BOOLEAN
  PROVE  LET s == (IF withLines THEN <<"manual">> ELSE <<>>) \o <<"price", "record">> IN
         Ahead(s) /\ Has(s, "price") /\ Has(s, "record")
<1> DEFINE first == IF withLines THEN <<"manual">> ELSE <<>>
<1>1. first \in Seq(Later \ Last)
  <2>1. "manual" \in Later \ Last
    BY DEF Later, Last
  <2>2. <<"manual">> \in Seq(Later \ Last) /\ <<>> \in Seq(Later \ Last)
    BY <2>1
  <2> QED
    BY <2>2
<1>2. Ahead(<<"price", "record">>) /\ Has(<<"price", "record">>, "price")
      /\ Has(<<"price", "record">>, "record")
  BY PriceThenRecord
<1> HIDE DEF first
<1>3. LET s == first \o <<"price", "record">> IN Ahead(s) /\ Has(s, "price") /\ Has(s, "record")
  BY <1>1, <1>2, JoinedAhead
<1> QED
  BY <1>3 DEF first

LEMMA RecordAhead == Ahead(<<"record">>) /\ Has(<<"record">>, "record") /\ ~Has(<<"record">>, "price")
  BY OneAhead DEF Later

\* Every request to the project.
LEMMA ProjectHandlers ==
  ASSUME Shaped, NEW c \in Idling, NEW e, ProjectRequests(c, e)
  PROVE  ProjectRequest(c)
<1> USE NoneAhead DEF ProjectOps, Edits, Changes
<1>1. ASSUME submitForReview(c, e) \/ dmPolish(c, e) \/ dmVerifyAsIs(c, e)
      PROVE  ProjectRequest(c)
  <2>1. PICK to \in {"PENDING_DM_POLISH", "PENDING_MD_APPROVAL"} :
           AskProject(c, Job2("review", Nobody, [to |-> to], <<>>))
    BY <1>1 DEF submitForReview, dmPolish, dmVerifyAsIs, Review
  <2> QED
    BY <2>1, ProjectJob
<1>2. ASSUME NEW approved \in BOOLEAN, mdApprove(c, e, approved)
      PROVE  ProjectRequest(c)
  BY <1>2, ProjectJob DEF mdApprove
<1>3. ASSUME NEW status, NEW pm, updateProject(c, e, status, pm)
      PROVE  ProjectRequest(c)
  BY <1>3, ProjectJob DEF updateProject
<1>4. ASSUME NEW pm, reassignProject(c, e, pm)
      PROVE  ProjectRequest(c)
  BY <1>4, ProjectJob DEF reassignProject
<1>5. ASSUME deleteProject(c, e) PROVE ProjectRequest(c)
  BY <1>5, ProjectJob DEF deleteProject
<1>6. ASSUME NEW u, NEW number, NEW withLines \in BOOLEAN,
             createUnit(c, e, u, number, withLines) \/ updateUnit(c, e, u, number, withLines)
      PROVE  ProjectRequest(c)
  <2> DEFINE s == (IF withLines THEN <<"manual">> ELSE <<>>) \o <<"price", "record">>
  <2>1. Ahead(s) /\ Has(s, "price") /\ Has(s, "record")
    BY PricedAhead
  <2>2. \/ AskProject(c, Job2("createUnit", u, [number |-> number, pub |-> project.pub /\ isApproved], s))
        \/ AskProject(c, Job2("editUnit", u, [number |-> number], s))
    BY <1>6 DEF createUnit, updateUnit
  <2> HIDE DEF s
  <2> QED
    BY <2>1, <2>2, ProjectJob
<1>7. ASSUME NEW us, bulkCreateUnits(c, e, us) PROVE ProjectRequest(c)
  BY <1>7, RecordAhead, ProjectJob DEF bulkCreateUnits
<1>8. ASSUME NEW u, NEW status, changeStatus(c, e, u, status) PROVE ProjectRequest(c)
  BY <1>8, ProjectJob DEF changeStatus
<1>9. ASSUME NEW u, NEW reason, overrideUnitPrice(c, e, u, reason) PROVE ProjectRequest(c)
  <2>1. AskProject(c, Job2("override", u, Nothing, <<"price", "record">>))
    BY <1>9 DEF overrideUnitPrice
  <2> QED
    BY <2>1, PriceThenRecord, ProjectJob
<1>10. ASSUME NEW u, deleteUnit(c, e, u) PROVE ProjectRequest(c)
  BY <1>10, RecordAhead, ProjectJob DEF deleteUnit
<1>11. ASSUME NEW reason, createRule(c, e, reason) \/ updateRule(c, e, reason) \/ deleteRule(c, e, reason)
       PROVE  ProjectRequest(c)
  BY <1>11, RecordAhead, ProjectJob DEF createRule, updateRule, deleteRule, ChangeRule
<1>12. ASSUME NEW us, setProjectAmenity(c, e, us) PROVE ProjectRequest(c)
  <2>1. Asks(c, Idle)
    BY <1>12 DEF setProjectAmenity, Asks, Serve, Kept
  <2> QED
    BY <1>12, <2>1 DEF ProjectRequest, setProjectAmenity, NoticesMatchUpdates
<1>13. ASSUME applyRecalculateProject(c, e) PROVE ProjectRequest(c)
  BY <1>13, ProjectJob DEF applyRecalculateProject
<1>14. ASSUME NEW n, postUpdate(c, e, n) \/ removeUpdate(c, e, n) PROVE ProjectRequest(c)
  <2>1. Asks(c, Idle)
    BY <1>14 DEF postUpdate, removeUpdate, Asks, Serve, Kept
  <2>2. NoticesMatchUpdates => NoticesMatchUpdates'
    BY <1>14 DEF postUpdate, removeUpdate, NoticesMatchUpdates
  <2> QED
    BY <1>14, <2>1, <2>2 DEF ProjectRequest, postUpdate, removeUpdate
<1> QED
  BY <1>1, <1>2, <1>3, <1>4, <1>5, <1>6, <1>7, <1>8, <1>9, <1>10, <1>11, <1>12, <1>13, <1>14
     DEF ProjectRequests, removeProjectAmenity


\* Everything a handler of the project still writes.
LEMMA ProjectCommit ==
  ASSUME part # "LISTINGS", Shaped, NEW c \in Calls, ProjectCommits(c)
  PROVE  Running(c) /\ Step(c)
<1>1. Running(c)
  <2>1. call[c].op \in ProjectOps \cup {"record"}
    BY DEF ProjectCommits, recordChanges, review, mdApproveTx, updateProjectTx, deleteProjectTx,
           createUnitRow, bulkCreateUnitsTx, editUnitRow, changeStatusTx, overrideUnitPriceRow,
           recalculateEach, deleteUnitRow, ruleRow, ProjectOps
  <2> QED
    BY <2>1 DEF ProjectOps, Running, Idle
<1>2. CASE recordChanges(c)
  BY <1>1, <1>2 DEF Step
<1>3. CASE review(c) \/ mdApproveTx(c) \/ updateProjectTx(c) \/ deleteProjectTx(c) \/ changeStatusTx(c)
  <2>1. Writes(c)
    BY <1>3 DEF Writes, Kept, Changes, review, mdApproveTx, updateProjectTx, deleteProjectTx, changeStatusTx
  <2> QED
    BY <1>1, <2>1 DEF Step
<1>4. CASE createUnitRow(c) \/ editUnitRow(c) \/ overrideUnitPriceRow(c)
  <2>1. Reprices(c)
    BY <1>4 DEF Reprices, Edits, createUnitRow, editUnitRow, overrideUnitPriceRow
  <2> QED
    BY <1>1, <2>1 DEF Step
<1>5. CASE bulkCreateUnitsTx(c)
  <2>1. call[c].op = "bulk"
    BY <1>5 DEF bulkCreateUnitsTx
  <2>2. \/ Owed(c) /\ Done(c)
        \/ Finish(c) /\ UNCHANGED unrecorded
    BY <1>5 DEF bulkCreateUnitsTx
  <2>3. \E made : /\ edited' = [i \in PricedItems |-> IF i \in made THEN edited[i] + 1 ELSE edited[i]]
                  /\ priced' = [i \in PricedItems |-> IF i \in made THEN edited[i] + 1 ELSE priced[i]]
                  /\ UNCHANGED <<manual, lines>>
    BY <1>5 DEF bulkCreateUnitsTx
  <2>4. Alters(c)
    BY <2>1, <2>2, <2>3 DEF Alters, Changes, Edits
  <2> QED
    BY <1>1, <2>4 DEF Step
<1>6. CASE deleteUnitRow(c) \/ ruleRow(c)
  <2>1. Alters(c)
    BY <1>6 DEF Alters, Changes, Edits, deleteUnitRow, ruleRow
  <2> QED
    BY <1>1, <2>1 DEF Step
<1>7. CASE recalculateEach(c)
  <2>1. Kept /\ call[c].op = "each"
    BY <1>7 DEF recalculateEach, Kept, projects
  <2>2. CASE call[c].set.us = {}
    <3>1. Writes(c)
      BY <1>7, <2>1, <2>2 DEF Writes, Changes, recalculateEach
    <3> QED
      BY <1>1, <3>1 DEF Step
  <2>3. CASE call[c].set.us # {}
    <3>1. PICK u : Continue(c, [call[c] EXCEPT !.op = "price", !.on = u, !.set.us = @ \ {u},
                                               !.then = <<"each">>])
      BY <1>7, <2>3 DEF recalculateEach
    <3> DEFINE j == [call[c] EXCEPT !.op = "price", !.on = u, !.set.us = @ \ {u}, !.then = <<"each">>]
    <3>2. /\ DOMAIN j = DOMAIN call[c] /\ j.op = "price" /\ j.then = <<"each">> /\ Formed(call[c])
          /\ j.approved = call[c].approved
      BY <1>1 DEF Shaped, Formed, Fields
    <3>3. Continue(c, j)
      BY <3>1
    <3> HIDE DEF j
    <3>4. Ahead(<<"each">>)
      BY OneAhead DEF Later
    <3>5. Formed(j)
      BY <3>2, <3>4 DEF Formed, Fields, Last, Edits, Changes
    <3>6. Turns(c, j)
      BY <2>1, <3>2, <3>3, <3>5 DEF Turns
    <3> QED
      BY <1>1, <3>6 DEF Step
  <2> QED
    BY <2>2, <2>3
<1> QED
  BY <1>2, <1>3, <1>4, <1>5, <1>6, <1>7 DEF ProjectCommits

-----------------------------------------------------------------------------
\* What a handler of the files has just read, with the cover.
FileRead(j) ==
    /\ j.op \in {"plan", "deletePlan", "pin", "unpin", "media", "deleteMedia"}
    /\ j.was = cover
    /\ j.op = "pin" => j.on \in Plans /\ j.set.us \subseteq Units
    /\ j.op = "media" => \E kind \in MediaKinds : \E type \in storeMediaFile(kind) :
                            j.set = [kind |-> kind, type |-> type]

FileRequest(c) ==
    /\ \E j : /\ Asks(c, j)
              /\ j # Idle => FileRead(j) /\ UNCHANGED cover
    /\ cover' \in {cover, Elsewhere, Nobody}
    /\ UNCHANGED <<project, unit, notices, posted, plan, pins, media>>

LEMMA FileAsk ==
  ASSUME NEW c \in Idling, NEW op \in {"plan", "deletePlan", "pin", "unpin", "media", "deleteMedia"},
         NEW on, NEW set, AskFiles(c, op, on, set),
         op = "pin" => on \in Plans /\ set.us \subseteq Units,
         op = "media" => \E kind \in MediaKinds : \E type \in storeMediaFile(kind) :
                            set = [kind |-> kind, type |-> type]
  PROVE  FileRequest(c)
<1> DEFINE j == Job2(op, on, set, <<>>)
           k == [j EXCEPT !.was = cover]
<1>1. Formed(j) /\ j.op = op /\ j.on = on /\ j.set = set /\ j.then = <<>>
  BY NoneAhead, Job2Formed DEF Edits, Changes
<1>2. AskProject(c, k) /\ UNCHANGED files
  BY DEF AskFiles
<1> HIDE DEF j
<1>3. Formed(k) /\ k # Idle /\ k.op = op /\ k.on = on /\ k.set = set /\ k.was = cover
      /\ k.then = <<>>
  BY <1>1, WasRead
<1> HIDE DEF k
<1>4. FileRead(k)
  BY <1>3 DEF FileRead
<1>5. Asks(c, k) /\ UNCHANGED <<project, unit, notices, posted, plan, pins, media, cover>>
  BY <1>2, <1>3, NoneAhead DEF Asks, Starts, AskProject, Kept, projects, files
<1> QED
  BY <1>4, <1>5 DEF FileRequest

LEMMA FileServed ==
  ASSUME NEW c \in Idling, Serve(c), Same, cover' \in {cover, Elsewhere, Nobody},
         UNCHANGED <<plan, pins, media>>
  PROVE  FileRequest(c)
<1>1. Asks(c, Idle) /\ UNCHANGED <<project, unit, notices, posted>>
  BY DEF Asks, Serve, Kept, Same, projects
<1> QED
  BY <1>1 DEF FileRequest

LEMMA FileHandlers ==
  ASSUME NEW c \in Idling, NEW e, FileRequests(c, e)
  PROVE  FileRequest(c)
<1>1. ASSUME NEW i \in Plans, uploadLayoutImage(c, e, i) \/ deleteLayoutImage(c, e, i)
      PROVE  FileRequest(c)
  BY <1>1, FileAsk DEF uploadLayoutImage, deleteLayoutImage
<1>2. ASSUME NEW i \in Plans, NEW us \in SUBSET Units, upsertLayoutRegions(c, e, i, us)
      PROVE  FileRequest(c)
  BY <1>2, FileAsk DEF upsertLayoutRegions
<1>3. ASSUME NEW i \in Plans, NEW u \in Units, deleteLayoutRegion(c, e, i, u)
      PROVE  FileRequest(c)
  BY <1>3, FileAsk DEF deleteLayoutRegion
<1>4. ASSUME NEW m \in Media, NEW kind \in MediaKinds, NEW type, uploadMedia(c, e, m, kind, type)
      PROVE  FileRequest(c)
  BY <1>4, FileAsk DEF uploadMedia
<1>5. ASSUME NEW m \in Media, deleteMedia(c, e, m)
      PROVE  FileRequest(c)
  BY <1>5, FileAsk DEF deleteMedia
<1>6. ASSUME NEW to, editCover(c, e, to)
      PROVE  FileRequest(c)
  BY <1>6, FileServed DEF editCover
<1>7. ASSUME NEW d, uploadDocument(c, e, d) \/ deleteDocument(c, e, d)
      PROVE  FileRequest(c)
  BY <1>7, FileServed DEF uploadDocument, deleteDocument
<1> QED
  BY <1>1, <1>2, <1>3, <1>4, <1>5, <1>6, <1>7 DEF FileRequests


\* A handler of the files goes on with a second step, or is done with its one.
LEMMA FileCommit ==
  ASSUME part = "FILES", Shaped, NEW c \in Calls, FileCommits(c)
  PROVE  /\ Running(c) /\ Step(c) /\ UNCHANGED <<projects, prices>>
         /\ \/ Done(c)
            \/ /\ call[c].op = "plan" /\ UNCHANGED files
               /\ Continue(c, [call[c] EXCEPT !.op = "planRow",
                                              !.set = [first |-> \A i \in Plans : ~There(i)]])
            \/ call[c].op = "media" /\ call[c].set.kind = "COVER"
               /\ Continue(c, [call[c] EXCEPT !.op = "cover"])
            \/ call[c].op = "deleteMedia" /\ call[c].was = call[c].on
               /\ Continue(c, [call[c] EXCEPT !.op = "uncover"])
<1>1. call[c].op \in {"plan", "planRow", "deletePlan", "pin", "unpin", "media", "cover", "deleteMedia", "uncover"}
  BY DEF FileCommits, countPlans, planRow, deletePlanRow, upsertRegionsTx, deleteRegionRow, mediaRow,
         coverRow, deleteMediaRow, uncover
<1>2. Running(c) /\ Formed(call[c])
  BY <1>1 DEF Running, Idle, Shaped
<1>3. UNCHANGED <<projects, prices>> /\ Kept
  <2>1. Same
    BY DEF FileCommits, countPlans, planRow, deletePlanRow, upsertRegionsTx, deleteRegionRow, mediaRow,
           coverRow, deleteMediaRow, uncover
  <2> QED
    BY <2>1 DEF Same, Kept, projects
<1>4. CASE Done(c)
  <2>1. Writes(c)
    BY <1>1, <1>3, <1>4 DEF Writes, Changes
  <2> QED
    BY <1>2, <1>3, <1>4, <2>1 DEF Step
<1>5. ASSUME NEW j, DOMAIN j = DOMAIN call[c], j.op \in {"planRow", "cover", "uncover"},
             j.on = call[c].on, j.then = call[c].then, j.approved = call[c].approved, call[c].op \in {"plan", "media", "deleteMedia"}, Continue(c, j)
      PROVE  Step(c)
  <2>1. Formed(j)
    BY <1>2, <1>5 DEF Formed, Fields, Last, Edits, Changes
  <2>2. Turns(c, j)
    BY <1>3, <1>5, <2>1 DEF Turns
  <2> QED
    BY <1>2, <2>2 DEF Step
<1>6. CASE countPlans(c)
  <2> DEFINE j == [call[c] EXCEPT !.op = "planRow", !.set = [first |-> \A i \in Plans : ~There(i)]]
  <2>1. call[c].op = "plan" /\ UNCHANGED files /\ Continue(c, j)
    BY <1>6 DEF countPlans
  <2>2. DOMAIN j = DOMAIN call[c] /\ j.op = "planRow" /\ j.on = call[c].on
        /\ j.then = call[c].then /\ j.approved = call[c].approved
    BY <1>2 DEF Formed, Fields
  <2>3. Step(c)
    <3> HIDE DEF j
    <3> QED
      BY <1>5, <2>1, <2>2
  <2> QED
    BY <1>2, <1>3, <2>1, <2>3
<1>7. CASE mediaRow(c) /\ call[c].set.kind = "COVER"
  <2> DEFINE j == [call[c] EXCEPT !.op = "cover"]
  <2>1. call[c].op = "media" /\ Continue(c, j)
    BY <1>7 DEF mediaRow
  <2>2. DOMAIN j = DOMAIN call[c] /\ j.op = "cover" /\ j.on = call[c].on
        /\ j.then = call[c].then /\ j.approved = call[c].approved
    BY <1>2 DEF Formed, Fields
  <2>3. Step(c)
    <3> HIDE DEF j
    <3> QED
      BY <1>5, <2>1, <2>2
  <2> QED
    BY <1>2, <1>3, <1>7, <2>1, <2>3
<1>8. CASE deleteMediaRow(c) /\ call[c].was = call[c].on
  <2> DEFINE j == [call[c] EXCEPT !.op = "uncover"]
  <2>1. call[c].op = "deleteMedia" /\ Continue(c, j)
    BY <1>8 DEF deleteMediaRow
  <2>2. DOMAIN j = DOMAIN call[c] /\ j.op = "uncover" /\ j.on = call[c].on
        /\ j.then = call[c].then /\ j.approved = call[c].approved
    BY <1>2 DEF Formed, Fields
  <2>3. Step(c)
    <3> HIDE DEF j
    <3> QED
      BY <1>5, <2>1, <2>2
  <2> QED
    BY <1>2, <1>3, <1>8, <2>1, <2>3
<1>9. CASE (mediaRow(c) /\ call[c].set.kind # "COVER") \/ (deleteMediaRow(c) /\ call[c].was # call[c].on)
  BY <1>4, <1>9 DEF mediaRow, deleteMediaRow
<1>10. CASE planRow(c) \/ deletePlanRow(c) \/ upsertRegionsTx(c) \/ deleteRegionRow(c) \/ coverRow(c) \/ uncover(c)
  <2>1. Done(c)
    BY <1>10 DEF planRow, deletePlanRow, upsertRegionsTx, deleteRegionRow, coverRow, uncover
  <2> QED
    BY <1>4, <2>1
<1> QED
  BY <1>6, <1>7, <1>8, <1>9, <1>10 DEF FileCommits

\* The steps of a behaviour about the project ...
LEMMA ProjectSteps ==
  ASSUME part = "PROJECT", Shaped, [Next]_vars
  PROVE  /\ UNCHANGED <<listings, files, part>>
         /\ \/ \E c \in Calls : Step(c) /\ ProjectRequest(c)
            \/ \E c \in Calls : Step(c) /\ ProjectCommits(c)
            \/ \E c \in Calls : Step(c) /\ UNCHANGED projects /\ (PricingStep(c) \/ Abandon(c))
            \/ UNCHANGED <<running, prices, projects>>
            \/ \E u \in Units : ProjectsAround(u)
<1>1. CASE ProjectsNext
  <2>1. UNCHANGED <<listings, files, part>>
    BY <1>1 DEF ProjectsNext
  <2>2. CASE \E c \in Idling, e \in ProjectStaff : ProjectRequests(c, e)
    <3>1. PICK c \in Idling, e \in ProjectStaff : ProjectRequests(c, e)
      BY <2>2
    <3>2. ProjectRequest(c)
      BY <3>1, ProjectHandlers
    <3>3. Step(c) /\ c \in Calls
      BY <3>2 DEF ProjectRequest, Step, Idling
    <3> QED
      BY <2>1, <3>2, <3>3
  <2>3. CASE \E c \in Calls : ProjectCommits(c)
    BY <2>1, <2>3, ProjectCommit
  <2>4. CASE \E u \in Units : ProjectsAround(u)
    BY <2>1, <2>4
  <2> QED
    BY <1>1, <2>2, <2>3, <2>4 DEF ProjectsNext
<1>2. CASE Repricing
  <2>1. UNCHANGED <<listings, projects, files, part, unrecorded>>
    BY <1>2 DEF Repricing, projects
  <2>2. PICK c \in Calls : PricingStep(c) \/ (Abandon(c) /\ UNCHANGED prices)
    BY <1>2 DEF Repricing
  <2>3. Running(c)
    BY <2>2 DEF PricingStep, recalculate, persistComputation, replaceManualLines, Abandon,
                Running, Idle
  <2>4. Step(c)
    BY <2>1, <2>2, <2>3 DEF Step, Kept
  <2> QED
    BY <2>1, <2>2, <2>4
<1>3. CASE UNCHANGED vars
  BY <1>3 DEF vars, projects, files, listings, prices, running
<1> QED
  BY <1>1, <1>2, <1>3 DEF Next, ListingsNext, FilesNext

\* ... and about its files.
LEMMA FileSteps ==
  ASSUME part = "FILES", Shaped, [Next]_vars
  PROVE  /\ UNCHANGED <<listings, part>>
         /\ \/ \E c \in Calls : Step(c) /\ FileRequest(c)
            \/ \E c \in Calls : Step(c) /\ ProjectRequest(c) /\ UNCHANGED files
            \/ \E c \in Calls : Step(c) /\ FileCommits(c)
            \/ \E c \in Calls : Step(c) /\ unitLeavesPlans(c)
            \/ \E c \in Calls : Step(c) /\ recordChanges(c) /\ UNCHANGED files
            \/ \E c \in Calls : Step(c) /\ UNCHANGED <<projects, files>> /\ (PricingStep(c) \/ Abandon(c))
            \/ UNCHANGED <<running, prices, projects, files>>
<1>1. CASE FilesNext
  <2>1. UNCHANGED <<listings, part>>
    BY <1>1 DEF FilesNext
  <2>2. ASSUME NEW c \in Idling, NEW e, FileRequests(c, e)
        PROVE  c \in Calls /\ Step(c) /\ FileRequest(c)
    <3>1. FileRequest(c)
      BY <2>2, FileHandlers
    <3> QED
      BY <3>1 DEF FileRequest, Step, Idling
  <2>3. ASSUME NEW c \in Idling, NEW e, NEW u \in Units, deleteUnit(c, e, u)
        PROVE  c \in Calls /\ Step(c) /\ ProjectRequest(c)
    <3>1. ProjectRequest(c)
      BY <2>3, ProjectHandlers DEF ProjectRequests
    <3> QED
      BY <3>1 DEF ProjectRequest, Step, Idling
  <2>4. ASSUME NEW c \in Calls, FileCommits(c)
        PROVE  Step(c)
    BY <2>4, FileCommit
  <2>5. ASSUME NEW c \in Calls, unitLeavesPlans(c)
        PROVE  Step(c)
    BY <2>5, ProjectCommit DEF ProjectCommits, unitLeavesPlans
  <2>6. ASSUME NEW c \in Calls, recordChanges(c)
        PROVE  Step(c)
    BY <2>6, ProjectCommit DEF ProjectCommits
  <2> QED
    BY <1>1, <2>1, <2>2, <2>3, <2>4, <2>5, <2>6 DEF FilesNext
<1>2. CASE Repricing
  <2>1. UNCHANGED <<listings, projects, files, part, unrecorded>>
    BY <1>2 DEF Repricing, projects
  <2>2. PICK c \in Calls : PricingStep(c) \/ (Abandon(c) /\ UNCHANGED prices)
    BY <1>2 DEF Repricing
  <2>3. Running(c)
    BY <2>2 DEF PricingStep, recalculate, persistComputation, replaceManualLines, Abandon,
                Running, Idle
  <2>4. Step(c)
    BY <2>1, <2>2, <2>3 DEF Step, Kept
  <2> QED
    BY <2>1, <2>2, <2>4
<1>3. CASE UNCHANGED vars
  BY <1>3 DEF vars, projects, files, listings, prices, running
<1> QED
  BY <1>1, <1>2, <1>3 DEF Next, ListingsNext, ProjectsNext


LEMMA EveryStep ==
  ASSUME Shaped, PhotoRows, [Next]_vars
  PROVE  /\ UNCHANGED part
         /\ (\E c \in Calls : Step(c)) \/ UNCHANGED <<running, prices, unrecorded>>
         /\ part = "LISTINGS" => UNCHANGED unrecorded
<1>1. CASE part = "LISTINGS"
  <2>1. UNCHANGED part /\ UNCHANGED unrecorded
    BY <1>1, ListingSteps DEF projects
  <2>2. ASSUME NEW p, ListingsAround(p) PROVE UNCHANGED running /\ UNCHANGED prices
    BY <2>2 DEF ListingsAround, bookingLocks, bookingReleases, routeVisit
  <2> QED
    BY <1>1, <2>1, <2>2, ListingSteps
<1>2. CASE part = "PROJECT"
  <2>1. ASSUME NEW u, ProjectsAround(u) PROVE UNCHANGED running /\ UNCHANGED prices /\ UNCHANGED unrecorded
    BY <2>1 DEF ProjectsAround, bookingReserves, leadWants
  <2>2. UNCHANGED projects => UNCHANGED unrecorded
    BY DEF projects
  <2> QED
    BY <1>2, <2>1, <2>2, ProjectSteps
<1>3. CASE part = "FILES"
  <2>1. UNCHANGED projects => UNCHANGED unrecorded
    BY DEF projects
  <2> QED
    BY <1>3, <2>1, FileSteps
<1> QED
  BY <1>1, <1>2, <1>3 DEF Shaped

-----------------------------------------------------------------------------
(* The handlers stay in shape, with the photos their requests read.         *)

ShapeInv == Shaped /\ PhotosInv

LEMMA ShapeStep ==
  ASSUME ShapeInv, [Next]_vars
  PROVE  ShapeInv'
<1>1. Shaped /\ PhotosInv /\ PhotoRows
  BY DEF ShapeInv, PhotosInv
<1>2. PhotosInv'
  BY <1>1, PhotosStep
<1>3. Shaped'
  <2>1. CASE \E c \in Calls : Step(c)
    BY <1>1, <2>1, EveryStep, StepShapes
  <2>2. CASE UNCHANGED running
    BY <1>1, <2>2, EveryStep, Rests
  <2> QED
    BY <1>1, <2>1, <2>2, EveryStep
<1> QED
  BY <1>2, <1>3 DEF ShapeInv

LEMMA ShapeInit ==
  ASSUME Init
  PROVE  ShapeInv
<1>1. Shaped
  BY DEF Init, HandlersInit, Shaped, Running
<1> QED
  BY <1>1, PhotosInit DEF ShapeInv

-----------------------------------------------------------------------------
(* No stored price is left behind: what is not recomputed yet is the item   *)
(* of the one handler that runs, and it has the recalculation ahead.       *)

Repriced(i) ==
    \E c \in Calls : /\ Running(c) /\ call[c].on = i
                     /\ call[c].op \in {"price", "persist"} \/ Has(call[c].then, "price")

PricesInv ==
    /\ edited = [i \in PricedItems |-> edited[i]] /\ priced = [i \in PricedItems |-> priced[i]]
    /\ manual = [i \in PricedItems |-> manual[i]]
    /\ ~disturbed =>
         /\ lines = manual
         /\ \A i \in PricedItems : priced[i] = edited[i] \/ Repriced(i)
         /\ \A c \in Calls : Running(c) /\ call[c].op = "persist" =>
              call[c].was = <<edited[call[c].on], lines[call[c].on]>>

\* A handler that is done with a step that computes no price has the recalculation still ahead.
LEMMA StillRepriced ==
  ASSUME NEW j, Formed(j), Has(j.then, "price")
  PROVE  LET k == After(j) IN
         /\ k # Idle /\ k.on = j.on /\ (k.op = "price" \/ Has(k.then, "price"))
<1>1. j.then # <<>>
  BY NoneAhead
<1>2. After(j) = [j EXCEPT !.op = Head(j.then), !.then = Tail(j.then)]
  BY <1>1 DEF After
<1>3. After(j) # Idle
  <2>1. DOMAIN After(j) = DOMAIN j
    BY <1>2
  <2> QED
    BY <2>1, FieldsRun DEF Formed, Fields
<1>4. After(j).on = j.on /\ After(j).op = Head(j.then) /\ After(j).then = Tail(j.then)
  BY <1>3, AfterFormed
<1>5. Head(j.then) = "price" \/ Has(Tail(j.then), "price")
  BY <1>1, AheadOf DEF Formed
<1> QED
  BY <1>3, <1>4, <1>5


LEMMA PricesRows ==
  ASSUME PricesInv, NEW c \in Calls, Step(c)
  PROVE  /\ edited' = [i \in PricedItems |-> edited'[i]]
         /\ priced' = [i \in PricedItems |-> priced'[i]]
         /\ manual' = [i \in PricedItems |-> manual'[i]]
<1>1. CASE \E j : Asks(c, j) \/ Enters(c, j)
  BY <1>1 DEF Asks, Enters, Kept, prices, Edit, PricesInv
<1>2. CASE Writes(c) \/ (\E j : Turns(c, j)) \/ recordChanges(c) \/ (Abandon(c) /\ Kept)
  BY <1>2 DEF Writes, Turns, recordChanges, Kept, prices, PricesInv
<1>3. CASE Reprices(c) \/ PricingStep(c)
  BY <1>3 DEF Reprices, PricingStep, recalculate, persistComputation, replaceManualLines, Edit, prices, PricesInv
<1>4. CASE Alters(c)
  BY <1>4 DEF Alters, prices, PricesInv
<1> QED
  BY <1>1, <1>2, <1>3, <1>4 DEF Step

LEMMA PricesAsked ==
  ASSUME ShapeInv, PricesInv, UNCHANGED part, NEW c \in Calls, NEW j, Asks(c, j) \/ Enters(c, j), ~disturbed'
  PROVE  /\ lines' = manual'
         /\ \A i \in PricedItems : priced'[i] = edited'[i] \/ Repriced(i)'
         /\ \A d \in Calls : Running(d)' /\ call'[d].op = "persist" =>
              call'[d].was = <<edited'[call'[d].on], lines'[call'[d].on]>>
<1>1. /\ call'[c] = j /\ \A d \in Calls \ {c} : call'[d] = call[d]
      /\ ~disturbed /\ \A d \in Calls : ~Running(d)
  <2>1. c \in Idling /\ Begin(c, j) /\ (j # Idle => Formed(j)) /\ Shaped
    BY DEF Asks, Enters, ShapeInv
  <2> QED
    BY <2>1, Opens
<1>2. lines = manual /\ \A i \in PricedItems : priced[i] = edited[i]
  BY <1>1 DEF PricesInv, Repriced
<1>3. \A d \in Calls : ~(Running(d)' /\ call'[d].op = "persist")
  BY <1>1 DEF Running, Asks, Enters, Starts
<1>4. CASE Asks(c, j)
  BY <1>2, <1>3, <1>4 DEF Asks, Kept, prices
<1>5. CASE Enters(c, j)
  <2>1. \A i \in PricedItems : i # j.on => edited'[i] = edited[i]
    BY <1>5 DEF Enters, Edit, PricesInv
  <2>2. j # Idle /\ (j.op = "price" \/ Has(j.then, "price"))
    BY <1>5, FieldsRun DEF Enters, Formed
  <2>3. Repriced(j.on)'
    BY <1>1, <2>2 DEF Repriced, Running
  <2> QED
    BY <1>2, <1>3, <1>5, <2>1, <2>3 DEF Enters
<1> QED
  BY <1>4, <1>5

LEMMA PricesDone ==
  ASSUME ShapeInv, PricesInv, UNCHANGED part, NEW c \in Calls, Running(c), Done(c), ~disturbed',
         lines' = manual',
         \A i \in PricedItems :
             priced'[i] = edited'[i] \/ (call[c].on = i /\ Has(call[c].then, "price"))
  PROVE  /\ \A i \in PricedItems : priced'[i] = edited'[i] \/ Repriced(i)'
         /\ \A d \in Calls : Running(d)' /\ call'[d].op = "persist" =>
              call'[d].was = <<edited'[call'[d].on], lines'[call'[d].on]>>
<1>1. /\ call'[c] = After(call[c]) /\ Formed(call[c]) /\ ~disturbed
      /\ \A d \in Calls \ {c} : call'[d] = call[d] /\ ~Running(d)
  BY IsDone DEF ShapeInv, Shaped
<1>2. \A d \in Calls : ~(Running(d)' /\ call'[d].op = "persist")
  BY <1>1, AfterFormed DEF Running, Later
<1>3. ASSUME NEW i \in PricedItems, call[c].on = i, Has(call[c].then, "price")
      PROVE  Repriced(i)'
  BY <1>1, <1>3, StillRepriced DEF Repriced, Running
<1> QED
  BY <1>2, <1>3

\* Before a step of the only handler: what is not recomputed is its item.
LEMMA PricesBefore ==
  ASSUME ShapeInv, PricesInv, ~disturbed, NEW c \in Calls, Running(c)
  PROVE  /\ lines = manual
         /\ \A i \in PricedItems :
              \/ priced[i] = edited[i]
              \/ call[c].on = i /\ (call[c].op \in {"price", "persist"} \/ Has(call[c].then, "price"))
         /\ call[c].op = "persist" => call[c].was = <<edited[call[c].on], lines[call[c].on]>>
<1>1. \A d \in Calls : Running(d) => d = c
  BY DEF ShapeInv, Shaped
<1> QED
  BY <1>1 DEF PricesInv, Repriced

LEMMA PricesStep ==
  ASSUME ShapeInv, PricesInv, [Next]_vars
  PROVE  PricesInv'
<1>1. Shaped /\ PhotoRows
  BY DEF ShapeInv, PhotosInv
<1>2. UNCHANGED part
  BY <1>1, EveryStep
<1> DEFINE Fresh == /\ lines' = manual'
                    /\ \A i \in PricedItems : priced'[i] = edited'[i] \/ Repriced(i)'
                    /\ \A d \in Calls : Running(d)' /\ call'[d].op = "persist" =>
                         call'[d].was = <<edited'[call'[d].on], lines'[call'[d].on]>>
<1>3. ASSUME NEW c \in Calls, Step(c), ~disturbed'
      PROVE  Fresh
  <2>1. CASE \E j : Asks(c, j) \/ Enters(c, j)
    BY <1>2, <1>3, <2>1, PricesAsked
  <2>2. ASSUME Running(c), Writes(c) \/ recordChanges(c)
        PROVE  Fresh
    <3>1. ~disturbed /\ Done(c) /\ UNCHANGED prices /\ call[c].op \notin {"price", "persist"}
      BY <1>3, <2>2 DEF Writes, Kept, recordChanges, Done, Continue
    <3> QED
      BY <1>2, <1>3, <2>2, <3>1, PricesBefore, PricesDone DEF prices
  <2>3. ASSUME Running(c), NEW j, Turns(c, j)
        PROVE  Fresh
    <3>1. /\ call'[c] = j /\ Formed(call[c]) /\ Formed(j) /\ ~disturbed /\ UNCHANGED prices
          /\ \A d \in Calls \ {c} : call'[d] = call[d] /\ ~Running(d)
      BY <1>1, <1>2, <1>3, <2>3, GoesOn DEF Turns, Shaped, Kept
    <3>2. call[c].op \notin {"price", "persist"} /\ j.op # "persist" /\ j # Idle
      BY <2>3, <3>1, FieldsRun DEF Turns, Formed
    <3>3. CASE call[c].op = "each"
      <4>1. ~Has(call[c].then, "price")
        BY <3>1, <3>3, NoneAhead DEF Formed, Last
      <4>2. lines = manual /\ \A i \in PricedItems : priced[i] = edited[i]
        BY <1>3, <2>3, <3>1, <3>2, <4>1, PricesBefore
      <4> QED
        BY <3>1, <3>2, <4>2 DEF prices, Running
    <3>4. CASE call[c].op # "each"
      <4>1. j.then = call[c].then
        BY <2>3, <3>4 DEF Turns
      <4>2. /\ lines = manual
            /\ \A i \in PricedItems : priced[i] = edited[i] \/ (call[c].on = i /\ Has(call[c].then, "price"))
        BY <1>3, <2>3, <3>1, <3>2, PricesBefore
      <4>3. j.on = call[c].on
        BY <2>3, <3>4 DEF Turns
      <4>4. \A i : call[c].on = i /\ Has(call[c].then, "price") => Repriced(i)'
        BY <3>1, <3>2, <4>1, <4>3 DEF Repriced, Running
      <4>5. \A d \in Calls : ~(Running(d)' /\ call'[d].op = "persist")
        BY <3>1, <3>2 DEF Running
      <4> QED
        BY <3>1, <4>2, <4>4, <4>5 DEF prices
    <3> QED
      BY <3>3, <3>4
  <2>4. ASSUME Running(c), Reprices(c)
        PROVE  Fresh
    <3>1. ~disturbed /\ Done(c) /\ Formed(call[c]) /\ call[c].op \in Edits
      BY <1>1, <1>3, <2>4 DEF Reprices, Done, Continue, Shaped
    <3>2. Has(call[c].then, "price")
      BY <3>1 DEF Formed
    <3>3. \A i \in PricedItems : i # call[c].on => edited'[i] = edited[i]
      BY <2>4 DEF Reprices, Edit, PricesInv
    <3>4. UNCHANGED <<priced, manual, lines>>
      BY <2>4 DEF Reprices
    <3>5. \A i \in PricedItems : priced'[i] = edited'[i] \/ (call[c].on = i /\ Has(call[c].then, "price"))
      BY <1>3, <2>4, <3>1, <3>2, <3>3, <3>4, PricesBefore
    <3>6. lines' = manual'
      BY <1>3, <2>4, <3>1, <3>4, PricesBefore
    <3> QED
      BY <1>2, <1>3, <2>4, <3>1, <3>5, <3>6, PricesDone
  <2>5. ASSUME Running(c), Alters(c)
        PROVE  Fresh
    <3>1. ~disturbed /\ Formed(call[c]) /\ call[c].op \notin {"price", "persist"}
      BY <1>1, <1>3, <2>5 DEF Alters, Done, Finish, Continue, Shaped, Changes
    <3>2. /\ lines = manual
          /\ \A i \in PricedItems : priced[i] = edited[i] \/ (call[c].on = i /\ Has(call[c].then, "price"))
      BY <1>3, <2>5, <3>1, PricesBefore
    <3>3. /\ lines' = manual'
          /\ \A i \in PricedItems : priced'[i] = edited'[i] \/ (call[c].on = i /\ Has(call[c].then, "price"))
      <4>1. CASE UNCHANGED prices
        BY <3>2, <4>1 DEF prices
      <4>2. CASE /\ priced' = [priced EXCEPT ![call[c].on] = edited[call[c].on]]
                 /\ lines' = [lines EXCEPT ![call[c].on] = manual[call[c].on]]
                 /\ UNCHANGED <<edited, manual>>
        <5>1. lines' = lines
          BY <3>2, <4>2 DEF PricesInv
        <5>2. \A i \in PricedItems : priced'[i] = IF i = call[c].on THEN edited[i] ELSE priced[i]
          BY <4>2 DEF PricesInv
        <5> QED
          BY <3>2, <4>2, <5>1, <5>2
      <4>3. CASE \E made : /\ edited' = [i \in PricedItems |-> IF i \in made THEN edited[i] + 1 ELSE edited[i]]
                           /\ priced' = [i \in PricedItems |-> IF i \in made THEN edited[i] + 1 ELSE priced[i]]
                           /\ UNCHANGED <<manual, lines>>
        <5>1. PICK made : /\ edited' = [i \in PricedItems |-> IF i \in made THEN edited[i] + 1 ELSE edited[i]]
                          /\ priced' = [i \in PricedItems |-> IF i \in made THEN edited[i] + 1 ELSE priced[i]]
                          /\ UNCHANGED <<manual, lines>>
          BY <4>3
        <5>2. \A i \in PricedItems : priced[i] = edited[i] => priced'[i] = edited'[i]
          BY <5>1
        <5> QED
          BY <3>2, <5>1, <5>2
      <4> QED
        BY <2>5, <4>1, <4>2, <4>3 DEF Alters
    <3>4. CASE Done(c)
      BY <1>2, <1>3, <2>5, <3>3, <3>4, PricesDone
    <3>5. CASE call[c].op = "bulk" /\ Finish(c)
      <4>1. ~Has(call[c].then, "price")
        BY <3>1, <3>5, RecordAhead DEF Formed
      <4>2. \A i \in PricedItems : priced'[i] = edited'[i]
        BY <3>3, <4>1
      <4>3. \A d \in Calls : ~Running(d)'
        BY <1>1, <1>2, <2>5, <3>1, <3>5, GoesOn DEF Finish, Running
      <4> QED
        BY <3>3, <4>2, <4>3
    <3> QED
      BY <2>5, <3>4, <3>5 DEF Alters
  <2>6. CASE Running(c) /\ recalculate(c)
    <3>0. PICK w : w = <<edited[call[c].on], lines[call[c].on]>>
      OBVIOUS
    <3> DEFINE k == [call[c] EXCEPT !.op = "persist", !.was = w]
    <3>1. Continue(c, k) /\ UNCHANGED prices /\ ~disturbed /\ Formed(call[c]) /\ call[c].op = "price"
      BY <1>1, <1>3, <2>6, <3>0 DEF recalculate, Continue, Shaped
    <3>2. Formed(k) /\ k # Idle /\ k.op = "persist" /\ k.on = call[c].on /\ k.then = call[c].then
          /\ k.was = w
      <4>1. Formed(k)
        BY <3>1, PersistFormed
      <4>2. k.op = "persist" /\ k.on = call[c].on /\ k.then = call[c].then /\ k.was = w
        BY <3>1 DEF Formed, Fields
      <4> HIDE DEF k
      <4> QED
        BY <4>1, <4>2, FieldsRun DEF Formed
    <3> HIDE DEF k
    <3>3. call'[c] = k /\ \A d \in Calls \ {c} : call'[d] = call[d] /\ ~Running(d)
      BY <1>1, <1>2, <2>6, <3>1, <3>2, GoesOn
    <3>4. \A i \in PricedItems : call[c].on = i => Repriced(i)'
      BY <3>2, <3>3 DEF Repriced, Running
    <3>5. lines = manual /\ \A i \in PricedItems : priced[i] = edited[i] \/ call[c].on = i
      BY <2>6, <3>1, PricesBefore
    <3>6. \A d \in Calls : Running(d)' => d = c
      BY <3>3 DEF Running
    <3> QED
      BY <3>1, <3>2, <3>3, <3>0, <3>4, <3>5, <3>6 DEF prices
  <2>7. CASE Running(c) /\ persistComputation(c)
    <3>1. Done(c) /\ ~disturbed /\ call[c].op = "persist"
      BY <1>3, <2>7 DEF persistComputation, Done, Continue
    <3>2. /\ lines = manual /\ call[c].was = <<edited[call[c].on], lines[call[c].on]>>
          /\ \A i \in PricedItems : priced[i] = edited[i] \/ call[c].on = i
      BY <2>7, <3>1, PricesBefore
    <3>3. /\ priced' = [priced EXCEPT ![call[c].on] = edited[call[c].on]]
          /\ lines' = [lines EXCEPT ![call[c].on] = lines[call[c].on]]
          /\ UNCHANGED <<edited, manual>>
      BY <2>7, <3>2 DEF persistComputation
    <3>4. lines' = manual'
      BY <3>2, <3>3 DEF PricesInv
    <3>5. \A i \in PricedItems : priced'[i] = edited'[i]
      BY <3>2, <3>3 DEF PricesInv
    <3> QED
      BY <1>2, <1>3, <2>7, <3>1, <3>4, <3>5, PricesDone
  <2>8. CASE Running(c) /\ replaceManualLines(c)
    <3>1. Done(c) /\ ~disturbed /\ call[c].op = "manual" /\ UNCHANGED <<edited, priced>>
      BY <1>3, <2>8 DEF replaceManualLines, Done, Continue
    <3>2. /\ lines = manual
          /\ \A i \in PricedItems : priced[i] = edited[i] \/ (call[c].on = i /\ Has(call[c].then, "price"))
      BY <2>8, <3>1, PricesBefore
    <3>3. lines' = manual'
      BY <2>8, <3>2 DEF replaceManualLines
    <3> QED
      BY <1>2, <1>3, <2>8, <3>1, <3>2, <3>3, PricesDone
  <2>9. CASE Abandon(c)
    BY <1>3, <2>9 DEF Abandon
  <2> HIDE DEF Fresh
  <2> QED
    BY <1>3, <2>1, <2>2, <2>3, <2>4, <2>5, <2>6, <2>7, <2>8, <2>9 DEF Step, PricingStep
<1>4. CASE \E c \in Calls : Step(c)
  BY <1>3, <1>4, PricesRows DEF PricesInv
<1>5. CASE UNCHANGED <<running, prices>>
  BY <1>5 DEF PricesInv, Repriced, Running, running, prices
<1> QED
  BY <1>1, <1>4, <1>5, EveryStep

LEMMA PricesBegin ==
  ASSUME Init
  PROVE  PricesInv
  BY DEF Init, PricingInit, HandlersInit, PricesInv, Running


-----------------------------------------------------------------------------
(* The history of an approved project misses at most the change of the one  *)
(* handler that runs, which has its row ahead.                             *)

OwedBy(j) == j.approved /\ (j.op = "record" \/ (j.op \notin Changes /\ Has(j.then, "record")))
SomeOwed == \E c \in Calls : Running(c) /\ OwedBy(call[c])

HistoryInv ==
    /\ part = "LISTINGS" => unrecorded = 0
    /\ part # "LISTINGS" /\ ~disturbed => unrecorded = IF SomeOwed THEN 1 ELSE 0

\* What is ahead is still owed after a step.
LEMMA OwedAfter ==
  ASSUME NEW j, Formed(j), part # "LISTINGS"
  PROVE  (After(j) # Idle /\ OwedBy(After(j))) <=> (j.approved /\ Has(j.then, "record"))
<1>1. CASE j.then = <<>>
  BY <1>1, NoneAhead DEF After
<1>2. CASE j.then # <<>>
  <2>1. After(j) # Idle
    <3>1. DOMAIN After(j) = DOMAIN j
      BY <1>2 DEF After
    <3> QED
      BY <3>1, FieldsRun DEF Formed, Fields
  <2>2. /\ After(j).approved = j.approved /\ After(j).op = Head(j.then) /\ After(j).then = Tail(j.then)
        /\ After(j).op \in Later
    BY <2>1, AfterFormed
  <2>3. After(j).op \notin Changes
    BY <2>2 DEF Later, Changes
  <2>4. Has(j.then, "record") <=> Head(j.then) = "record" \/ Has(Tail(j.then), "record")
    BY <1>2, AheadOf DEF Formed
  <2> QED
    BY <2>1, <2>2, <2>3, <2>4 DEF OwedBy
<1> QED
  BY <1>1, <1>2

LEMMA HistoryStep ==
  ASSUME ShapeInv, HistoryInv, [Next]_vars
  PROVE  HistoryInv'
<1>1. Shaped /\ PhotoRows
  BY DEF ShapeInv, PhotosInv
<1>2. UNCHANGED part /\ (part = "LISTINGS" => UNCHANGED unrecorded)
  BY <1>1, EveryStep
<1>3. ASSUME part # "LISTINGS", NEW c \in Calls, Step(c), ~disturbed'
      PROVE  unrecorded' = IF SomeOwed' THEN 1 ELSE 0
  <2>1. /\ ~disturbed /\ \A d \in Calls \ {c} : call'[d] = call[d] /\ ~Running(d)
    BY <1>1, <1>2, <1>3, StepShapes
  <2>2. SomeOwed' <=> Running(c)' /\ OwedBy(call'[c])
    BY <2>1 DEF SomeOwed, Running, OwedBy
  <2>3. unrecorded = IF Running(c) /\ OwedBy(call[c]) THEN 1 ELSE 0
    BY <1>3, <2>1 DEF HistoryInv, SomeOwed
  <2>4. Running(c) => Formed(call[c])
    BY <1>1 DEF Shaped
  <2>5. ASSUME Running(c), Done(c)
        PROVE  SomeOwed' <=> (call[c].approved /\ Has(call[c].then, "record"))
    <3>1. call'[c] = After(call[c])
      BY <1>1, <1>2, <2>5, IsDone
    <3> QED
      BY <1>3, <2>2, <2>4, <2>5, <3>1, OwedAfter DEF Running
  <2>6. ASSUME NEW j, Asks(c, j)
        PROVE  unrecorded' = IF SomeOwed' THEN 1 ELSE 0
    <3>1. call'[c] = j /\ ~Running(c) /\ UNCHANGED unrecorded
      BY <1>1, <1>2, <2>6, Opens DEF Asks, Kept, Idling, Running
    <3>2. j # Idle => ~OwedBy(j)
      BY <1>3, <2>6 DEF Asks, OwedBy, Starts
    <3> QED
      BY <2>2, <2>3, <3>1, <3>2 DEF Running
  <2>7. ASSUME Running(c), Done(c), UNCHANGED unrecorded, call[c].op \notin Changes \cup {"record"}
        PROVE  unrecorded' = IF SomeOwed' THEN 1 ELSE 0
    BY <2>3, <2>5, <2>7 DEF OwedBy
  <2>8. ASSUME Running(c), NEW j, Turns(c, j)
        PROVE  unrecorded' = IF SomeOwed' THEN 1 ELSE 0
    <3>1. call'[c] = j /\ j # Idle /\ UNCHANGED unrecorded /\ j.approved = call[c].approved
      BY <1>1, <1>2, <1>3, <2>8, GoesOn, FieldsRun DEF Turns, Kept, Formed
    <3>2. OwedBy(j) <=> OwedBy(call[c])
      <4>1. CASE call[c].op = "each"
        <5>1. ~Has(call[c].then, "record") /\ ~Has(j.then, "record")
          BY <2>4, <2>8, <4>1, NoneAhead, OneAhead DEF Turns, Formed, Last, Later
        <5> QED
          BY <2>8, <4>1, <5>1 DEF OwedBy, Turns
      <4>2. CASE call[c].op # "each"
        BY <2>8, <3>1, <4>2 DEF OwedBy, Turns, Changes
      <4> QED
        BY <4>1, <4>2
    <3> QED
      BY <2>2, <2>3, <2>8, <3>1, <3>2 DEF Running
  <2>9. ASSUME Running(c), Done(c), Owed(c), call[c].op \in Changes
        PROVE  unrecorded' = IF SomeOwed' THEN 1 ELSE 0
    <3>1. Has(call[c].then, "record") /\ ~OwedBy(call[c])
      BY <2>4, <2>9 DEF Formed, OwedBy, Changes
    <3>2. unrecorded = 0
      BY <2>3, <3>1
    <3> QED
      BY <2>5, <2>9, <3>1, <3>2 DEF Owed
  <2>10. ASSUME Running(c), call[c].op = "bulk", Finish(c), UNCHANGED unrecorded
         PROVE  unrecorded' = IF SomeOwed' THEN 1 ELSE 0
    <3>1. call'[c] = Idle
      BY <1>1, <2>10 DEF Finish, Continue, Shaped
    <3>2. ~OwedBy(call[c])
      BY <2>10 DEF OwedBy, Changes
    <3> QED
      BY <2>2, <2>3, <2>10, <3>1, <3>2 DEF Running
  <2>11. ASSUME Running(c), recordChanges(c)
         PROVE  unrecorded' = IF SomeOwed' THEN 1 ELSE 0
    <3>1. call[c].op = "record" /\ Done(c)
          /\ unrecorded' = unrecorded - (IF call[c].approved THEN 1 ELSE 0)
      BY <2>11 DEF recordChanges
    <3>2. ~SomeOwed'
      BY <2>4, <2>5, <2>11, <3>1, NoneAhead DEF Formed, Last
    <3>3. OwedBy(call[c]) <=> call[c].approved
      BY <3>1 DEF OwedBy
    <3>4. unrecorded = IF call[c].approved THEN 1 ELSE 0
      BY <2>3, <2>11, <3>3
    <3> QED
      BY <3>1, <3>2, <3>4
  <2>12. ASSUME Running(c), recalculate(c), UNCHANGED unrecorded
         PROVE  unrecorded' = IF SomeOwed' THEN 1 ELSE 0
    <3>1. PICK w : Continue(c, [call[c] EXCEPT !.op = "persist", !.was = w])
      BY <2>12 DEF recalculate
    <3> DEFINE k == [call[c] EXCEPT !.op = "persist", !.was = w]
    <3>2. Formed(k) /\ Continue(c, k)
      BY <2>4, <2>12, <3>1, PersistFormed
    <3>3. k.op = "persist" /\ k.then = call[c].then /\ k.approved = call[c].approved /\ call[c].op = "price"
      BY <1>3, <2>4, <2>12 DEF Formed, Fields, recalculate
    <3> HIDE DEF k
    <3>4. call'[c] = k /\ k # Idle
      BY <1>1, <1>2, <2>12, <3>2, GoesOn, FieldsRun DEF Formed
    <3>5. OwedBy(k) <=> OwedBy(call[c])
      BY <3>3 DEF OwedBy, Changes
    <3> QED
      BY <2>2, <2>3, <2>12, <3>4, <3>5 DEF Running
  <2>13. CASE Abandon(c)
    BY <1>3, <2>13 DEF Abandon
  <2>14. CASE Running(c) /\ Writes(c)
    BY <2>7, <2>14 DEF Writes, Kept
  <2>15. CASE Running(c) /\ Reprices(c)
    <3>1. call[c].op \in Changes \/ call[c].op = "editListing"
      BY <2>15 DEF Reprices, Edits, Changes
    <3>2. "editListing" \notin Changes \cup {"record"}
      BY DEF Changes
    <3> QED
      BY <2>7, <2>9, <2>15, <3>1, <3>2 DEF Reprices
  <2>16. CASE Running(c) /\ Alters(c)
    BY <2>9, <2>10, <2>16 DEF Alters
  <2>17. CASE Running(c) /\ (persistComputation(c) \/ replaceManualLines(c)) /\ UNCHANGED unrecorded
    BY <2>7, <2>17 DEF persistComputation, replaceManualLines, Changes
  <2> QED
    BY <1>3, <2>6, <2>8, <2>11, <2>12, <2>13, <2>14, <2>15, <2>16, <2>17 DEF Step, Enters, PricingStep
<1>4. CASE \E c \in Calls : Step(c)
  BY <1>2, <1>3, <1>4 DEF HistoryInv
<1>5. CASE UNCHANGED <<running, unrecorded>>
  BY <1>2, <1>5 DEF HistoryInv, SomeOwed, Running, OwedBy, running
<1> QED
  BY <1>1, <1>4, <1>5, EveryStep

LEMMA HistoryBegin ==
  ASSUME Init
  PROVE  HistoryInv
  BY DEF Init, ProjectsInit, HandlersInit, HistoryInv, SomeOwed, Running


-----------------------------------------------------------------------------
(* The units of an approved project are shown: a unit that comes later is   *)
(* shown as the handler read that the project was.                         *)

UnitRows ==
    /\ unit = [u \in Units |-> unit[u]]
    /\ \A u \in Units : {"number", "sales", "pub"} \subseteq DOMAIN unit[u]
    /\ {"status", "review", "pub", "pm"} \subseteq DOMAIN project

AllShown == isApproved /\ project.pub => \A u \in Units : unit[u] # NoUnit => unit[u].pub

ShowsAsRead(j) ==
    /\ j.op = "review" => j.set.to # "VERIFIED"
    /\ j.op \in {"createUnit", "bulk"} => j.set.pub = (project.pub /\ isApproved)

UnitsInv ==
    /\ UnitRows
    /\ ~disturbed \/ part = "LISTINGS" => AllShown
    /\ ~disturbed /\ part # "LISTINGS" => \A c \in Calls : Running(c) => ShowsAsRead(call[c])

LEMMA UnitsAsked ==
  ASSUME Shaped, UnitsInv, UNCHANGED <<part, project, unit>>, part # "LISTINGS", NEW c \in Calls, Step(c),
         NEW j, Asks(c, j), j # Idle => ShowsAsRead(j)
  PROVE  UnitsInv'
<1>1. /\ \A d \in Calls \ {c} : call'[d] = call[d] /\ call'[c] = j
      /\ ~disturbed' => ~disturbed /\ \A d \in Calls : ~Running(d)
  BY Opens DEF Asks
<1>2. call'[c] = j
  BY Opens DEF Asks
<1>3. UnitRows' /\ (~disturbed' => AllShown')
  BY <1>1 DEF UnitsInv, UnitRows, AllShown, isApproved
<1>4. ~disturbed' => \A d \in Calls : Running(d)' => ShowsAsRead(call[d])'
  BY <1>1, <1>2 DEF UnitsInv, Running, ShowsAsRead, isApproved
<1> QED
  BY <1>3, <1>4 DEF UnitsInv

\* A step that is no commit of the handler's rows.
LEMMA UnitsUnwritten ==
  ASSUME Shaped, UnitsInv, UNCHANGED <<part, project, unit>>, part # "LISTINGS", NEW c \in Calls, Step(c),
         Running(c)' => call'[c].op \notin {"review", "createUnit", "bulk"}
  PROVE  UnitsInv'
<1>1. /\ \A d \in Calls \ {c} : call'[d] = call[d]
      /\ ~disturbed' => ~disturbed
  BY StepShapes
<1>2. UnitRows' /\ (~disturbed' => AllShown')
  BY <1>1 DEF UnitsInv, UnitRows, AllShown, isApproved
<1>3. ~disturbed' => \A d \in Calls : Running(d)' => ShowsAsRead(call[d])'
  BY <1>1 DEF UnitsInv, Running, ShowsAsRead, isApproved
<1> QED
  BY <1>2, <1>3 DEF UnitsInv

\* A commit is the step of the only handler, or nothing is said of it.
LEMMA UnitsWritten ==
  ASSUME Shaped, UnitsInv, UNCHANGED part, part # "LISTINGS", NEW c \in Calls, Step(c), Running(c),
         Running(c)' => call'[c].op \notin {"review", "createUnit", "bulk"},
         UnitRows', ~disturbed => AllShown'
  PROVE  UnitsInv'
<1>1. /\ \A d \in Calls \ {c} : call'[d] = call[d]
      /\ ~disturbed' => ~disturbed /\ \A d \in Calls \ {c} : ~Running(d)
  BY StepShapes
<1>2. ~disturbed' => \A d \in Calls : Running(d)' => ShowsAsRead(call[d])'
  BY <1>1 DEF Running, ShowsAsRead
<1> QED
  BY <1>1, <1>2 DEF UnitsInv

LEMMA UnitsCommitted ==
  ASSUME Shaped, UnitsInv, UNCHANGED part, part # "LISTINGS", NEW c \in Calls, Step(c), Running(c),
         ProjectCommits(c)
  PROVE  UnitsInv'
<1> DEFINE on == call[c].on
<1>1. ~disturbed => AllShown /\ ShowsAsRead(call[c])
  BY DEF UnitsInv
<1>2. UnitRows
  BY DEF UnitsInv
<1>3. Formed(call[c])
  BY DEF Shaped
<1>4. Running(c)' => call'[c].op \notin {"review", "createUnit", "bulk"}
  <2>1. CASE Done(c)
    <3>1. call'[c] = After(call[c])
      BY <2>1, IsDone
    <3>2. Running(c)' => call'[c].op \in Later
      BY <1>3, <3>1, AfterFormed DEF Running
    <3> QED
      BY <3>2 DEF Later
  <2>2. CASE Finish(c)
    BY <2>2 DEF Finish, Continue, Shaped, Running
  <2>3. CASE recalculateEach(c) /\ ~Done(c)
    <3>1. PICK u : Continue(c, [call[c] EXCEPT !.op = "price", !.on = u, !.set.us = @ \ {u}, !.then = <<"each">>])
      BY <2>3 DEF recalculateEach
    <3>2. call'[c].op = "price"
      BY <1>3, <3>1 DEF Continue, Formed, Fields, Shaped
    <3> QED
      BY <3>2
  <2> QED
    BY <2>1, <2>2, <2>3 DEF ProjectCommits, recordChanges, review, mdApproveTx, updateProjectTx, deleteProjectTx,
         createUnitRow, bulkCreateUnitsTx, editUnitRow, changeStatusTx, overrideUnitPriceRow,
         deleteUnitRow, ruleRow
<1>5. UnitRows' /\ (~disturbed => AllShown')
  <2>1. CASE UNCHANGED <<project, unit>>
    BY <1>1, <1>2, <2>1 DEF UnitRows, AllShown, isApproved
  <2>2. CASE review(c)
    <3>1. project' = [project EXCEPT !.review = call[c].set.to] /\ UNCHANGED unit /\ call[c].op = "review"
      BY <2>2 DEF review
    <3>2. ~disturbed => ~isApproved'
      BY <1>1, <1>2, <3>1 DEF ShowsAsRead, isApproved, UnitRows
    <3> QED
      BY <1>2, <3>1, <3>2 DEF UnitRows, AllShown
  <2>3. CASE mdApproveTx(c)
    <3> DEFINE ok == call[c].set.ok
    <3>1. /\ project' = [project EXCEPT !.review = IF ok THEN "VERIFIED" ELSE "REJECTED", !.pub = ok]
          /\ unit' = [u \in Units |-> IF unit[u] = NoUnit THEN NoUnit ELSE [unit[u] EXCEPT !.pub = ok]]
      BY <2>3 DEF mdApproveTx
    <3>2. {"number", "sales", "pub"} \subseteq DOMAIN NoUnit
      BY DEF NoUnit
    <3>3. UnitRows'
      BY <1>2, <3>1, <3>2 DEF UnitRows
    <3>4. project'.pub = ok /\ \A u \in Units : unit'[u] = NoUnit \/ unit'[u].pub = ok
      BY <1>2, <3>1 DEF UnitRows
    <3> QED
      BY <3>3, <3>4 DEF AllShown
  <2>4. CASE updateProjectTx(c) \/ deleteProjectTx(c)
    <3>1. CASE updateProjectTx(c)
      <4>1. /\ project' = [project EXCEPT !.status = call[c].set.status, !.pm = call[c].set.pm]
            /\ UNCHANGED unit
        BY <3>1 DEF updateProjectTx
      <4>2. project'.review = project.review /\ project'.pub = project.pub
        BY <1>2, <4>1 DEF UnitRows
      <4> QED
        BY <1>1, <1>2, <4>1, <4>2 DEF UnitRows, AllShown, isApproved
    <3>2. CASE deleteProjectTx(c)
      <4>1. project' = [project EXCEPT !.status = "CANCELLED", !.pub = FALSE] /\ UNCHANGED unit
        BY <3>2 DEF deleteProjectTx
      <4>2. ~project'.pub
        BY <1>2, <4>1 DEF UnitRows
      <4> QED
        BY <1>2, <4>1, <4>2 DEF UnitRows, AllShown
    <3> QED
      BY <2>4, <3>1, <3>2
  <2>5. CASE createUnitRow(c)
    <3>1. unit' = [unit EXCEPT ![on] = newUnit(call[c])] /\ UNCHANGED project /\ call[c].op = "createUnit"
      BY <2>5 DEF createUnitRow
    <3>2. /\ {"number", "sales", "pub"} \subseteq DOMAIN newUnit(call[c])
          /\ newUnit(call[c]).pub = call[c].set.pub
      BY DEF newUnit
    <3>3. UnitRows'
      BY <1>2, <3>1, <3>2 DEF UnitRows
    <3>4. ~disturbed /\ isApproved /\ project.pub => call[c].set.pub
      BY <1>1, <3>1 DEF ShowsAsRead
    <3> QED
      BY <1>1, <1>2, <3>1, <3>2, <3>3, <3>4 DEF UnitRows, AllShown, isApproved
  <2>6. CASE bulkCreateUnitsTx(c)
    <3> DEFINE us == {u \in call[c].set.us : unit[u] = NoUnit}
               Made(numbering) == {u \in us : numbering[u] # Nobody}
               Numbered(numbering) ==
                 [u \in Units |-> IF u \in Made(numbering)
                    THEN newUnit([set |-> [number |-> numbering[u], pub |-> call[c].set.pub]])
                    ELSE unit[u]]
    <3>1. call[c].op = "bulk" /\ UNCHANGED project
          /\ \E numbering \in [us -> Numbers \cup {Nobody}] : unit' = Numbered(numbering)
      BY <2>6 DEF bulkCreateUnitsTx
    <3>2. PICK numbering : unit' = Numbered(numbering)
      BY <3>1
    <3> DEFINE made == Made(numbering)
    <3>3. ASSUME NEW u \in Units
          PROVE  /\ {"number", "sales", "pub"} \subseteq DOMAIN unit'[u]
                 /\ unit'[u] = unit[u] \/ unit'[u].pub = call[c].set.pub
      <4>1. CASE u \in made
        <5>1. unit'[u] = [number |-> numbering[u], sales |-> "AVAILABLE", pub |-> call[c].set.pub]
          BY <3>2, <4>1 DEF newUnit
        <5> QED
          BY <5>1
      <4>2. CASE u \notin made
        BY <1>2, <3>2, <4>2 DEF UnitRows
      <4> QED
        BY <4>1, <4>2
    <3>4. UnitRows'
      BY <1>2, <3>1, <3>2, <3>3 DEF UnitRows
    <3>5. ~disturbed /\ isApproved /\ project.pub => call[c].set.pub
      BY <1>1, <3>1 DEF ShowsAsRead
    <3> QED
      BY <1>1, <3>1, <3>3, <3>4, <3>5 DEF AllShown, isApproved
  <2>7. CASE editUnitRow(c) \/ changeStatusTx(c)
    <3>1. /\ UNCHANGED project /\ unit[on] # NoUnit
          /\ \/ unit' = [unit EXCEPT ![on].number = call[c].set.number]
             \/ unit' = [unit EXCEPT ![on].sales = call[c].set.sales]
      BY <2>7 DEF editUnitRow, changeStatusTx
    <3>2. UnitRows' /\ \A u \in Units : unit'[u] = unit[u] \/ (unit[u] # NoUnit /\ unit'[u].pub = unit[u].pub)
      BY <1>2, <3>1 DEF UnitRows
    <3> QED
      BY <1>1, <3>1, <3>2 DEF AllShown, isApproved
  <2>8. CASE deleteUnitRow(c)
    <3>1. UNCHANGED project /\ unit' = [unit EXCEPT ![on] = NoUnit]
      BY <2>8 DEF deleteUnitRow
    <3>2. {"number", "sales", "pub"} \subseteq DOMAIN NoUnit
      BY DEF NoUnit
    <3>3. UnitRows' /\ \A u \in Units : unit'[u] \in {unit[u], NoUnit}
      BY <1>2, <3>1, <3>2 DEF UnitRows
    <3> QED
      BY <1>1, <3>1, <3>3 DEF AllShown, isApproved
  <2>9. CASE recordChanges(c) \/ overrideUnitPriceRow(c) \/ recalculateEach(c) \/ ruleRow(c)
    BY <2>1, <2>9 DEF recordChanges, overrideUnitPriceRow, recalculateEach, ruleRow, projects
  <2> QED
    BY <2>2, <2>3, <2>4, <2>5, <2>6, <2>7, <2>8, <2>9 DEF ProjectCommits
<1> QED
  BY <1>4, <1>5, UnitsWritten


LEMMA UnitsStep ==
  ASSUME ShapeInv, UnitsInv, [Next]_vars
  PROVE  UnitsInv'
<1>1. Shaped /\ PhotoRows
  BY DEF ShapeInv, PhotosInv
<1>2. UNCHANGED part
  BY <1>1, EveryStep
<1>3. ASSUME part # "LISTINGS", NEW c \in Calls, Step(c), ProjectRequest(c)
      PROVE  UnitsInv'
  <2>1. PICK j : Asks(c, j) /\ (j # Idle => ProjectRead(j))
    BY <1>3 DEF ProjectRequest
  <2>2. UNCHANGED <<project, unit>> /\ (j # Idle => ShowsAsRead(j))
    BY <1>3, <2>1 DEF ProjectRequest, ProjectRead, ShowsAsRead
  <2> QED
    BY <1>1, <1>2, <1>3, <2>1, <2>2, UnitsAsked
<1>4. ASSUME part # "LISTINGS", NEW c \in Calls, Step(c), FileRequest(c)
      PROVE  UnitsInv'
  <2>1. PICK j : Asks(c, j) /\ (j # Idle => FileRead(j))
    BY <1>4 DEF FileRequest
  <2>2. UNCHANGED <<project, unit>> /\ (j # Idle => ShowsAsRead(j))
    BY <1>4, <2>1 DEF FileRequest, FileRead, ShowsAsRead
  <2> QED
    BY <1>1, <1>2, <1>4, <2>1, <2>2, UnitsAsked
<1>5. ASSUME part # "LISTINGS", NEW c \in Calls, Step(c), UNCHANGED projects, PricingStep(c) \/ Abandon(c)
      PROVE  UnitsInv'
  <2>1. Running(c)' => call'[c].op \notin {"review", "createUnit", "bulk"}
    BY <1>1, <1>2, <1>5, PricingGoesOn DEF Later
  <2> QED
    BY <1>1, <1>2, <1>5, <2>1, UnitsUnwritten DEF projects
<1>6. ASSUME part = "FILES", NEW c \in Calls, Step(c), FileCommits(c)
      PROVE  UnitsInv'
  <2>1. Running(c) /\ UNCHANGED projects /\ Formed(call[c])
    BY <1>1, <1>6, FileCommit DEF Shaped
  <2>2. Running(c)' => call'[c].op \notin {"review", "createUnit", "bulk"}
    <3>1. CASE Done(c)
      <4>1. call'[c] = After(call[c])
        BY <1>1, <1>2, <2>1, <3>1, IsDone
      <4>2. Running(c)' => call'[c].op \in Later
        BY <2>1, <4>1, AfterFormed DEF Running
      <4> QED
        BY <4>2 DEF Later
    <3>2. ASSUME NEW op \in {"planRow", "cover", "uncover"}, NEW set,
                 Continue(c, [call[c] EXCEPT !.op = op, !.set = set])
          PROVE  call'[c].op \in {"planRow", "cover", "uncover"}
      BY <1>1, <2>1, <3>2 DEF Continue, Shaped, Formed, Fields
    <3>3. \/ Done(c)
          \/ \E op \in {"planRow", "cover", "uncover"}, set \in {call[c].set, [first |-> \A i \in Plans : ~There(i)]} :
               Continue(c, [call[c] EXCEPT !.op = op, !.set = set])
      <4>1. /\ [call[c] EXCEPT !.op = "cover"] = [call[c] EXCEPT !.op = "cover", !.set = call[c].set]
            /\ [call[c] EXCEPT !.op = "uncover"] = [call[c] EXCEPT !.op = "uncover", !.set = call[c].set]
        BY <2>1 DEF Formed, Fields
      <4>2. CASE Continue(c, [call[c] EXCEPT !.op = "planRow", !.set = [first |-> \A i \in Plans : ~There(i)]])
        <5> DEFINE set == [first |-> \A i \in Plans : ~There(i)]
        <5>1. Continue(c, [call[c] EXCEPT !.op = "planRow", !.set = set])
          BY <4>2
        <5> HIDE DEF set
        <5>2. \E op \in {"planRow", "cover", "uncover"}, x \in {call[c].set, set} :
                 Continue(c, [call[c] EXCEPT !.op = op, !.set = x])
          BY <5>1
        <5> QED
          BY <5>2 DEF set
      <4>3. CASE \/ Continue(c, [call[c] EXCEPT !.op = "cover"]) \/ Continue(c, [call[c] EXCEPT !.op = "uncover"])
        <5>1. \/ Continue(c, [call[c] EXCEPT !.op = "cover", !.set = call[c].set])
              \/ Continue(c, [call[c] EXCEPT !.op = "uncover", !.set = call[c].set])
          BY <4>1, <4>3
        <5> QED
          BY <5>1
      <4> QED
        BY <1>1, <1>6, <4>2, <4>3, FileCommit
    <3> QED
      BY <3>1, <3>2, <3>3
  <2> QED
    BY <1>1, <1>2, <1>6, <2>1, <2>2, UnitsUnwritten DEF projects
<1>7. ASSUME part # "LISTINGS", NEW c \in Calls, Step(c), ProjectCommits(c)
      PROVE  UnitsInv'
  BY <1>1, <1>2, <1>7, ProjectCommit, UnitsCommitted
<1>8. CASE UNCHANGED <<running, projects>>
  BY <1>2, <1>8 DEF UnitsInv, UnitRows, AllShown, isApproved, ShowsAsRead, Running, running, projects
<1>9. ASSUME NEW u \in Units, ProjectsAround(u)
      PROVE  UnitsInv'
  <2>1. UNCHANGED <<running, project>>
    BY <1>9 DEF ProjectsAround, bookingReserves, leadWants
  <2>2. UnitRows' /\ (AllShown => AllShown')
    <3>1. CASE bookingReserves(u)
      <4>1. unit' = [unit EXCEPT ![u].sales = "RESERVED"] /\ unit[u] # NoUnit
        BY <3>1 DEF bookingReserves, NoUnit
      <4>2. UnitRows' /\ \A v \in Units : unit'[v] = unit[v] \/ (unit[v] # NoUnit /\ unit'[v].pub = unit[v].pub)
        BY <2>1, <4>1 DEF UnitsInv, UnitRows
      <4> QED
        BY <2>1, <4>2 DEF AllShown, isApproved
    <3>2. CASE leadWants(u)
      BY <3>2 DEF leadWants, UnitsInv, UnitRows, AllShown, isApproved
    <3> QED
      BY <1>9, <3>1, <3>2 DEF ProjectsAround
  <2> QED
    BY <1>2, <2>1, <2>2 DEF UnitsInv, ShowsAsRead, Running, running, isApproved
<1>10. CASE part = "LISTINGS"
  <2>1. UNCHANGED projects
    BY <1>1, <1>10, ListingSteps
  <2> QED
    BY <1>2, <1>10, <2>1 DEF UnitsInv, UnitRows, AllShown, isApproved, projects
<1>11. CASE part = "PROJECT"
  BY <1>1, <1>3, <1>5, <1>7, <1>8, <1>9, <1>11, ProjectSteps
<1>12. CASE part = "FILES"
  <2>1. \A c \in Calls : unitLeavesPlans(c) => ProjectCommits(c)
    BY DEF unitLeavesPlans, ProjectCommits
  <2>2. \A c \in Calls : recordChanges(c) => ProjectCommits(c)
    BY DEF ProjectCommits
  <2> QED
    BY <1>1, <1>3, <1>4, <1>5, <1>6, <1>7, <1>8, <1>12, <2>1, <2>2, FileSteps
<1> QED
  BY <1>1, <1>10, <1>11, <1>12 DEF Shaped

LEMMA UnitsBegin ==
  ASSUME Init
  PROVE  UnitsInv
<1>1. PICK start \in StartProjects : project = start[1] /\ unit = start[2]
  BY DEF Init, ProjectsInit
<1>2. UnitRows /\ AllShown
  BY <1>1, StartProjectsAssumption DEF UnitRows, AllShown, isApproved, ProjectRow, UnitRow
<1>3. \A c \in Calls : ~Running(c)
  BY DEF Init, HandlersInit, Running
<1> QED
  BY <1>2, <1>3 DEF UnitsInv

-----------------------------------------------------------------------------
(* The buyers' notices.                                                     *)

LEMMA NoticesStep ==
  ASSUME ShapeInv, NoticesMatchUpdates, [Next]_vars
  PROVE  NoticesMatchUpdates'
<1>1. Shaped /\ PhotoRows
  BY DEF ShapeInv, PhotosInv
<1>2. CASE UNCHANGED <<notices, posted>>
  BY <1>2 DEF NoticesMatchUpdates
<1>3. ASSUME NEW c \in Calls, ProjectCommits(c) \/ unitLeavesPlans(c)
      PROVE  UNCHANGED <<notices, posted>>
  BY <1>3 DEF unitLeavesPlans, ProjectCommits, recordChanges, review, mdApproveTx, updateProjectTx,
       deleteProjectTx, createUnitRow, bulkCreateUnitsTx, editUnitRow, changeStatusTx,
       overrideUnitPriceRow, recalculateEach, deleteUnitRow, ruleRow, projects
<1>4. UNCHANGED projects => UNCHANGED <<notices, posted>>
  BY DEF projects
<1>5. CASE part = "LISTINGS"
  BY <1>1, <1>2, <1>4, <1>5, ListingSteps
<1>6. CASE part = "PROJECT"
  <2>1. ASSUME NEW u, ProjectsAround(u) PROVE UNCHANGED <<notices, posted>>
    BY <2>1 DEF ProjectsAround, bookingReserves, leadWants
  <2> QED
    BY <1>1, <1>2, <1>3, <1>4, <1>6, <2>1, ProjectSteps DEF ProjectRequest
<1>7. CASE part = "FILES"
  <2>1. ASSUME NEW c \in Calls, FileCommits(c) PROVE UNCHANGED <<notices, posted>>
    BY <1>1, <1>4, <1>7, <2>1, FileCommit
  <2>2. ASSUME NEW c, FileRequest(c) PROVE UNCHANGED <<notices, posted>>
    BY <2>2 DEF FileRequest
  <2>3. ASSUME NEW c, recordChanges(c) PROVE UNCHANGED <<notices, posted>>
    BY <2>3 DEF recordChanges
  <2> QED
    BY <1>1, <1>2, <1>3, <1>4, <1>7, <2>1, <2>2, <2>3, FileSteps DEF ProjectRequest
<1> QED
  BY <1>1, <1>5, <1>6, <1>7 DEF Shaped


-----------------------------------------------------------------------------
(* The files: what a handler read of them is so as long as it runs alone.   *)

Covered(m) == media[m] = [kind |-> "COVER", type |-> "image"]

FileRows ==
    /\ plan = [i \in Plans |-> plan[i]]
    /\ media = [m \in Media |-> media[m]] /\ \A m \in Media : {"kind", "type"} \subseteq DOMAIN media[m]
    /\ pins \subseteq Plans \X Units

NoFiles ==
    /\ pins = {} /\ cover = Nobody
    /\ \A i \in Plans : plan[i] = "UNUSED"

\* What a handler asked for, whatever happened since ...
FilesAsked(j) ==
    /\ j.op = "pin" => j.on \in Plans /\ j.set.us \subseteq Units
    /\ j.op = "media" => \E kind \in MediaKinds : \E type \in storeMediaFile(kind) :
                            j.set = [kind |-> kind, type |-> type]

\* ... and what it read or wrote, if it is alone.
FilesAsRead(j) ==
    /\ j.op = "deleteMedia" => j.was = cover
    /\ j.op = "cover" /\ j.on \in Media => Covered(j.on)
    /\ j.op = "planRow" /\ j.set.first => \A i \in Plans : ~There(i)

CoverThere == cover \in Media => Covered(cover) \/ \E c \in Calls : Running(c) /\ call[c].op = "uncover"
OnePrimaryOf == \A i, j \in Plans : plan[i] = "PRIMARY" /\ plan[j] = "PRIMARY" => i = j

FilesInv ==
    /\ FileRows /\ PinsPlaced
    /\ part # "FILES" => NoFiles
    /\ part = "FILES" =>
         /\ \A c \in Calls : Running(c) => FilesAsked(call[c])
         /\ ~disturbed =>
              /\ CoverThere /\ OnePrimaryOf
              /\ \A c \in Calls : Running(c) => FilesAsRead(call[c])

\* A handler asks, or edits the cover by hand.
LEMMA FilesAskedFor ==
  ASSUME Shaped, FilesInv, part = "FILES", UNCHANGED part, NEW c \in Calls, Step(c), FileRequest(c)
  PROVE  FilesInv'
<1>1. PICK j : /\ Asks(c, j)
               /\ j # Idle => FileRead(j) /\ UNCHANGED cover
  BY DEF FileRequest
<1>2. UNCHANGED <<unit, plan, pins, media>> /\ cover' \in {cover, Elsewhere, Nobody}
  BY DEF FileRequest
<1>3. /\ \A d \in Calls \ {c} : call'[d] = call[d]
      /\ ~disturbed' => ~disturbed /\ \A d \in Calls : ~Running(d)
  BY <1>1, Opens DEF Asks
<1>4. call'[c] = j
  BY <1>1, Opens DEF Asks
<1>5. FileRows' /\ PinsPlaced'
  BY <1>2 DEF FilesInv, FileRows, PinsPlaced, There
<1>6. \A d \in Calls : Running(d)' => FilesAsked(call[d])'
  <2>1. \A d \in Calls \ {c} : Running(d)' => FilesAsked(call[d])'
    BY <1>3 DEF FilesInv, Running, FilesAsked
  <2>2. j # Idle => FilesAsked(j)'
    BY <1>1 DEF FilesAsked, FileRead
  <2>3. Running(c)' => FilesAsked(call[c])'
    BY <1>4, <2>2 DEF Running, FilesAsked
  <2> QED
    BY <2>1, <2>3
<1>7. ASSUME ~disturbed'
      PROVE  CoverThere' /\ OnePrimaryOf' /\ \A d \in Calls : Running(d)' => FilesAsRead(call[d])'
  <2>1. CoverThere'
    BY <1>2, <1>3, <1>7, FilesAssumption DEF FilesInv, CoverThere, Covered, Running
  <2>2. OnePrimaryOf'
    BY <1>2, <1>3, <1>7 DEF FilesInv, OnePrimaryOf
  <2>3. \A d \in Calls : Running(d)' => FilesAsRead(call[d])'
    BY <1>1, <1>3, <1>4, <1>7 DEF Running, FilesAsRead, FileRead
  <2> QED
    BY <2>1, <2>2, <2>3
<1> QED
  BY <1>5, <1>6, <1>7 DEF FilesInv

\* Nothing of the files is written, and the handler goes on with a step that says nothing of them.
LEMMA FilesUnwritten ==
  ASSUME Shaped, FilesInv, part = "FILES", UNCHANGED <<part, files>>, NEW c \in Calls, Step(c),
         \A u \in Units : unit[u] # NoUnit => unit'[u] # NoUnit,
         call[c].op # "uncover" \/ ~Running(c) \/ disturbed',
         Running(c)' => call'[c].op \notin {"pin", "media", "deleteMedia", "cover", "planRow"}
  PROVE  FilesInv'
<1>1. /\ \A d \in Calls \ {c} : call'[d] = call[d]
      /\ ~disturbed' => ~disturbed /\ \A d \in Calls \ {c} : ~Running(d)
  BY StepShapes
<1>2. FileRows' /\ PinsPlaced'
  BY DEF FilesInv, FileRows, PinsPlaced, There, files
<1>3. \A d \in Calls : Running(d)' => FilesAsked(call[d])'
  BY <1>1 DEF FilesInv, Running, FilesAsked
<1>4. ~disturbed' => CoverThere' /\ OnePrimaryOf' /\ \A d \in Calls : Running(d)' => FilesAsRead(call[d])'
  BY <1>1 DEF FilesInv, CoverThere, Covered, OnePrimaryOf, Running, FilesAsRead, files
<1> QED
  BY <1>2, <1>3, <1>4 DEF FilesInv

\* A unit leaves the plans.
LEMMA FilesWithoutUnit ==
  ASSUME Shaped, UnitsInv, FilesInv, part = "FILES", UNCHANGED part, NEW c \in Calls, Step(c), unitLeavesPlans(c)
  PROVE  FilesInv'
<1> DEFINE u == call[c].on
<1>1. /\ unit' = [unit EXCEPT ![u] = NoUnit] /\ pins' = {x \in pins : x[2] # u} /\ Done(c)
      /\ UNCHANGED <<plan, media, cover>> /\ call[c].op = "deleteUnit"
  BY DEF unitLeavesPlans, deleteUnitRow
<1>2. Running(c) /\ Formed(call[c])
  BY <1>1 DEF Running, Idle, Shaped
<1>3. /\ \A d \in Calls \ {c} : call'[d] = call[d]
      /\ ~disturbed' => ~disturbed /\ \A d \in Calls \ {c} : ~Running(d)
  BY StepShapes
<1>4. Running(c)' => call'[c].op \in Later
  <2>1. call'[c] = After(call[c])
    BY <1>1, <1>2, IsDone
  <2> QED
    BY <1>2, <2>1, AfterFormed DEF Running
<1>5. FileRows' /\ PinsPlaced'
  BY <1>1 DEF FilesInv, FileRows, PinsPlaced, There, UnitsInv, UnitRows
<1>6. \A d \in Calls : Running(d)' => FilesAsked(call[d])'
  BY <1>3, <1>4 DEF FilesInv, Running, FilesAsked, Later
<1>7. ~disturbed' => CoverThere' /\ OnePrimaryOf' /\ \A d \in Calls : Running(d)' => FilesAsRead(call[d])'
  BY <1>1, <1>3, <1>4 DEF FilesInv, CoverThere, Covered, OnePrimaryOf, Running, FilesAsRead, Later
<1> QED
  BY <1>5, <1>6, <1>7 DEF FilesInv

\* A commit of the handlers of the files.
LEMMA FilesWritten ==
  ASSUME Shaped, FilesInv, part = "FILES", UNCHANGED part, NEW c \in Calls, Step(c), FileCommits(c),
         FileRows', PinsPlaced', Running(c)' => FilesAsked(call[c])',
         ~disturbed /\ (\A d \in Calls \ {c} : ~Running(d)) =>
            CoverThere' /\ OnePrimaryOf' /\ (Running(c)' => FilesAsRead(call[c])')
  PROVE  FilesInv'
<1>1. /\ \A d \in Calls \ {c} : call'[d] = call[d]
      /\ ~disturbed' => ~disturbed /\ \A d \in Calls \ {c} : ~Running(d)
  BY StepShapes
<1>2. \A d \in Calls \ {c} : Running(d)' => FilesAsked(call[d])'
  BY <1>1 DEF FilesInv, Running, FilesAsked
<1>3. ~disturbed' => \A d \in Calls \ {c} : ~Running(d)'
  BY <1>1 DEF Running
<1> QED
  BY <1>1, <1>2, <1>3 DEF FilesInv


LEMMA FilesDone ==
  ASSUME Shaped, UNCHANGED part, NEW c \in Calls, Running(c), Done(c)
  PROVE  Running(c)' => FilesAsked(call[c])' /\ FilesAsRead(call[c])'
<1>1. call'[c] = After(call[c]) /\ Formed(call[c])
  BY IsDone DEF Shaped
<1>2. Running(c)' => call'[c].op \in Later
  BY <1>1, AfterFormed DEF Running
<1> QED
  BY <1>2 DEF Later, FilesAsked, FilesAsRead

LEMMA FilesCommitted ==
  ASSUME Shaped, FilesInv, part = "FILES", UNCHANGED part, NEW c \in Calls, Step(c), FileCommits(c)
  PROVE  FilesInv'
<1> DEFINE on == call[c].on
           alone == ~disturbed /\ \A d \in Calls \ {c} : ~Running(d)
<1>1. Running(c) /\ UNCHANGED unit /\ Formed(call[c]) /\ call = [d \in Calls |-> call[d]]
  BY FileCommit DEF projects, Shaped
<1>2. FileRows /\ PinsPlaced /\ FilesAsked(call[c])
  BY <1>1 DEF FilesInv
<1>3. alone => CoverThere /\ OnePrimaryOf /\ FilesAsRead(call[c])
  BY <1>1 DEF FilesInv
<1>4. CASE countPlans(c)
  <2> DEFINE set == [first |-> \A i \in Plans : ~There(i)]
             j   == [call[c] EXCEPT !.op = "planRow", !.set = set]
  <2>1. call[c].op = "plan" /\ call' = [call EXCEPT ![c] = j] /\ UNCHANGED files
    BY <1>4 DEF countPlans, Continue
  <2>2. j.op = "planRow" /\ j.set = set
    BY <1>1 DEF Formed, Fields
  <2>3. set.first <=> \A i \in Plans : ~There(i)
    OBVIOUS
  <2> HIDE DEF j, set
  <2>4. call'[c] = j
    BY <1>1, <2>1
  <2>5. FileRows' /\ PinsPlaced' /\ FilesAsked(call[c])'
    BY <1>1, <1>2, <2>1, <2>2, <2>4 DEF FileRows, PinsPlaced, There, FilesAsked, files
  <2>6. alone => CoverThere' /\ OnePrimaryOf'
    BY <1>1, <1>3, <2>1 DEF CoverThere, Covered, OnePrimaryOf, Running, files
  <2>7. FilesAsRead(call[c])'
    BY <2>1, <2>2, <2>3, <2>4 DEF FilesAsRead, There, files
  <2> QED
    BY <2>5, <2>6, <2>7, FilesWritten
<1>5. CASE planRow(c)
  <2>1. /\ call[c].op = "planRow" /\ plan[on] = "UNUSED" /\ Done(c) /\ UNCHANGED <<pins, media, cover>>
        /\ plan' = [plan EXCEPT ![on] = IF call[c].set.first THEN "PRIMARY" ELSE "OTHER"]
    BY <1>5 DEF planRow
  <2>2. \A i \in Plans : plan'[i] = plan[i] \/ (i = on /\ plan'[i] = IF call[c].set.first THEN "PRIMARY" ELSE "OTHER")
    BY <1>2, <2>1 DEF FileRows
  <2>3. FileRows' /\ PinsPlaced'
    BY <1>1, <1>2, <2>1, <2>2 DEF FileRows, PinsPlaced, There
  <2>4. alone => OnePrimaryOf'
    BY <1>3, <2>1, <2>2 DEF OnePrimaryOf, FilesAsRead, There
  <2>5. alone => CoverThere'
    BY <1>1, <1>3, <2>1 DEF CoverThere, Covered, Running
  <2> QED
    BY <1>1, <2>1, <2>3, <2>4, <2>5, FilesWritten, FilesDone
<1>6. CASE deletePlanRow(c)
  <2>1. /\ call[c].op = "deletePlan" /\ Done(c) /\ UNCHANGED <<media, cover>>
        /\ plan' = [plan EXCEPT ![on] = "DELETED"] /\ pins' = {x \in pins : x[1] # on}
    BY <1>6 DEF deletePlanRow
  <2>2. \A i \in Plans : (i # on /\ plan'[i] = plan[i]) \/ (i = on /\ plan'[i] = "DELETED")
    BY <1>2, <2>1 DEF FileRows
  <2>3. FileRows' /\ PinsPlaced'
    BY <1>1, <1>2, <2>1, <2>2 DEF FileRows, PinsPlaced, There
  <2>4. alone => OnePrimaryOf'
    BY <1>3, <2>1, <2>2 DEF OnePrimaryOf
  <2>5. alone => CoverThere'
    BY <1>1, <1>3, <2>1 DEF CoverThere, Covered, Running
  <2> QED
    BY <1>1, <2>1, <2>3, <2>4, <2>5, FilesWritten, FilesDone
<1>7. CASE upsertRegionsTx(c) \/ deleteRegionRow(c)
  <2>1. call[c].op \in {"pin", "unpin"} /\ Done(c) /\ UNCHANGED <<plan, media, cover>>
    BY <1>7 DEF upsertRegionsTx, deleteRegionRow
  <2>2. FileRows' /\ PinsPlaced'
    <3>1. CASE upsertRegionsTx(c)
      <4>1. /\ call[c].op = "pin"
            /\ pins' = pins \cup ({on} \X {u \in call[c].set.us : There(on) /\ unit[u] # NoUnit})
        BY <3>1 DEF upsertRegionsTx
      <4>2. on \in Plans /\ call[c].set.us \subseteq Units
        BY <1>2, <4>1 DEF FilesAsked
      <4>3. pins' \subseteq Plans \X Units
        BY <1>2, <4>1, <4>2 DEF FileRows
      <4>4. ASSUME NEW x \in pins' PROVE There(x[1]) /\ unit[x[2]] # NoUnit
        BY <1>2, <4>1, <4>4 DEF PinsPlaced
      <4> QED
        BY <1>1, <1>2, <2>1, <4>3, <4>4 DEF FileRows, PinsPlaced, There
    <3>2. CASE deleteRegionRow(c)
      <4>1. pins' \subseteq pins
        BY <3>2 DEF deleteRegionRow
      <4> QED
        BY <1>1, <1>2, <2>1, <4>1 DEF FileRows, PinsPlaced, There
    <3> QED
      BY <1>7, <3>1, <3>2
  <2>3. alone => CoverThere' /\ OnePrimaryOf'
    BY <1>1, <1>3, <2>1 DEF CoverThere, Covered, Running, OnePrimaryOf
  <2> QED
    BY <1>1, <2>1, <2>2, <2>3, FilesWritten, FilesDone
<1>8. CASE mediaRow(c)
  <2>1. /\ call[c].op = "media" /\ media[on].kind = "UNUSED" /\ media' = [media EXCEPT ![on] = call[c].set]
        /\ UNCHANGED <<plan, pins, cover>>
        /\ \/ call[c].set.kind = "COVER" /\ Continue(c, [call[c] EXCEPT !.op = "cover"])
           \/ call[c].set.kind # "COVER" /\ Done(c)
    BY <1>8 DEF mediaRow
  <2>2. PICK kind \in MediaKinds : \E type \in storeMediaFile(kind) : call[c].set = [kind |-> kind, type |-> type]
    BY <1>2, <2>1 DEF FilesAsked
  <2>3. PICK type \in storeMediaFile(kind) : call[c].set = [kind |-> kind, type |-> type]
    BY <2>2
  <2>4. kind = "COVER" => type = "image"
    BY <2>3 DEF storeMediaFile
  <2>5. \A m \in Media : media'[m] = media[m] \/ (m = on /\ media'[m] = [kind |-> kind, type |-> type])
    BY <1>2, <2>1, <2>3 DEF FileRows
  <2>6. FileRows' /\ PinsPlaced'
    BY <1>1, <1>2, <2>1, <2>5 DEF FileRows, PinsPlaced, There
  <2>7. alone => OnePrimaryOf'
    BY <1>3, <2>1 DEF OnePrimaryOf
  <2>8. alone => CoverThere'
    <3>1. alone /\ cover \in Media => Covered(cover)
      BY <1>1, <1>3, <2>1 DEF CoverThere, Running
    <3>2. alone /\ cover \in Media => cover # on
      BY <2>1, <3>1 DEF Covered
    <3>3. alone /\ cover \in Media => Covered(cover)'
      BY <2>1, <2>5, <3>1, <3>2 DEF Covered
    <3> QED
      BY <2>1, <3>3 DEF CoverThere
  <2>9. CASE Done(c)
    BY <1>1, <2>6, <2>7, <2>8, <2>9, FilesWritten, FilesDone
  <2>10. CASE call[c].set.kind = "COVER" /\ Continue(c, [call[c] EXCEPT !.op = "cover"])
    <3> DEFINE j == [call[c] EXCEPT !.op = "cover"]
    <3>1. call' = [call EXCEPT ![c] = j]
      BY <2>10 DEF Continue
    <3>2. j.op = "cover" /\ j.on = on
      BY <1>1 DEF Formed, Fields
    <3> HIDE DEF j
    <3>3. call'[c] = j
      BY <1>1, <3>1
    <3>4. on \in Media => media'[on] = [kind |-> "COVER", type |-> "image"]
      BY <1>2, <2>1, <2>3, <2>4, <2>10 DEF FileRows
    <3>5. FilesAsked(call[c])' /\ FilesAsRead(call[c])'
      BY <3>2, <3>3, <3>4 DEF FilesAsked, FilesAsRead, Covered
    <3> QED
      BY <2>6, <2>7, <2>8, <3>5, FilesWritten
  <2> QED
    BY <2>1, <2>9, <2>10
<1>9. CASE coverRow(c)
  <2>1. call[c].op = "cover" /\ Done(c) /\ cover' = on /\ UNCHANGED <<plan, pins, media>>
    BY <1>9 DEF coverRow
  <2>2. FileRows' /\ PinsPlaced'
    BY <1>1, <1>2, <2>1 DEF FileRows, PinsPlaced, There
  <2>3. alone => CoverThere' /\ OnePrimaryOf'
    BY <1>3, <2>1 DEF CoverThere, Covered, OnePrimaryOf, FilesAsRead
  <2> QED
    BY <1>1, <2>1, <2>2, <2>3, FilesWritten, FilesDone
<1>10. CASE deleteMediaRow(c)
  <2>1. /\ call[c].op = "deleteMedia" /\ media' = [media EXCEPT ![on].kind = "DELETED"]
        /\ UNCHANGED <<plan, pins, cover>>
        /\ \/ call[c].was = on /\ Continue(c, [call[c] EXCEPT !.op = "uncover"])
           \/ call[c].was # on /\ Done(c)
    BY <1>10 DEF deleteMediaRow
  <2>2. FileRows' /\ \A m \in Media \ {on} : media'[m] = media[m]
    BY <1>2, <2>1 DEF FileRows
  <2>3. PinsPlaced'
    BY <1>1, <1>2, <2>1 DEF PinsPlaced, There
  <2>4. alone => OnePrimaryOf'
    BY <1>3, <2>1 DEF OnePrimaryOf
  <2>5. alone /\ cover \in Media => Covered(cover) /\ call[c].was = cover
    BY <1>1, <1>3, <2>1 DEF CoverThere, Running, FilesAsRead
  <2>6. CASE call[c].was # on /\ Done(c)
    <3>1. alone => CoverThere'
      BY <2>1, <2>2, <2>5, <2>6 DEF CoverThere, Covered
    <3> QED
      BY <1>1, <2>2, <2>3, <2>4, <2>6, <3>1, FilesWritten, FilesDone
  <2>7. CASE Continue(c, [call[c] EXCEPT !.op = "uncover"])
    <3> DEFINE j == [call[c] EXCEPT !.op = "uncover"]
    <3>1. call' = [call EXCEPT ![c] = j]
      BY <2>7 DEF Continue
    <3>2. j.op = "uncover" /\ j # Idle
      BY <1>1 DEF Formed, Fields, Idle
    <3> HIDE DEF j
    <3>3. call'[c] = j
      BY <1>1, <3>1
    <3>4. CoverThere' /\ FilesAsked(call[c])' /\ FilesAsRead(call[c])'
      BY <3>2, <3>3 DEF CoverThere, Running, FilesAsked, FilesAsRead
    <3> QED
      BY <2>2, <2>3, <2>4, <3>4, FilesWritten
  <2> QED
    BY <2>1, <2>6, <2>7
<1>11. CASE uncover(c)
  <2>1. call[c].op = "uncover" /\ Done(c) /\ cover' = Nobody /\ UNCHANGED <<plan, pins, media>>
    BY <1>11 DEF uncover
  <2>2. FileRows' /\ PinsPlaced'
    BY <1>1, <1>2, <2>1 DEF FileRows, PinsPlaced, There
  <2>3. alone => CoverThere' /\ OnePrimaryOf'
    BY <1>3, <2>1, FilesAssumption DEF CoverThere, OnePrimaryOf
  <2> QED
    BY <1>1, <2>1, <2>2, <2>3, FilesWritten, FilesDone
<1> QED
  BY <1>4, <1>5, <1>6, <1>7, <1>8, <1>9, <1>10, <1>11 DEF FileCommits


LEMMA FilesStep ==
  ASSUME ShapeInv, UnitsInv, FilesInv, [Next]_vars
  PROVE  FilesInv'
<1>1. Shaped /\ PhotoRows
  BY DEF ShapeInv, PhotosInv
<1>2. UNCHANGED part
  BY <1>1, EveryStep
<1>3. CASE part # "FILES"
  <2>1. UNCHANGED files
    <3>1. CASE part = "LISTINGS"
      BY <1>1, <3>1, ListingSteps
    <3>2. CASE part = "PROJECT"
      BY <1>1, <3>2, ProjectSteps
    <3> QED
      BY <1>1, <1>3, <3>1, <3>2 DEF Shaped
  <2> QED
    BY <1>2, <1>3, <2>1 DEF FilesInv, FileRows, NoFiles, PinsPlaced, files
<1>4. CASE part = "FILES"
  <2>1. ASSUME NEW c \in Calls, Step(c), ProjectRequest(c), UNCHANGED files
        PROVE  FilesInv'
    <3>1. PICK j : Asks(c, j) /\ (j # Idle => ProjectRead(j))
      BY <2>1 DEF ProjectRequest
    <3>2. call'[c] = j /\ ~Running(c) /\ UNCHANGED unit
      BY <1>1, <1>2, <2>1, <3>1, Opens DEF Asks, Idling, Running, ProjectRequest
    <3>3. Running(c)' => call'[c].op \notin {"pin", "media", "deleteMedia", "cover", "planRow"}
      BY <3>1, <3>2 DEF Running, ProjectRead, ProjectOps
    <3> QED
      BY <1>1, <1>2, <1>4, <2>1, <3>2, <3>3, FilesUnwritten
  <2>2. ASSUME NEW c \in Calls, Step(c), recordChanges(c), UNCHANGED files
        PROVE  FilesInv'
    <3>1. call[c].op = "record" /\ Done(c) /\ UNCHANGED unit
      BY <2>2 DEF recordChanges
    <3>2. Running(c) /\ Formed(call[c])
      BY <1>1, <3>1 DEF Running, Idle, Shaped
    <3>3. call'[c] = After(call[c])
      BY <1>1, <1>2, <3>1, <3>2, IsDone
    <3>4. Running(c)' => call'[c].op \in Later
      BY <3>2, <3>3, AfterFormed DEF Running
    <3>5. Running(c)' => call'[c].op \notin {"pin", "media", "deleteMedia", "cover", "planRow"}
      BY <3>4 DEF Later
    <3> QED
      BY <1>1, <1>2, <1>4, <2>2, <3>1, <3>5, FilesUnwritten
  <2>3. ASSUME NEW c \in Calls, Step(c), UNCHANGED <<projects, files>>, PricingStep(c) \/ Abandon(c)
        PROVE  FilesInv'
    <3>1. Running(c)' => call'[c].op \in Later \cup {"persist"}
      BY <1>1, <1>2, <2>3, PricingGoesOn
    <3>2. Running(c)' => call'[c].op \notin {"pin", "media", "deleteMedia", "cover", "planRow"}
      BY <3>1 DEF Later
    <3>3. call[c].op # "uncover" \/ disturbed'
      BY <2>3 DEF PricingStep, recalculate, persistComputation, replaceManualLines, Abandon
    <3>4. UNCHANGED unit
      BY <2>3 DEF projects
    <3> QED
      BY <1>1, <1>2, <1>4, <2>3, <3>2, <3>3, <3>4, FilesUnwritten
  <2>4. CASE UNCHANGED <<running, projects, files>>
    BY <1>2, <1>4, <2>4 DEF FilesInv, FileRows, PinsPlaced, There, FilesAsked, FilesAsRead, CoverThere,
       Covered, OnePrimaryOf, Running, running, projects, files
  <2> QED
    BY <1>1, <1>2, <1>4, <2>1, <2>2, <2>3, <2>4, FileSteps, FilesAskedFor, FilesCommitted, FilesWithoutUnit
<1> QED
  BY <1>3, <1>4

LEMMA FilesBegin ==
  ASSUME Init
  PROVE  FilesInv
<1>1. \A c \in Calls : ~Running(c)
  BY DEF Init, HandlersInit, Running
<1> QED
  BY <1>1, FilesAssumption
     DEF Init, FilesInit, FilesInv, FileRows, PinsPlaced, NoFiles, CoverThere, OnePrimaryOf

-----------------------------------------------------------------------------
(* The invariants.                                                          *)

CatalogueInv ==
    /\ ShapeInv /\ LocatedInv /\ PricesInv
    /\ HistoryInv /\ UnitsInv /\ NoticesMatchUpdates /\ FilesInv

\* The inductive invariant holds, for any listings, units, files and handlers: what a handler
\* has still to write (its steps ahead) accounts for every row that is not as it should be.
THEOREM CatalogueInvariant == Spec => []CatalogueInv
<1>1. Init => CatalogueInv
  <2>1. Init => NoticesMatchUpdates
    BY DEF Init, ProjectsInit, NoticesMatchUpdates
  <2> QED
    BY <2>1, ShapeInit, LocatedInit, PricesBegin, HistoryBegin, UnitsBegin, FilesBegin DEF CatalogueInv
<1>2. CatalogueInv /\ [Next]_vars => CatalogueInv'
  BY ShapeStep, LocatedStep, PricesStep, HistoryStep, UnitsStep, NoticesStep, FilesStep
     DEF CatalogueInv, ShapeInv, PhotosInv
<1> QED
  BY <1>1, <1>2, PTL DEF Spec

LEMMA AtRestIdle ==
  ASSUME Undisturbed
  PROVE  ~disturbed /\ \A c \in Calls : ~Running(c)
  BY DEF Undisturbed, AtRest, Idling, Running

\* However handlers overlap, fail or are repeated, a property past the PM's desk was located on
\* site: verifyProperty checks it, and nothing takes it back (property.service.ts).
THEOREM LocationCorrect == Spec => []ListedWasLocated
<1>1. CatalogueInv => ListedWasLocated
  BY DEF CatalogueInv, LocatedInv
<1> QED
  BY <1>1, CatalogueInvariant, PTL

\* Handlers that do not overlap leave a gallery at most one primary photo, deleteImage included,
\* which reads whether the photo is the primary one before its transaction.
THEOREM PhotosCorrect == Spec => []OnePrimaryPhoto
<1>1. CatalogueInv => OnePrimaryPhoto
  <2> SUFFICES ASSUME CatalogueInv, Undisturbed, NEW p \in Properties
               PROVE  Cardinality({m \in Images : gallery[p][m].primary}) <= 1
    BY DEF OnePrimaryPhoto
  <2> DEFINE S == {m \in Images : gallery[p][m].primary}
  <2>1. \A m, n \in S : m = n
    BY AtRestIdle DEF CatalogueInv, ShapeInv, PhotosInv, OnePrimary
  <2>2. CASE S = {}
    BY <2>2, FS_EmptySet
  <2>3. CASE S # {}
    <3>1. PICK m \in S : TRUE
      BY <2>3
    <3>2. S = {m}
      BY <2>1, <3>1
    <3> HIDE DEF S
    <3>3. Cardinality(S) = 1
      BY <3>2, FS_Singleton
    <3> QED
      BY <3>3 DEF S
  <2> QED
    BY <2>2, <2>3
<1> QED
  BY <1>1, CatalogueInvariant, PTL

\* Whatever a handler edits, it recomputes the stored price and rewrites the lines entered by hand
\* as they were entered (pricing.service.ts), as long as no other handler overlaps.
THEOREM PricesCorrect == Spec => []PricesFresh
<1>1. CatalogueInv => PricesFresh
  <2> SUFFICES ASSUME CatalogueInv, Undisturbed PROVE priced = edited /\ lines = manual
    BY DEF PricesFresh
  <2>1. lines = manual /\ \A i \in PricedItems : priced[i] = edited[i]
    BY AtRestIdle DEF CatalogueInv, PricesInv, Repriced
  <2> QED
    BY <2>1 DEF CatalogueInv, PricesInv
<1> QED
  BY <1>1, CatalogueInvariant, PTL

\* The project's rows agree: units shown with it, one history row a change, the notices of the
\* updates there are, the cover a stored image, the pins on plans and units that are there, and
\* one primary plan.
THEOREM RecordsCorrect == Spec => []ProjectRecordsAgree
<1>1. CatalogueInv => ProjectRecordsAgree
  <2> SUFFICES ASSUME CatalogueInv PROVE ProjectRecordsAgree
    OBVIOUS
  <2>1. UnitsShownWithProject
    BY AtRestIdle DEF CatalogueInv, UnitsInv, AllShown, UnitsShownWithProject
  <2>2. HistoryComplete
    BY AtRestIdle DEF CatalogueInv, HistoryInv, SomeOwed, HistoryComplete
  <2>3. NoticesMatchUpdates /\ PinsPlaced
    BY DEF CatalogueInv, FilesInv
  <2>4. CoverShown
    BY AtRestIdle, FilesAssumption DEF CatalogueInv, FilesInv, NoFiles, CoverThere, Covered, CoverShown
  <2>5. OnePrimaryPlan
    BY AtRestIdle DEF CatalogueInv, FilesInv, NoFiles, OnePrimaryOf, OnePrimaryPlan
  <2> QED
    BY <2>1, <2>2, <2>3, <2>4, <2>5 DEF ProjectRecordsAgree
<1> QED
  BY <1>1, CatalogueInvariant, PTL
==============================================================================
