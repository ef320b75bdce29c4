--------------------------- MODULE SiteVisitsProofs ---------------------------
(***************************************************************************)
(* What is proved about SiteVisits for every set of visits, items,         *)
(* employees and concurrent handlers.  The invariant has a part for what   *)
(* the running handlers are about to write (Formed), one for what their    *)
(* visits still owe to what they read (Standing), and one for each thing   *)
(* they write: the rows, the feedback, the escalations and the lead.       *)
(***************************************************************************)
EXTENDS SiteVisits, TLAPS

\* What a write by id does to whatever row it finds: a visit is never finished by it, never
\* made a visit of the company again, and loses its PM only by becoming a direct one.
Writes(set) ==
    \A row \in Row :
        LET new == Columns(set, row) IN
        /\ new \in Row
        /\ new.status \in {row.status} \cup (VisitStatus \ {"COMPLETED"})
        /\ new.type \in {row.type, "DIRECT"}
        /\ new.pm = None => row.pm = None \/ new.type = "DIRECT"

\* A write that leaves the status, the type and the day alone.
Plain(set) ==
    \A row \in Row :
        LET new == Columns(set, row) IN
        new.status = row.status /\ new.type = row.type /\ new.day = row.day

Completion == [status : {"COMPLETED"}, liked : SUBSET Items, refused : SUBSET Items,
               no : BOOLEAN, photo : BOOLEAN]
Outcome == [status : {"COMPLETED"}, no : BOOLEAN]
WalkIns == {row \in Row : row.type = "WALK_IN" /\ row.status = "COMPLETED"}

ByVisit == {"write", "reassign", "complete", "mark", "log", "route", "direct", "advance",
            "openEscalation", "tell"}
ToVisit == {"write", "reassign", "complete", "direct"}

Formed(r) ==
    /\ r = [op |-> r.op, v |-> r.v, set |-> r.set, who |-> r.who, todo |-> r.todo]
    /\ r.op \in ByVisit => r.v \in VisitIds
    /\ r.op \in {"write", "reassign"} => Writes(r.set)
    /\ r.op = "complete" => r.set \in Completion
    /\ r.op = "direct" => r.set \in Outcome
    /\ r.op = "walkIn" => r.set \in WalkIns
    /\ r.op \in {"openEscalation", "tell"} => r.todo \in Seq({"MD", "MARKETING"})

\* The lead is past its visits only if one took place.
Visited == \E v \in VisitIds : completions[v] # <<>>
Past == {"SITE_VISIT_COMPLETED", "NEGOTIATION"}

Standing(r) ==
    /\ r.op \in ByVisit => visit[r.v].status # "ABSENT"
    /\ r.op \in ToVisit /\ visit[r.v].type = "WALK_IN" => r.op = "write" /\ Plain(r.set)
    /\ r.op = "tell" => escalation[r.v] # None
    /\ r.op = "leadTx" /\ Head(r.todo) \in Past => Visited

CallsInv ==
    /\ call \in [Calls -> {call[c] : c \in Calls}]
    /\ \A c \in Calls : Formed(call[c]) /\ Standing(call[c])

VisitSound(v) ==
    /\ visit[v].type = "WALK_IN" => visit[v].status = "COMPLETED"
    /\ visit[v].status = "COMPLETED" => completions[v] # <<>>
    /\ visit[v].status # "ABSENT" /\ visit[v].type = "STANDARD" /\ visit[v].pm = None
         => escalation[v] # None

VisitsInv ==
    /\ visit \in [VisitIds -> Row]
    /\ \A v \in VisitIds : VisitSound(v)
    /\ WalkInOnce

FeedbackInv ==
    /\ feedback \in [VisitIds -> {"NONE", "SENT", "SUBMITTED"}]
    /\ completions \in [VisitIds -> Seq({"ASKED", "SILENT"})]
    /\ \A v \in VisitIds : feedback[v] = "NONE" =>
         \A i \in DOMAIN completions[v] : completions[v][i] = "SILENT"
    /\ CompletedOnce

\* Everybody told is marked, once.
Told(v) ==
    /\ visit[v].status = "ABSENT" => escalation[v] = None
    /\ escalation[v] = None => told[v] = <<>>
    /\ \A i \in DOMAIN told[v] : told[v][i] \in escalation[v]
    /\ \A i, j \in DOMAIN told[v] : told[v][i] = told[v][j] => i = j

ToldInv ==
    /\ escalation \in [VisitIds -> (SUBSET {"MD", "MARKETING"}) \cup {None}]
    /\ told \in [VisitIds -> Seq({"MD", "MARKETING"})]
    /\ \A v \in VisitIds : Told(v)

IInv == CallsInv /\ VisitsInv /\ FeedbackInv /\ ToldInv /\ NoDealWithoutVisit

-----------------------------------------------------------------------------
(* Rows and what is written to them.                                        *)

Col(set, row, f) == IF f \in DOMAIN set THEN set[f] ELSE row[f]

LEMMA ColumnsRow ==
  ASSUME NEW set, NEW row \in Row
  PROVE  Columns(set, row) =
           [status |-> Col(set, row, "status"), type |-> Col(set, row, "type"),
            pm |-> Col(set, row, "pm"), agent |-> Col(set, row, "agent"),
            tc |-> Col(set, row, "tc"), day |-> Col(set, row, "day"),
            items |-> Col(set, row, "items"), liked |-> Col(set, row, "liked"),
            refused |-> Col(set, row, "refused"), no |-> Col(set, row, "no"),
            photo |-> Col(set, row, "photo")]
<1>1. DOMAIN row = {"status", "type", "pm", "agent", "tc", "day", "items", "liked", "refused",
                    "no", "photo"}
  BY DEF Row
<1> QED
  BY <1>1 DEF Columns, Col

\* Two columns are never all that matters: a write that touches only these is a write.
LEMMA Written ==
  ASSUME NEW set, DOMAIN set \subseteq {"status", "type", "pm", "agent", "day", "photo"},
         "status" \in DOMAIN set => set["status"] \in VisitStatus \ {"COMPLETED"},
         "type" \in DOMAIN set => set["type"] = "DIRECT",
         "pm" \in DOMAIN set =>
            /\ set["pm"] \in ProjectPMs \cup Directors \cup {None}
            /\ set["pm"] = None => "type" \in DOMAIN set,
         "agent" \in DOMAIN set => set["agent"] \in ProjectPMs \cup {None},
         "day" \in DOMAIN set => set["day"] \in 0 .. Days,
         "photo" \in DOMAIN set => set["photo"] \in BOOLEAN
  PROVE  Writes(set)
<1> SUFFICES ASSUME NEW row \in Row
             PROVE  LET new == Columns(set, row) IN
                    /\ new \in Row
                    /\ new.status \in {row.status} \cup (VisitStatus \ {"COMPLETED"})
                    /\ new.type \in {row.type, "DIRECT"}
                    /\ new.pm = None => row.pm = None \/ new.type = "DIRECT"
  BY DEF Writes
<1>1. /\ Col(set, row, "status") \in VisitStatus \cup {"ABSENT"}
      /\ Col(set, row, "status") \in {row.status} \cup (VisitStatus \ {"COMPLETED"})
      /\ Col(set, row, "type") \in {row.type, "DIRECT"}
      /\ Col(set, row, "type") \in {"STANDARD", "DIRECT", "WALK_IN"}
  BY DEF Col, Row
<1>2. /\ Col(set, row, "pm") \in ProjectPMs \cup Directors \cup {None}
      /\ Col(set, row, "pm") = None => row.pm = None \/ Col(set, row, "type") = "DIRECT"
      /\ Col(set, row, "agent") \in ProjectPMs \cup {None}
      /\ Col(set, row, "tc") = row.tc /\ Col(set, row, "day") \in 0 .. Days
  BY DEF Col, Row
<1>3. /\ Col(set, row, "items") = row.items /\ Col(set, row, "liked") = row.liked
      /\ Col(set, row, "refused") = row.refused /\ Col(set, row, "no") = row.no
      /\ Col(set, row, "photo") \in BOOLEAN
  BY DEF Col, Row
<1> QED
  BY <1>1, <1>2, <1>3, ColumnsRow DEF Row

LEMMA StatusWritten ==
  ASSUME NEW to \in VisitStatus \ {"COMPLETED"}
  PROVE  Writes(Moved(to, <<>>))
<1>1. DOMAIN Moved(to, <<>>) = {"status"} /\ Moved(to, <<>>)["status"] = to
  BY DEF Moved
<1> QED
  BY <1>1, Written

LEMMA PmWritten ==
  ASSUME NEW to \in VisitStatus \ {"COMPLETED"}, NEW pm \in ProjectPMs \cup Directors
  PROVE  Writes(Moved(to, [pm |-> pm]))
<1>1. /\ DOMAIN Moved(to, [pm |-> pm]) = {"status", "pm"}
      /\ Moved(to, [pm |-> pm])["status"] = to /\ Moved(to, [pm |-> pm])["pm"] = pm
  BY DEF Moved
<1>2. pm # None
  BY SiteVisitsAssumption DEF Employees
<1> QED
  BY <1>1, <1>2, Written

LEMMA PhotoWritten == Writes([photo |-> TRUE]) /\ Plain([photo |-> TRUE])
<1> DEFINE set == [photo |-> TRUE]
<1>1. DOMAIN set = {"photo"} /\ set["photo"] = TRUE
  OBVIOUS
<1> HIDE DEF set
<1>2. Writes(set)
  BY <1>1, Written
<1>3. Plain(set)
  <2> SUFFICES ASSUME NEW row \in Row
               PROVE  LET new == Columns(set, row) IN
                      new.status = row.status /\ new.type = row.type /\ new.day = row.day
    BY DEF Plain
  <2> QED
    BY <1>1, ColumnsRow DEF Col
<1> QED
  BY <1>2, <1>3 DEF set

LEMMA OtherWrites ==
  /\ \A agent \in ProjectPMs : Writes([agent |-> agent])
  /\ \A to \in ProjectPMs : Writes([status |-> "PENDING_ACCEPTANCE", pm |-> to])
  /\ \A day \in 1 .. Days : /\ Writes([status |-> "RESCHEDULE_REQUESTED", day |-> day])
                            /\ Writes([day |-> day, status |-> "CONFIRMED"])
  /\ Writes([type |-> "DIRECT", status |-> "CONFIRMED", pm |-> None, agent |-> None])
  /\ Writes([status |-> "CANCELLED"])
<1>1. ASSUME NEW agent \in ProjectPMs PROVE Writes([agent |-> agent])
  <2> DEFINE set == [agent |-> agent]
  <2>1. DOMAIN set = {"agent"} /\ set["agent"] = agent
    OBVIOUS
  <2> HIDE DEF set
  <2>2. Writes(set)
    BY <2>1, Written
  <2> QED
    BY <2>2 DEF set
<1>2. ASSUME NEW to \in ProjectPMs PROVE Writes([status |-> "PENDING_ACCEPTANCE", pm |-> to])
  <2> DEFINE set == [status |-> "PENDING_ACCEPTANCE", pm |-> to]
  <2>1. /\ DOMAIN set = {"status", "pm"} /\ set["pm"] = to
        /\ set["status"] = "PENDING_ACCEPTANCE"
    OBVIOUS
  <2>2. to # None
    BY SiteVisitsAssumption DEF Employees
  <2> HIDE DEF set
  <2>3. Writes(set)
    BY <2>1, <2>2, Written DEF VisitStatus, Reschedulable
  <2> QED
    BY <2>3 DEF set
<1>3. ASSUME NEW day \in 1 .. Days
      PROVE  /\ Writes([status |-> "RESCHEDULE_REQUESTED", day |-> day])
             /\ Writes([day |-> day, status |-> "CONFIRMED"])
  <2> DEFINE asked == [status |-> "RESCHEDULE_REQUESTED", day |-> day]
             moved == [day |-> day, status |-> "CONFIRMED"]
  <2>1. /\ DOMAIN asked = {"status", "day"} /\ asked["day"] = day
        /\ asked["status"] = "RESCHEDULE_REQUESTED"
        /\ DOMAIN moved = {"status", "day"} /\ moved["day"] = day
        /\ moved["status"] = "CONFIRMED"
    OBVIOUS
  <2>2. day \in 0 .. Days
    BY SiteVisitsAssumption
  <2> HIDE DEF asked, moved
  <2>3. Writes(asked)
    BY <2>1, <2>2, Written DEF VisitStatus, Cancellable
  <2>4. Writes(moved)
    BY <2>1, <2>2, Written DEF VisitStatus, Reschedulable
  <2> QED
    BY <2>3, <2>4 DEF asked, moved
<1>4. Writes([type |-> "DIRECT", status |-> "CONFIRMED", pm |-> None, agent |-> None])
  <2> DEFINE set == [type |-> "DIRECT", status |-> "CONFIRMED", pm |-> None, agent |-> None]
  <2>1. /\ DOMAIN set = {"type", "status", "pm", "agent"} /\ set["type"] = "DIRECT"
        /\ set["status"] = "CONFIRMED" /\ set["pm"] = None /\ set["agent"] = None
    OBVIOUS
  <2> HIDE DEF set
  <2>2. Writes(set)
    BY <2>1, Written DEF VisitStatus, Reschedulable
  <2> QED
    BY <2>2 DEF set
<1>5. Writes([status |-> "CANCELLED"])
  <2> DEFINE set == [status |-> "CANCELLED"]
  <2>1. DOMAIN set = {"status"} /\ set["status"] = "CANCELLED"
    OBVIOUS
  <2> HIDE DEF set
  <2>2. Writes(set)
    BY <2>1, Written DEF VisitStatus, Finished
  <2> QED
    BY <2>2 DEF set
<1> QED
  BY <1>1, <1>2, <1>3, <1>4, <1>5

LEMMA TransitionsOpen ==
  \A t \in validTransitions :
     /\ t[1] \notin Finished /\ t[3] \in VisitStatus
     /\ t[3] = "COMPLETED" => t[2] = "COMPLETE"
  BY DEF validTransitions, Finished, VisitStatus, Reschedulable, Cancellable

\* A finished visit goes nowhere, and only COMPLETE completes one.
LEMMA AfterOpen ==
  ASSUME NEW from, NEW action, NEW to \in After(from, action)
  PROVE  /\ from \notin Finished /\ to \in VisitStatus
         /\ action # "COMPLETE" => to # "COMPLETED"
  BY TransitionsOpen DEF After

-----------------------------------------------------------------------------
(* The running handlers.                                                    *)

\* What no step takes back.
Steady ==
    \A v \in VisitIds :
        /\ visit[v].status # "ABSENT" =>
             /\ visit'[v].status # "ABSENT"
             /\ visit'[v].type = "WALK_IN" => visit[v].type = "WALK_IN"
        /\ escalation[v] # None => escalation'[v] # None
        /\ completions[v] # <<>> => completions'[v] # <<>>

LEMMA StillStanding ==
  ASSUME Steady, NEW r, Formed(r), Standing(r)
  PROVE  Standing(r)'
<1>1. Visited => Visited'
  BY DEF Steady, Visited
<1>2. ASSUME r.op \in ByVisit
      PROVE  /\ visit'[r.v].status # "ABSENT"
             /\ r.op \in ToVisit /\ visit'[r.v].type = "WALK_IN" => r.op = "write" /\ Plain(r.set)
             /\ r.op = "tell" => escalation'[r.v] # None
  <2>1. r.v \in VisitIds /\ visit[r.v].status # "ABSENT"
    BY <1>2 DEF Formed, Standing
  <2> QED
    BY <2>1 DEF Steady, Standing
<1>3. r.op \in ToVisit \/ r.op = "tell" => r.op \in ByVisit
  BY DEF ToVisit, ByVisit
<1> QED
  BY <1>1, <1>2, <1>3 DEF Standing

LEMMA OthersStand ==
  ASSUME CallsInv, Steady, NEW c \in Calls, NEW r, call' = [call EXCEPT ![c] = r],
         Formed(r), Standing(r)'
  PROVE  CallsInv'
<1>1. call' = [d \in Calls |-> IF d = c THEN r ELSE call[d]]
  BY DEF CallsInv
<1>2. ASSUME NEW d \in Calls
      PROVE  (Formed(call[d]) /\ Standing(call[d]))'
  <2>1. CASE d = c
    <3>1. call'[d] = r
      BY <1>1, <2>1
    <3> QED
      BY <3>1 DEF Formed, Standing
  <2>2. CASE d # c
    <3>1. PICK q : q = call[d]
      OBVIOUS
    <3>2. Formed(q) /\ Standing(q)
      BY <3>1 DEF CallsInv
    <3>3. Standing(q)'
      BY <3>2, StillStanding
    <3>4. call'[d] = q
      BY <1>1, <2>2, <3>1
    <3> QED
      BY <3>2, <3>3, <3>4 DEF Formed, Standing
  <2> QED
    BY <2>1, <2>2
<1> QED
  BY <1>1, <1>2 DEF CallsInv

LEMMA AllStand ==
  ASSUME CallsInv, Steady, call' = call
  PROVE  CallsInv'
<1>1. ASSUME NEW d \in Calls
      PROVE  (Formed(call[d]) /\ Standing(call[d]))'
  <2>1. PICK q : q = call[d]
    OBVIOUS
  <2>2. Formed(q) /\ Standing(q) /\ call'[d] = q
    BY <2>1 DEF CallsInv
  <2>3. Standing(q)'
    BY <2>2, StillStanding
  <2> QED
    BY <2>2, <2>3 DEF Formed, Standing
<1> QED
  BY <1>1 DEF CallsInv

LEMMA IdleStands == Formed(Idle) /\ Standing(Idle)
  BY DEF Idle, Formed, Standing, ByVisit, ToVisit

-----------------------------------------------------------------------------
(* Requests: what a handler reads before it writes.                         *)

Unmoved == UNCHANGED <<visit, lead, escalation, feedback, told, completions>>

LEMMA SteadyStill ==
  ASSUME UNCHANGED <<visit, escalation, completions>>
  PROVE  Steady
  BY DEF Steady

LEMMA UnmovedKeeps ==
  ASSUME IInv, Unmoved, CallsInv'
  PROVE  IInv'
<1>1. VisitsInv'
  BY DEF IInv, VisitsInv, VisitSound, WalkInOnce, Unmoved
<1>2. FeedbackInv'
  BY DEF IInv, FeedbackInv, CompletedOnce, Unmoved
<1>3. ToldInv'
  BY DEF IInv, ToldInv, Told, Unmoved
<1>4. NoDealWithoutVisit'
  BY DEF IInv, NoDealWithoutVisit, Unmoved
<1> QED
  BY <1>1, <1>2, <1>3, <1>4 DEF IInv

LEMMA CallKeeps ==
  ASSUME IInv, Unmoved, NEW c \in Calls, NEW r, call' = [call EXCEPT ![c] = r],
         Formed(r), Standing(r)
  PROVE  IInv'
<1>1. Steady
  BY SteadyStill DEF Unmoved
<1>2. Standing(r)'
  BY <1>1, StillStanding
<1> QED
  BY <1>1, <1>2, OthersStand, UnmovedKeeps DEF IInv

LEMMA FinishKeeps ==
  ASSUME IInv, Unmoved, NEW c \in Calls, Finish(c)
  PROVE  IInv'
  BY CallKeeps, IdleStands DEF Finish

LEMMA AskKeeps ==
  ASSUME IInv, NEW c \in Calls, NEW op \in ToVisit, NEW v \in VisitIds, NEW set, NEW who,
         Ask(c, op, v, set, who),
         op \in {"write", "reassign"} => Writes(set),
         op = "complete" => set \in Completion,
         op = "direct" => set \in Outcome,
         visit[v].type = "WALK_IN" => op = "write" /\ Plain(set)
  PROVE  IInv'
<1> DEFINE r == [op |-> op, v |-> v, set |-> set, who |-> who, todo |-> <<>>]
<1>1. call' = [call EXCEPT ![c] = r] /\ Unmoved /\ visit[v].status # "ABSENT"
  BY DEF Ask, Begin, Unmoved, side
<1>2. r.op = op /\ r.v = v /\ r.set = set /\ r.who = who /\ r.todo = <<>>
  OBVIOUS
<1>3. r = [op |-> r.op, v |-> r.v, set |-> r.set, who |-> r.who, todo |-> r.todo]
  OBVIOUS
<1> HIDE DEF r
<1>4. Formed(r)
  BY <1>2, <1>3 DEF Formed, ByVisit, ToVisit
<1>5. Standing(r)
  BY <1>1, <1>2 DEF Standing, ByVisit, ToVisit
<1> QED
  BY <1>1, <1>4, <1>5, CallKeeps

\* A transition that the workflow allows, with what else it writes.
LEMMA TransitionKeeps ==
  ASSUME IInv, NEW c \in Calls, NEW v \in VisitIds, NEW action, NEW set,
         action # "COMPLETE",
         \A to \in VisitStatus \ {"COMPLETED"} : Writes(Moved(to, set)),
         Transition(c, v, action, set)
  PROVE  IInv'
<1>1. PICK to \in After(visit[v].status, action) :
        Ask(c, "write", v, Moved(to, set), None)
  BY DEF Transition
<1>2. visit[v].status \notin Finished /\ to \in VisitStatus \ {"COMPLETED"}
  <2>1. PICK from : from = visit[v].status
    OBVIOUS
  <2> QED
    BY <2>1, AfterOpen
<1>3. visit[v].type # "WALK_IN"
  BY <1>2 DEF IInv, VisitsInv, VisitSound, Finished
<1> QED
  BY <1>1, <1>2, <1>3, AskKeeps DEF ToVisit

LEMMA LeadCall ==
  ASSUME NEW v, NEW todo
  PROVE  LET r == [Idle EXCEPT !.op = "lead", !.v = v, !.todo = todo]
         IN Formed(r) /\ Standing(r)
<1> DEFINE r == [Idle EXCEPT !.op = "lead", !.v = v, !.todo = todo]
<1>1. r = [op |-> "lead", v |-> v, set |-> <<>>, who |-> None, todo |-> todo]
  <2> DEFINE one == [Idle EXCEPT !.op = "lead"]
             two == [one EXCEPT !.v = v]
  <2>1. one = [op |-> "lead", v |-> None, set |-> <<>>, who |-> None, todo |-> <<>>]
    BY DEF Idle
  <2> HIDE DEF one
  <2>2. two = [op |-> "lead", v |-> v, set |-> <<>>, who |-> None, todo |-> <<>>]
    BY <2>1
  <2> HIDE DEF two
  <2>3. r = [two EXCEPT !.todo = todo]
    BY DEF two, one
  <2> QED
    BY <2>2, <2>3
<1> HIDE DEF r
<1>2. Formed(r) /\ Standing(r)
  BY <1>1 DEF Formed, Standing, ByVisit, ToVisit
<1> QED
  BY <1>2 DEF r

\* The call after a row that was written at once.
LEMMA FollowUpCall ==
  ASSUME NEW c \in Calls, NEW v, NEW todo, FollowUp(c, v, todo)
  PROVE  \E r : call' = [call EXCEPT ![c] = r] /\ Formed(r) /\ Standing(r)
  BY LeadCall, IdleStands DEF FollowUp

-----------------------------------------------------------------------------
(* Rows that are written.                                                   *)

LEMMA RowKeeps ==
  ASSUME VisitsInv, NEW v \in VisitIds, NEW new \in Row, visit' = [visit EXCEPT ![v] = new],
         new.status # "ABSENT",
         new.type = "WALK_IN" =>
            /\ visit[v].type = "WALK_IN"
            /\ new.status = visit[v].status /\ new.day = visit[v].day,
         new.status = "COMPLETED" => completions'[v] # <<>>,
         new.type = "STANDARD" /\ new.pm = None => escalation'[v] # None,
         \A w \in VisitIds : /\ escalation[w] # None => escalation'[w] # None
                             /\ completions[w] # <<>> => completions'[w] # <<>>
  PROVE  VisitsInv' /\ Steady
<1>1. visit' \in [VisitIds -> Row]
  BY DEF VisitsInv
<1>2. visit'[v] = new /\ \A w \in VisitIds \ {v} : visit'[w] = visit[w]
  BY DEF VisitsInv
<1>3. Steady
  BY <1>2 DEF Steady
<1>4. ASSUME NEW w \in VisitIds PROVE VisitSound(w)'
  BY <1>2 DEF VisitsInv, VisitSound
<1>5. \A w \in VisitIds : visit'[w].type = "WALK_IN" =>
         /\ visit[w].type = "WALK_IN" /\ visit[w].status # "ABSENT"
         /\ visit'[w].day = visit[w].day
  BY <1>2 DEF VisitsInv, VisitSound
<1>6. WalkInOnce'
  BY <1>5 DEF VisitsInv, WalkInOnce
<1> QED
  BY <1>1, <1>3, <1>4, <1>6 DEF VisitsInv

LEMMA ToldKeeps ==
  ASSUME ToldInv, Steady, UNCHANGED <<escalation, told>>
  PROVE  ToldInv'
  BY DEF ToldInv, Told, Steady

LEMMA FeedbackKeeps ==
  ASSUME FeedbackInv, UNCHANGED <<feedback, completions>>
  PROVE  FeedbackInv'
  BY DEF FeedbackInv, CompletedOnce

LEMMA LeadKeeps ==
  ASSUME NoDealWithoutVisit, Steady, UNCHANGED lead
  PROVE  NoDealWithoutVisit'
  BY DEF NoDealWithoutVisit, Steady

\* A row is written, the rest of the records is left alone.
LEMMA RowOnly ==
  ASSUME IInv, NEW v \in VisitIds, NEW new \in Row, visit' = [visit EXCEPT ![v] = new],
         new.status # "ABSENT",
         new.type = "WALK_IN" =>
            /\ visit[v].type = "WALK_IN"
            /\ new.status = visit[v].status /\ new.day = visit[v].day,
         new.status = "COMPLETED" => visit[v].status = "COMPLETED",
         new.type = "STANDARD" /\ new.pm = None => escalation[v] # None,
         UNCHANGED <<lead, escalation, feedback, told, completions>>,
         NEW c \in Calls, NEW r, call' = [call EXCEPT ![c] = r], Formed(r), Standing(r)'
  PROVE  IInv'
<1>1. VisitsInv' /\ Steady
  <2>1. new.status = "COMPLETED" => completions'[v] # <<>>
    BY DEF IInv, VisitsInv, VisitSound
  <2> QED
    BY <2>1, RowKeeps DEF IInv
<1>2. FeedbackInv'
  BY FeedbackKeeps DEF IInv
<1>3. ToldInv'
  BY <1>1, ToldKeeps DEF IInv
<1>4. NoDealWithoutVisit'
  BY <1>1, LeadKeeps DEF IInv
<1>5. CallsInv'
  BY <1>1, OthersStand DEF IInv
<1> QED
  BY <1>1, <1>2, <1>3, <1>4, <1>5 DEF IInv

LEMMA bookVisitKeeps ==
  ASSUME IInv, NEW c \in Calls, NEW e, NEW v \in VisitIds, NEW row \in Row,
         row.status \notin {"ABSENT", "COMPLETED"}, row.type # "WALK_IN",
         bookVisit(c, e, v, row)
  PROVE  IInv'
<1>1. visit' = [visit EXCEPT ![v] = row] /\ visit[v].status = "ABSENT"
  BY DEF bookVisit, NoVisit
<1>2. escalation[v] = None /\ told[v] = <<>>
  BY <1>1 DEF IInv, ToldInv, Told
<1>3. CASE row.type = "STANDARD" /\ row.pm = None
  <2>1. /\ escalation' = [escalation EXCEPT ![v] = {"MARKETING"}]
        /\ told' = [told EXCEPT ![v] = Append(told[v], "MARKETING")]
    BY <1>3 DEF bookVisit, escalateUnrouted
  <2>2. {"MARKETING"} # None
    BY SiteVisitsAssumption
  <2>3. told' = [told EXCEPT ![v] = <<"MARKETING">>]
    BY <1>2, <2>1
  <2>4. \A w \in VisitIds : escalation[w] # None => escalation'[w] # None
    BY <2>1, <2>2 DEF IInv, ToldInv
  <2>5. escalation'[v] = {"MARKETING"} /\ told'[v] = <<"MARKETING">>
    BY <2>1, <2>3 DEF IInv, ToldInv
  <2>6. VisitsInv' /\ Steady
    BY <1>1, <2>2, <2>4, <2>5, RowKeeps DEF IInv, bookVisit
  <2>7. ToldInv'
    <3>1. /\ escalation' \in [VisitIds -> (SUBSET {"MD", "MARKETING"}) \cup {None}]
          /\ told' \in [VisitIds -> Seq({"MD", "MARKETING"})]
      BY <2>1, <2>3 DEF IInv, ToldInv
    <3>2. ASSUME NEW w \in VisitIds PROVE Told(w)'
      <4>1. CASE w = v
        <5>1. visit'[v].status # "ABSENT"
          BY <1>1 DEF IInv, VisitsInv
        <5> QED
          BY <4>1, <5>1, <2>2, <2>5 DEF Told
      <4>2. CASE w # v
        <5>1. visit'[w] = visit[w] /\ escalation'[w] = escalation[w] /\ told'[w] = told[w]
          BY <1>1, <2>1, <4>2 DEF IInv, VisitsInv, ToldInv
        <5> QED
          BY <5>1 DEF IInv, ToldInv, Told
      <4> QED
        BY <4>1, <4>2
    <3> QED
      BY <3>1, <3>2 DEF ToldInv
  <2>8. PICK r : call' = [call EXCEPT ![c] = r] /\ Formed(r) /\ Standing(r)
    BY FollowUpCall DEF bookVisit
  <2>9. CallsInv'
    BY <2>6, <2>8, StillStanding, OthersStand DEF IInv
  <2>10. FeedbackInv' /\ NoDealWithoutVisit'
    BY <2>6, FeedbackKeeps, LeadKeeps DEF IInv, bookVisit
  <2> QED
    BY <2>6, <2>7, <2>9, <2>10 DEF IInv
<1>4. CASE ~(row.type = "STANDARD" /\ row.pm = None)
  <2>1. UNCHANGED <<escalation, told>>
    BY <1>4 DEF bookVisit, escalateUnrouted
  <2>2. VisitsInv' /\ Steady
    BY <1>1, <1>4, <2>1, RowKeeps DEF IInv, bookVisit
  <2>3. PICK r : call' = [call EXCEPT ![c] = r] /\ Formed(r) /\ Standing(r)
    BY FollowUpCall DEF bookVisit
  <2>4. CallsInv'
    BY <2>2, <2>3, StillStanding, OthersStand DEF IInv
  <2>5. FeedbackInv' /\ NoDealWithoutVisit' /\ ToldInv'
    BY <2>1, <2>2, FeedbackKeeps, LeadKeeps, ToldKeeps DEF IInv, bookVisit
  <2> QED
    BY <2>2, <2>4, <2>5 DEF IInv
<1> QED
  BY <1>3, <1>4

LEMMA rescheduleVisitKeeps ==
  ASSUME IInv, NEW c \in Calls, NEW e, NEW v \in VisitIds, NEW day \in 1 .. Days,
         NEW items \in SUBSET Items, rescheduleVisit(c, e, v, day, items)
  PROVE  IInv'
<1>1. PICK new : new = IF items = {} THEN visit[v]
                       ELSE [visit[v] EXCEPT !.items = items, !.liked = {}, !.refused = {}]
  OBVIOUS
<1>2. /\ new \in Row /\ new.status = visit[v].status /\ new.type = visit[v].type
      /\ new.pm = visit[v].pm /\ new.day = visit[v].day
  <2>1. visit[v] \in Row
    BY DEF IInv, VisitsInv
  <2> DEFINE one == [visit[v] EXCEPT !.items = items]
             two == [one EXCEPT !.liked = {}]
             three == [two EXCEPT !.refused = {}]
  <2>2. /\ one \in Row /\ one.status = visit[v].status /\ one.type = visit[v].type
        /\ one.pm = visit[v].pm /\ one.day = visit[v].day
    BY <2>1 DEF Row
  <2>3. new = visit[v] \/ new = three
    BY <1>1
  <2> HIDE DEF one
  <2>4. /\ two \in Row /\ two.status = visit[v].status /\ two.type = visit[v].type
        /\ two.pm = visit[v].pm /\ two.day = visit[v].day
    BY <2>2 DEF Row
  <2> HIDE DEF two
  <2>5. /\ three \in Row /\ three.status = visit[v].status /\ three.type = visit[v].type
        /\ three.pm = visit[v].pm /\ three.day = visit[v].day
    BY <2>4 DEF Row
  <2> QED
    BY <2>1, <2>3, <2>5
<1>3. /\ visit' = [visit EXCEPT ![v] = new] /\ visit[v].status # "ABSENT"
      /\ UNCHANGED <<lead, escalation, feedback, told, completions>>
  BY <1>1 DEF rescheduleVisit, Begin, side
<1>4. visit'[v] = new
  BY <1>3 DEF IInv, VisitsInv
<1>5. new.type = "STANDARD" /\ new.pm = None => escalation[v] # None
  BY <1>2, <1>3 DEF IInv, VisitsInv, VisitSound
<1>6. \E r : call' = [call EXCEPT ![c] = r] /\ Formed(r) /\ Standing(r)'
  <2>1. CASE After(visit[v].status, "RESCHEDULE") = {}
    <3>1. call' = [call EXCEPT ![c] = Idle]
      BY <2>1 DEF rescheduleVisit, FollowUp
    <3>2. Formed(Idle) /\ Standing(Idle)'
      BY DEF Idle, Formed, Standing, ByVisit, ToVisit
    <3> QED
      BY <3>1, <3>2
  <2>2. CASE After(visit[v].status, "RESCHEDULE") # {}
    <3> DEFINE set == [status |-> "RESCHEDULE_REQUESTED", day |-> day]
               r == [op |-> "write", v |-> v, set |-> set, who |-> None, todo |-> <<>>]
    <3>1. call' = [call EXCEPT ![c] = r]
      BY <2>2 DEF rescheduleVisit, Begin
    <3>2. visit[v].status \notin Finished
      <4>1. PICK from : from = visit[v].status
        OBVIOUS
      <4>2. PICK to : to \in After(from, "RESCHEDULE")
        BY <2>2, <4>1
      <4> QED
        BY <4>1, <4>2, AfterOpen
    <3>3. visit'[v].type # "WALK_IN" /\ visit'[v].status # "ABSENT"
      BY <1>2, <1>3, <1>4, <3>2 DEF IInv, VisitsInv, VisitSound, Finished
    <3>4. Writes(set)
      BY OtherWrites
    <3>5. r = [op |-> r.op, v |-> r.v, set |-> r.set, who |-> r.who, todo |-> r.todo]
      OBVIOUS
    <3>6. r.op = "write" /\ r.v = v /\ r.set = set
      OBVIOUS
    <3> HIDE DEF r, set
    <3>7. Formed(r)
      BY <3>4, <3>5, <3>6 DEF Formed, ByVisit
    <3>8. Standing(r)'
      BY <3>3, <3>6 DEF Standing, ByVisit, ToVisit
    <3> QED
      BY <3>1, <3>7, <3>8
  <2> QED
    BY <2>1, <2>2
<1> QED
  BY <1>2, <1>3, <1>5, <1>6, RowOnly

LEMMA moveOpenVisitsKeeps ==
  ASSUME IInv, NEW old \in ProjectPMs, NEW new \in ProjectPMs, moveOpenVisitsToNewPm(old, new)
  PROVE  IInv'
<1>1. \A v \in VisitIds :
         visit'[v] = visit[v] \/ visit'[v] = [visit[v] EXCEPT !.pm = new]
  BY DEF moveOpenVisitsToNewPm
<1>2. \A v \in VisitIds :
         /\ visit'[v] \in Row /\ visit'[v].status = visit[v].status
         /\ visit'[v].type = visit[v].type /\ visit'[v].day = visit[v].day
         /\ visit'[v].pm = visit[v].pm \/ visit'[v].pm = new
  <2> SUFFICES ASSUME NEW v \in VisitIds
               PROVE  /\ visit'[v] \in Row /\ visit'[v].status = visit[v].status
                      /\ visit'[v].type = visit[v].type /\ visit'[v].day = visit[v].day
                      /\ visit'[v].pm = visit[v].pm \/ visit'[v].pm = new
    OBVIOUS
  <2>1. PICK row \in Row : row = visit[v]
    BY DEF IInv, VisitsInv
  <2>2. PICK now : now = [row EXCEPT !.pm = new]
    OBVIOUS
  <2>3. /\ now \in Row /\ now.status = row.status /\ now.type = row.type
        /\ now.day = row.day /\ now.pm = new
    BY <2>2 DEF Row
  <2>4. visit'[v] = row \/ visit'[v] = now
    BY <1>1, <2>1, <2>2
  <2> QED
    BY <2>1, <2>3, <2>4
<1>3. UNCHANGED <<lead, call, escalation, feedback, told, completions>>
  BY DEF moveOpenVisitsToNewPm, side
<1>4. Steady
  BY <1>2, <1>3 DEF Steady
<1>5. visit' \in [VisitIds -> Row]
  BY <1>2 DEF moveOpenVisitsToNewPm
<1>6. ASSUME NEW v \in VisitIds PROVE VisitSound(v)'
  <2>1. new # None
    BY SiteVisitsAssumption DEF Employees
  <2> QED
    BY <1>2, <1>3, <2>1 DEF IInv, VisitsInv, VisitSound
<1>7. WalkInOnce'
  BY <1>2 DEF IInv, VisitsInv, WalkInOnce
<1>8. VisitsInv'
  BY <1>5, <1>6, <1>7 DEF VisitsInv
<1>9. CallsInv' /\ FeedbackInv' /\ ToldInv' /\ NoDealWithoutVisit'
  BY <1>3, <1>4, AllStand, FeedbackKeeps, ToldKeeps, LeadKeeps DEF IInv
<1> QED
  BY <1>8, <1>9 DEF IInv

-----------------------------------------------------------------------------
(* Rows that are made.                                                      *)

LEMMA NoVisitRow == NoVisit \in Row
<1>1. 0 \in 0 .. Days
  BY SiteVisitsAssumption
<1> QED
  BY <1>1 DEF NoVisit, Row

LEMMA RoutedRow ==
  ASSUME NEW e \in Employees, NEW day \in 1 .. Days, NEW items \in SUBSET Items,
         NEW pm \in ProjectPMs \cup {None}
  PROVE  LET row == Routed(e, day, items, pm)
         IN row \in Row /\ row.status = "PENDING_ACCEPTANCE" /\ row.type = "STANDARD"
<1> DEFINE one == [NoVisit EXCEPT !.status = "PENDING_ACCEPTANCE"]
           two == [one EXCEPT !.pm = pm]
           three == [two EXCEPT !.tc = e]
           four == [three EXCEPT !.day = day]
           row == [four EXCEPT !.items = items]
<1>1. one \in Row /\ one.status = "PENDING_ACCEPTANCE" /\ one.type = "STANDARD"
  BY NoVisitRow DEF NoVisit, Row, VisitStatus, Reschedulable
<1> HIDE DEF one
<1>2. two \in Row /\ two.status = "PENDING_ACCEPTANCE" /\ two.type = "STANDARD"
  BY <1>1 DEF Row
<1> HIDE DEF two
<1>3. three \in Row /\ three.status = "PENDING_ACCEPTANCE" /\ three.type = "STANDARD"
  BY <1>2 DEF Row
<1> HIDE DEF three
<1>4. four \in Row /\ four.status = "PENDING_ACCEPTANCE" /\ four.type = "STANDARD"
  <2>1. day \in 0 .. Days
    BY SiteVisitsAssumption
  <2> QED
    BY <1>3, <2>1 DEF Row
<1> HIDE DEF four
<1>5. row \in Row /\ row.status = "PENDING_ACCEPTANCE" /\ row.type = "STANDARD"
  BY <1>4 DEF Row
<1>6. Routed(e, day, items, pm) = row
  BY DEF Routed, row, four, three, two, one
<1> QED
  BY <1>5, <1>6

LEMMA DirectVisitRow ==
  ASSUME NEW e \in Employees, NEW day \in 1 .. Days, NEW items \in SUBSET Items
  PROVE  LET row == DirectRow(e, day, items)
         IN row \in Row /\ row.status = "CONFIRMED" /\ row.type = "DIRECT"
<1> DEFINE one == [NoVisit EXCEPT !.status = "CONFIRMED"]
           two == [one EXCEPT !.type = "DIRECT"]
           three == [two EXCEPT !.tc = e]
           four == [three EXCEPT !.day = day]
           row == [four EXCEPT !.items = items]
<1>1. one \in Row /\ one.status = "CONFIRMED"
  BY NoVisitRow DEF NoVisit, Row, VisitStatus, Reschedulable
<1> HIDE DEF one
<1>2. two \in Row /\ two.status = "CONFIRMED" /\ two.type = "DIRECT"
  BY <1>1 DEF Row
<1> HIDE DEF two
<1>3. three \in Row /\ three.status = "CONFIRMED" /\ three.type = "DIRECT"
  BY <1>2 DEF Row
<1> HIDE DEF three
<1>4. four \in Row /\ four.status = "CONFIRMED" /\ four.type = "DIRECT"
  <2>1. day \in 0 .. Days
    BY SiteVisitsAssumption
  <2> QED
    BY <1>3, <2>1 DEF Row
<1> HIDE DEF four
<1>5. row \in Row /\ row.status = "CONFIRMED" /\ row.type = "DIRECT"
  BY <1>4 DEF Row
<1>6. DirectRow(e, day, items) = row
  BY DEF DirectRow, row, four, three, two, one
<1> QED
  BY <1>5, <1>6

LEMMA WalkInRow ==
  ASSUME NEW e \in Employees, NEW day \in 1 .. Days, NEW no \in BOOLEAN
  PROVE  [NoVisit EXCEPT !.status = "COMPLETED", !.type = "WALK_IN", !.tc = e, !.day = day,
                         !.no = no] \in WalkIns
<1> DEFINE one == [NoVisit EXCEPT !.status = "COMPLETED"]
           two == [one EXCEPT !.type = "WALK_IN"]
           three == [two EXCEPT !.tc = e]
           four == [three EXCEPT !.day = day]
           row == [four EXCEPT !.no = no]
<1>1. one \in Row /\ one.status = "COMPLETED"
  BY NoVisitRow DEF NoVisit, Row, VisitStatus, Finished
<1> HIDE DEF one
<1>2. two \in WalkIns
  BY <1>1 DEF Row, WalkIns
<1> HIDE DEF two
<1>3. three \in WalkIns
  BY <1>2 DEF Row, WalkIns
<1> HIDE DEF three
<1>4. four \in WalkIns
  <2>1. day \in 0 .. Days
    BY SiteVisitsAssumption
  <2> QED
    BY <1>3, <2>1 DEF Row, WalkIns
<1> HIDE DEF four
<1>5. row \in WalkIns
  BY <1>4 DEF Row, WalkIns
<1> QED
  BY <1>5 DEF row, four, three, two, one

-----------------------------------------------------------------------------
(* Every request keeps the invariant.                                       *)

LEMMA TransitionsKeep ==
  ASSUME IInv, NEW c \in Calls, NEW e \in Employees, NEW v \in VisitIds,
         \/ acceptVisit(c, e, v) \/ escalateVisit(c, e, v) \/ reconfirmCustomer(c, e, v)
         \/ confirmVisit(c, e, v) \/ startVisit(c, e, v) \/ cancelVisit(c, e, v)
         \/ holdVisit(c, e, v) \/ initiateCancellation(c, e, v) \/ rejectCancellation(c, e, v)
         \/ confirmCancellation(c, e, v)
         \/ \E pm \in ProjectPMs \cup {None} : pmReconfirm(c, e, v, pm)
  PROVE  IInv'
<1>1. \A to \in VisitStatus \ {"COMPLETED"} : Writes(Moved(to, <<>>))
  BY StatusWritten
<1>2. CASE acceptVisit(c, e, v)
  <2>1. visit[v] \in Row
    BY DEF IInv, VisitsInv
  <2>2. CASE visit[v].pm = None /\ e \notin Directors
    BY <1>2, <2>2, SiteVisitsAssumption DEF acceptVisit, canAccept, isManagement
  <2>3. CASE e \in ProjectPMs \cup Directors
    <3>1. \A to \in VisitStatus \ {"COMPLETED"} : Writes(Moved(to, [pm |-> e]))
      BY <2>3, PmWritten
    <3> QED
      BY <1>2, <3>1, TransitionKeeps DEF acceptVisit
  <2> QED
    BY <1>2, <2>1, <2>2, <2>3 DEF acceptVisit, canAccept, isManagement, Row
<1>3. ASSUME NEW pm \in ProjectPMs \cup {None}, pmReconfirm(c, e, v, pm)
      PROVE  IInv'
  <2>1. CASE Transition(c, v, "PM_CONFIRM", <<>>)
    BY <1>1, <2>1, TransitionKeeps
  <2>2. CASE Transition(c, v, "PM_RELEASE", IF pm = None THEN <<>> ELSE [pm |-> pm])
    <3>1. CASE pm = None
      BY <1>1, <2>2, <3>1, TransitionKeeps
    <3>2. CASE pm # None
      <4>1. \A to \in VisitStatus \ {"COMPLETED"} : Writes(Moved(to, [pm |-> pm]))
        BY <3>2, PmWritten
      <4> QED
        BY <2>2, <3>2, <4>1, TransitionKeeps
    <3> QED
      BY <3>1, <3>2
  <2> QED
    BY <1>3, <2>1, <2>2 DEF pmReconfirm
<1>4. CASE escalateVisit(c, e, v)
  BY <1>1, <1>4, TransitionKeeps DEF escalateVisit
<1>5. CASE reconfirmCustomer(c, e, v)
  BY <1>1, <1>5, TransitionKeeps DEF reconfirmCustomer
<1>6. CASE confirmVisit(c, e, v)
  BY <1>1, <1>6, TransitionKeeps DEF confirmVisit
<1>7. CASE startVisit(c, e, v)
  BY <1>1, <1>7, TransitionKeeps DEF startVisit
<1>8. CASE cancelVisit(c, e, v)
  BY <1>1, <1>8, TransitionKeeps DEF cancelVisit
<1>9. CASE holdVisit(c, e, v)
  BY <1>1, <1>9, TransitionKeeps DEF holdVisit
<1>10. CASE initiateCancellation(c, e, v)
  BY <1>1, <1>10, TransitionKeeps DEF initiateCancellation
<1>11. CASE rejectCancellation(c, e, v)
  BY <1>1, <1>11, TransitionKeeps DEF rejectCancellation
<1>12. CASE confirmCancellation(c, e, v)
  BY <1>1, <1>12, TransitionKeeps DEF confirmCancellation
<1> QED
  BY <1>2, <1>3, <1>4, <1>5, <1>6, <1>7, <1>8, <1>9, <1>10, <1>11, <1>12

\* The handlers that check more than a transition before they write by id.
LEMMA UpdatesKeep ==
  ASSUME IInv, NEW c \in Calls, NEW e \in Employees, NEW v \in VisitIds,
         \/ \E to \in ProjectPMs : reassignVisit(c, e, v, to) \/ assignAgent(c, e, v, to)
         \/ uploadProof(c, e, v) \/ makeVisitDirect(c, e, v)
         \/ \E day \in 1 .. Days : rescheduleDirectVisit(c, e, v, day)
  PROVE  IInv'
<1>1. visit[v].type = "WALK_IN" => visit[v].status = "COMPLETED"
  BY DEF IInv, VisitsInv, VisitSound
<1>2. ASSUME NEW to \in ProjectPMs, reassignVisit(c, e, v, to)
      PROVE  IInv'
  <2>1. PICK who : Ask(c, "reassign", v, [status |-> "PENDING_ACCEPTANCE", pm |-> to], who)
    BY <1>2 DEF reassignVisit
  <2>2. visit[v].status \notin Finished
    <3>1. PICK from : from = visit[v].status
      OBVIOUS
    <3>2. PICK next : next \in After(from, "REASSIGN")
      BY <1>2, <3>1 DEF reassignVisit
    <3> QED
      BY <3>1, <3>2, AfterOpen
  <2> QED
    BY <1>1, <2>1, <2>2, OtherWrites, AskKeeps DEF Finished, ToVisit
<1>3. ASSUME NEW to \in ProjectPMs, assignAgent(c, e, v, to)
      PROVE  IInv'
  BY <1>1, <1>3, OtherWrites, AskKeeps DEF assignAgent, ToVisit
<1>4. CASE uploadProof(c, e, v)
  BY <1>4, PhotoWritten, AskKeeps DEF uploadProof, ToVisit
<1>5. CASE makeVisitDirect(c, e, v)
  BY <1>5, OtherWrites, AskKeeps DEF makeVisitDirect, ToVisit
<1>6. ASSUME NEW day \in 1 .. Days, rescheduleDirectVisit(c, e, v, day)
      PROVE  IInv'
  BY <1>6, OtherWrites, AskKeeps DEF rescheduleDirectVisit, ToVisit
<1> QED
  BY <1>2, <1>3, <1>4, <1>5, <1>6

LEMMA CompletionsKeep ==
  ASSUME IInv, NEW c \in Calls, NEW e \in Employees, NEW v \in VisitIds,
         \/ \E liked, refused \in SUBSET Items, no \in BOOLEAN :
              completeVisit(c, e, v, liked, refused, no)
         \/ \E visited, no \in BOOLEAN : recordDirectVisitOutcome(c, e, v, visited, no)
         \/ \E day \in 1 .. Days, no \in BOOLEAN : recordWalkIn(c, e, v, day, no)
  PROVE  IInv'
<1>1. visit[v] \in Row /\ (visit[v].type = "WALK_IN" => visit[v].status = "COMPLETED")
  BY DEF IInv, VisitsInv, VisitSound
<1>2. ASSUME NEW liked \in SUBSET Items, NEW refused \in SUBSET Items, NEW no \in BOOLEAN,
             completeVisit(c, e, v, liked, refused, no)
      PROVE  IInv'
  <2>1. PICK photo, who :
          /\ photo \in BOOLEAN
          /\ Ask(c, "complete", v, [status |-> "COMPLETED", liked |-> liked, refused |-> refused,
                                 no |-> no, photo |-> photo], who)
    <3>1. PICK photo : photo = visit[v].photo
      OBVIOUS
    <3>2. photo \in BOOLEAN
      BY <1>1, <3>1 DEF Row
    <3>3. PICK who : who = Runner(visit[v])
      OBVIOUS
    <3> QED
      BY <1>2, <3>1, <3>2, <3>3 DEF completeVisit
  <2>2. visit[v].status \notin Finished
    <3>1. PICK from : from = visit[v].status
      OBVIOUS
    <3>2. PICK next : next \in After(from, "COMPLETE")
      BY <1>2, <3>1 DEF completeVisit
    <3> QED
      BY <3>1, <3>2, AfterOpen
  <2>3. [status |-> "COMPLETED", liked |-> liked, refused |-> refused,
         no |-> no, photo |-> photo] \in Completion
    BY <2>1 DEF Completion
  <2> QED
    BY <1>1, <2>1, <2>2, <2>3, AskKeeps DEF Finished, ToVisit
<1>3. ASSUME NEW visited \in BOOLEAN, NEW no \in BOOLEAN,
             recordDirectVisitOutcome(c, e, v, visited, no)
      PROVE  IInv'
  <2>1. CASE visited
    <3>1. [status |-> "COMPLETED", no |-> no] \in Outcome
      BY DEF Outcome
    <3> QED
      BY <1>3, <2>1, <3>1, AskKeeps DEF recordDirectVisitOutcome, ToVisit
  <2>2. CASE ~visited
    BY <1>3, <2>2, OtherWrites, AskKeeps DEF recordDirectVisitOutcome, ToVisit
  <2> QED
    BY <2>1, <2>2
<1>4. ASSUME NEW day \in 1 .. Days, NEW no \in BOOLEAN, recordWalkIn(c, e, v, day, no)
      PROVE  IInv'
  <2>1. PICK row, who : row \in WalkIns /\ Begin(c, "walkIn", v, row, who) /\ UNCHANGED visit
    BY <1>4, WalkInRow DEF recordWalkIn
  <2> DEFINE r == [op |-> "walkIn", v |-> v, set |-> row, who |-> who, todo |-> <<>>]
  <2>2. call' = [call EXCEPT ![c] = r] /\ Unmoved
    BY <2>1 DEF Begin, Unmoved, side
  <2>3. /\ r.op = "walkIn" /\ r.set = row
        /\ r = [op |-> r.op, v |-> r.v, set |-> r.set, who |-> r.who, todo |-> r.todo]
    OBVIOUS
  <2> HIDE DEF r
  <2>4. Formed(r) /\ Standing(r)
    BY <2>1, <2>3 DEF Formed, Standing, ByVisit, ToVisit
  <2> QED
    BY <2>2, <2>4, CallKeeps
<1> QED
  BY <1>2, <1>3, <1>4

LEMMA RequestsKeep ==
  ASSUME IInv, NEW c \in Calls, NEW e \in Employees, NEW v \in VisitIds, Requests(c, e, v)
  PROVE  IInv'
<1>1. ASSUME NEW day \in 1 .. Days, NEW items \in SUBSET Items, NEW pm \in ProjectPMs \cup {None},
             bookVisit(c, e, v, Routed(e, day, items, pm))
      PROVE  IInv'
  BY <1>1, RoutedRow, bookVisitKeeps
<1>2. ASSUME NEW day \in 1 .. Days, NEW items \in SUBSET Items,
             bookVisit(c, e, v, DirectRow(e, day, items))
      PROVE  IInv'
  BY <1>2, DirectVisitRow, bookVisitKeeps
<1> QED
  BY <1>1, <1>2, TransitionsKeep, UpdatesKeep, CompletionsKeep, rescheduleVisitKeeps
  DEF Requests

LEMMA EscalationJobKeeps ==
  ASSUME IInv, NEW c \in Calls, NEW v \in VisitIds, siteVisitEscalationJob(c, v)
  PROVE  IInv'
<1>1. PICK todo \in Seq({"MD", "MARKETING"}), op \in {"openEscalation", "tell"} :
        /\ call' = [call EXCEPT ![c] = [Idle EXCEPT !.op = op, !.v = v, !.todo = todo]]
        /\ op = "tell" => escalation[v] # None
  <2> DEFINE known == IF escalation[v] = None THEN {} ELSE escalation[v]
             first == IF needsMD(visit[v]) /\ "MD" \notin known THEN <<"MD">> ELSE <<>>
             second == IF needsMarketing(visit[v]) /\ "MARKETING" \notin known
                       THEN <<"MARKETING">> ELSE <<>>
             next == IF escalation[v] = None THEN "openEscalation" ELSE "tell"
  <2>1. first \in Seq({"MD", "MARKETING"}) /\ second \in Seq({"MD", "MARKETING"})
    <3>1. /\ <<"MD">> \in Seq({"MD", "MARKETING"}) /\ <<"MARKETING">> \in Seq({"MD", "MARKETING"})
          /\ <<>> \in Seq({"MD", "MARKETING"})
      OBVIOUS
    <3>2. first \in {<<"MD">>, <<>>} /\ second \in {<<"MARKETING">>, <<>>}
      BY Zenon
    <3> HIDE DEF first, second
    <3> QED
      BY <3>1, <3>2
  <2>2. call' = [call EXCEPT ![c] = [Idle EXCEPT !.op = next, !.v = v, !.todo = first \o second]]
    BY DEF siteVisitEscalationJob
  <2>3. next \in {"openEscalation", "tell"} /\ (next = "tell" => escalation[v] # None)
    OBVIOUS
  <2> HIDE DEF first, second, next
  <2>4. first \o second \in Seq({"MD", "MARKETING"})
    BY <2>1
  <2> QED
    BY <2>2, <2>3, <2>4
<1>2. visit[v].status # "ABSENT" /\ Unmoved
  BY DEF siteVisitEscalationJob, Waiting, Unmoved, side
<1> DEFINE one == [Idle EXCEPT !.op = op]
           two == [one EXCEPT !.v = v]
           r == [two EXCEPT !.todo = todo]
<1>3. call' = [call EXCEPT ![c] = r]
  BY <1>1
<1>4. one = [op |-> op, v |-> None, set |-> <<>>, who |-> None, todo |-> <<>>]
  BY DEF Idle
<1> HIDE DEF one
<1>5. two = [op |-> op, v |-> v, set |-> <<>>, who |-> None, todo |-> <<>>]
  BY <1>4
<1> HIDE DEF two
<1>6. r = [op |-> op, v |-> v, set |-> <<>>, who |-> None, todo |-> todo]
  BY <1>5
<1> HIDE DEF r
<1>7. Formed(r) /\ Standing(r)
  BY <1>1, <1>2, <1>6 DEF Formed, Standing, ByVisit, ToVisit
<1> QED
  BY <1>2, <1>3, <1>7, CallKeeps

-----------------------------------------------------------------------------
(* Every write keeps the invariant.                                         *)

LEMMA RunningCall ==
  ASSUME IInv, NEW c \in Calls
  PROVE  Formed(call[c]) /\ Standing(call[c])
  BY DEF IInv, CallsInv

\* A call that goes on to its next step with what it has read.
LEMMA OpCall ==
  ASSUME NEW q, Formed(q), Standing(q), q.op \in ByVisit,
         NEW op \in {"mark", "log", "route", "advance"}, NEW who
  PROVE  LET r == [q EXCEPT !.op = op, !.who = who]
             s == [q EXCEPT !.op = op]
         IN Formed(r) /\ Standing(r) /\ Formed(s) /\ Standing(s)
<1> DEFINE s == [q EXCEPT !.op = op]
           r == [s EXCEPT !.who = who]
<1>1. q = [op |-> q.op, v |-> q.v, set |-> q.set, who |-> q.who, todo |-> q.todo]
  BY DEF Formed
<1>2. s = [op |-> op, v |-> q.v, set |-> q.set, who |-> q.who, todo |-> q.todo]
  BY <1>1
<1> HIDE DEF s
<1>3. r = [op |-> op, v |-> q.v, set |-> q.set, who |-> who, todo |-> q.todo]
  BY <1>2
<1> HIDE DEF r
<1>4. q.v \in VisitIds /\ visit[q.v].status # "ABSENT" /\ op \in ByVisit
  BY DEF Formed, Standing, ByVisit
<1>5. Formed(s) /\ Standing(s)
  BY <1>2, <1>4 DEF Formed, Standing, ToVisit
<1>6. Formed(r) /\ Standing(r)
  BY <1>3, <1>4 DEF Formed, Standing, ToVisit
<1> QED
  BY <1>5, <1>6 DEF r, s

LEMMA applyTransitionKeeps ==
  ASSUME IInv, NEW c \in Calls, applyTransition(c) \/ reassignVisitTx(c)
  PROVE  IInv'
<1>1. PICK v, set : v = call[c].v /\ set = call[c].set
  OBVIOUS
<1>2. /\ v \in VisitIds /\ Writes(set) /\ visit[v].status # "ABSENT"
      /\ visit[v].type = "WALK_IN" => Plain(set)
  BY <1>1, RunningCall DEF applyTransition, reassignVisitTx, Formed, Standing, ByVisit, ToVisit
<1>3. PICK row \in Row : row = visit[v] /\ VisitSound(v)
  BY <1>2 DEF IInv, VisitsInv
<1>4. PICK new : new = Columns(set, row)
  OBVIOUS
<1>5. /\ new \in Row /\ new.status \in {row.status} \cup (VisitStatus \ {"COMPLETED"})
      /\ new.type \in {row.type, "DIRECT"}
      /\ new.pm = None => row.pm = None \/ new.type = "DIRECT"
      /\ row.type = "WALK_IN" => /\ new.status = row.status /\ new.day = row.day
  BY <1>2, <1>3, <1>4 DEF Writes, Plain
<1>6. new.status # "ABSENT"
  BY <1>2, <1>3, <1>5 DEF VisitStatus, Reschedulable, Cancellable, Finished
<1>7. new.type = "STANDARD" /\ new.pm = None => escalation[v] # None
  BY <1>2, <1>3, <1>5 DEF VisitSound
<1>8. /\ visit' = [visit EXCEPT ![v] = new]
      /\ UNCHANGED <<lead, escalation, feedback, told, completions>>
      /\ call' = [call EXCEPT ![c] = Idle]
  BY <1>1, <1>3, <1>4 DEF applyTransition, reassignVisitTx, Finish, side
<1>9. Formed(Idle) /\ Standing(Idle)'
  BY DEF Idle, Formed, Standing, ByVisit, ToVisit
<1> QED
  BY <1>2, <1>3, <1>5, <1>6, <1>7, <1>8, <1>9, RowOnly

\* One more completion, with a request for feedback only if it is the first that asks.
LEMMA CompletedKeeps ==
  ASSUME FeedbackInv, NEW v \in VisitIds, NEW kind \in {"ASKED", "SILENT"},
         completions' = [completions EXCEPT ![v] = Append(completions[v], kind)],
         kind = "ASKED" => createFeedbackRequest(v),
         kind = "SILENT" => UNCHANGED feedback
  PROVE  /\ FeedbackInv' /\ completions'[v] # <<>>
         /\ \A w \in VisitIds : completions[w] # <<>> => completions'[w] # <<>>
<1>1. PICK old \in Seq({"ASKED", "SILENT"}), new \in Seq({"ASKED", "SILENT"}) :
        old = completions[v] /\ new = Append(old, kind)
  <2>1. PICK old \in Seq({"ASKED", "SILENT"}) : old = completions[v]
    BY DEF FeedbackInv
  <2>2. Append(old, kind) \in Seq({"ASKED", "SILENT"})
    BY <2>1
  <2> QED
    BY <2>1, <2>2
<1>2. /\ completions'[v] = new
      /\ \A w \in VisitIds \ {v} : completions'[w] = completions[w]
      /\ completions' \in [VisitIds -> Seq({"ASKED", "SILENT"})]
  BY <1>1 DEF FeedbackInv
<1>3. /\ Len(new) = Len(old) + 1 /\ new[Len(old) + 1] = kind /\ Len(old) \in Nat
      /\ DOMAIN new = 1 .. Len(old) + 1 /\ DOMAIN old = 1 .. Len(old)
      /\ \A i \in 1 .. Len(old) : new[i] = old[i]
  BY <1>1
<1>4. new # <<>>
  BY <1>3
<1>5. /\ feedback' \in [VisitIds -> {"NONE", "SENT", "SUBMITTED"}]
      /\ \A w \in VisitIds \ {v} : feedback'[w] = feedback[w]
      /\ kind = "ASKED" => feedback[v] = "NONE" /\ feedback'[v] = "SENT"
      /\ kind = "SILENT" => feedback'[v] = feedback[v]
  BY DEF FeedbackInv, createFeedbackRequest
<1>6. /\ feedback[v] = "NONE" => \A i \in DOMAIN old : old[i] = "SILENT"
      /\ \A i, j \in DOMAIN old : old[i] = "ASKED" /\ old[j] = "ASKED" => i = j
  BY <1>1 DEF FeedbackInv, CompletedOnce
<1>7. feedback'[v] = "NONE" => \A i \in DOMAIN new : new[i] = "SILENT"
  BY <1>3, <1>5, <1>6
<1>8. \A i, j \in DOMAIN new : new[i] = "ASKED" /\ new[j] = "ASKED" => i = j
  <2> SUFFICES ASSUME NEW i \in DOMAIN new, NEW j \in DOMAIN new, new[i] = "ASKED", new[j] = "ASKED"
               PROVE  i = j
    OBVIOUS
  <2>1. CASE kind = "SILENT"
    <3>1. i \in DOMAIN old /\ j \in DOMAIN old /\ old[i] = "ASKED" /\ old[j] = "ASKED"
      BY <1>3, <2>1
    <3> QED
      BY <1>6, <3>1
  <2>2. CASE kind = "ASKED"
    <3>1. \A k \in DOMAIN old : old[k] = "SILENT"
      BY <1>5, <1>6, <2>2
    <3>2. i = Len(old) + 1 /\ j = Len(old) + 1
      BY <1>3, <3>1
    <3> QED
      BY <3>2
  <2> QED
    BY <2>1, <2>2
<1>9. /\ \A w \in VisitIds : feedback'[w] = "NONE" =>
           \A i \in DOMAIN completions'[w] : completions'[w][i] = "SILENT"
      /\ CompletedOnce'
  <2>1. \A w \in VisitIds : feedback'[w] = "NONE" =>
           \A i \in DOMAIN completions'[w] : completions'[w][i] = "SILENT"
    BY <1>2, <1>5, <1>7 DEF FeedbackInv
  <2>2. CompletedOnce'
    BY <1>2, <1>8 DEF FeedbackInv, CompletedOnce
  <2> QED
    BY <2>1, <2>2
<1>10. FeedbackInv'
  BY <1>2, <1>5, <1>9 DEF FeedbackInv
<1> QED
  BY <1>2, <1>4, <1>10

LEMMA completeVisitKeeps ==
  ASSUME IInv, NEW c \in Calls, completeVisitTx(c)
  PROVE  IInv'
<1>1. PICK q : q = call[c] /\ Formed(q) /\ Standing(q)
  BY RunningCall
<1>2. PICK v \in VisitIds, set \in Completion : v = q.v /\ set = q.set
  BY <1>1 DEF completeVisitTx, Formed, ByVisit
<1>3. PICK row \in Row : /\ row = visit[v] /\ VisitSound(v)
                         /\ row.status # "ABSENT" /\ row.type # "WALK_IN"
  BY <1>1, <1>2 DEF IInv, VisitsInv, completeVisitTx, Standing, ByVisit, ToVisit
<1>4. PICK base : base = Columns(set, row)
  OBVIOUS
<1>5. /\ base \in Row /\ base.status = "COMPLETED" /\ base.type = row.type /\ base.pm = row.pm
  <2>1. /\ DOMAIN set = {"status", "liked", "refused", "no", "photo"}
        /\ set["status"] = "COMPLETED" /\ set["liked"] \in SUBSET Items
        /\ set["refused"] \in SUBSET Items /\ set["no"] \in BOOLEAN /\ set["photo"] \in BOOLEAN
    BY DEF Completion
  <2>2. /\ Col(set, row, "status") = "COMPLETED" /\ Col(set, row, "type") = row.type
        /\ Col(set, row, "pm") = row.pm /\ Col(set, row, "agent") = row.agent
        /\ Col(set, row, "tc") = row.tc /\ Col(set, row, "day") = row.day
        /\ Col(set, row, "items") = row.items
    BY <2>1 DEF Col
  <2>3. /\ Col(set, row, "liked") \in SUBSET Items /\ Col(set, row, "refused") \in SUBSET Items
        /\ Col(set, row, "no") \in BOOLEAN /\ Col(set, row, "photo") \in BOOLEAN
    BY <2>1 DEF Col
  <2> QED
    BY <1>4, <2>2, <2>3, ColumnsRow DEF Row, VisitStatus, Finished
<1>6. PICK items \in SUBSET Items : items = row.items \cup set.liked \cup set.refused
  BY DEF Row, Completion
<1>7. PICK new : new = [base EXCEPT !.items = items]
  OBVIOUS
<1>8. /\ new \in Row /\ new.status = "COMPLETED" /\ new.type = row.type /\ new.pm = row.pm
  BY <1>5, <1>7 DEF Row
<1>9. visit' = [visit EXCEPT ![v] = new]
  BY <1>1, <1>2, <1>3, <1>4, <1>6, <1>7 DEF completeVisitTx
<1>10. PICK kind \in {"ASKED", "SILENT"} :
         /\ completions' = [completions EXCEPT ![v] = Append(completions[v], kind)]
         /\ kind = "ASKED" => createFeedbackRequest(v)
         /\ kind = "SILENT" => UNCHANGED feedback
  <2>1. CASE q.who # None
    BY <1>1, <1>2, <2>1 DEF completeVisitTx
  <2>2. CASE q.who = None
    BY <1>1, <1>2, <2>2 DEF completeVisitTx
  <2> QED
    BY <2>1, <2>2
<1>11. /\ FeedbackInv' /\ completions'[v] # <<>>
       /\ \A w \in VisitIds : completions[w] # <<>> => completions'[w] # <<>>
  BY <1>10, CompletedKeeps DEF IInv
<1>12. UNCHANGED <<lead, escalation, told>>
  BY DEF completeVisitTx
<1>13. VisitsInv' /\ Steady
  <2>1. new.type = "STANDARD" /\ new.pm = None => escalation'[v] # None
    BY <1>3, <1>8, <1>12 DEF VisitSound
  <2>2. new.status # "ABSENT" /\ new.type # "WALK_IN"
    BY <1>3, <1>8
  <2>3. \A w \in VisitIds : escalation[w] # None => escalation'[w] # None
    BY <1>12
  <2> QED
    BY <1>8, <1>9, <1>11, <2>1, <2>2, <2>3, RowKeeps DEF IInv
<1>14. CallsInv'
  <2> DEFINE r == [q EXCEPT !.op = "mark"]
  <2>1. call' = [call EXCEPT ![c] = r]
    BY <1>1 DEF completeVisitTx
  <2>2. q.op \in ByVisit
    BY <1>1 DEF completeVisitTx, ByVisit
  <2>3. Formed(r) /\ Standing(r)
    BY <1>1, <2>2, OpCall
  <2> HIDE DEF r
  <2>4. Standing(r)'
    BY <1>13, <2>3, StillStanding
  <2> QED
    BY <1>13, <2>1, <2>3, <2>4, OthersStand DEF IInv
<1>15. ToldInv' /\ NoDealWithoutVisit'
  BY <1>12, <1>13, ToldKeeps, LeadKeeps DEF IInv
<1> QED
  BY <1>11, <1>13, <1>14, <1>15 DEF IInv

LEMMA directOutcomeKeeps ==
  ASSUME IInv, NEW c \in Calls, directOutcomeTx(c)
  PROVE  IInv'
<1>1. PICK q : q = call[c] /\ Formed(q) /\ Standing(q)
  BY RunningCall
<1>2. PICK v \in VisitIds, set \in Outcome : v = q.v /\ set = q.set
  BY <1>1 DEF directOutcomeTx, Formed, ByVisit
<1>3. PICK row \in Row : /\ row = visit[v] /\ VisitSound(v)
                         /\ row.status # "ABSENT" /\ row.type # "WALK_IN"
  BY <1>1, <1>2 DEF IInv, VisitsInv, directOutcomeTx, Standing, ByVisit, ToVisit
<1>4. PICK new : new = Columns(set, row)
  OBVIOUS
<1>5. /\ new \in Row /\ new.status = "COMPLETED" /\ new.type = row.type /\ new.pm = row.pm
  <2>1. DOMAIN set = {"status", "no"} /\ set["status"] = "COMPLETED" /\ set["no"] \in BOOLEAN
    BY DEF Outcome
  <2>2. /\ Col(set, row, "status") = "COMPLETED" /\ Col(set, row, "type") = row.type
        /\ Col(set, row, "pm") = row.pm /\ Col(set, row, "agent") = row.agent
        /\ Col(set, row, "tc") = row.tc /\ Col(set, row, "day") = row.day
        /\ Col(set, row, "items") = row.items /\ Col(set, row, "liked") = row.liked
        /\ Col(set, row, "refused") = row.refused /\ Col(set, row, "photo") = row.photo
    BY <2>1 DEF Col
  <2>3. Col(set, row, "no") \in BOOLEAN
    BY <2>1 DEF Col
  <2> QED
    BY <1>4, <2>2, <2>3, ColumnsRow DEF Row, VisitStatus, Finished
<1>6. visit' = [visit EXCEPT ![v] = new]
  BY <1>1, <1>2, <1>3, <1>4 DEF directOutcomeTx
<1>7. /\ FeedbackInv' /\ completions'[v] # <<>>
      /\ \A w \in VisitIds : completions[w] # <<>> => completions'[w] # <<>>
  <2>1. /\ completions' = [completions EXCEPT ![v] = Append(completions[v], "ASKED")]
        /\ createFeedbackRequest(v)
    BY <1>1, <1>2 DEF directOutcomeTx
  <2> QED
    BY <2>1, CompletedKeeps DEF IInv
<1>8. UNCHANGED <<lead, escalation, told>>
  BY DEF directOutcomeTx
<1>9. VisitsInv' /\ Steady
  <2>1. new.type = "STANDARD" /\ new.pm = None => escalation'[v] # None
    BY <1>3, <1>5, <1>8 DEF VisitSound
  <2>2. new.status # "ABSENT" /\ new.type # "WALK_IN"
    BY <1>3, <1>5
  <2>3. \A w \in VisitIds : escalation[w] # None => escalation'[w] # None
    BY <1>8
  <2> QED
    BY <1>5, <1>6, <1>7, <2>1, <2>2, <2>3, RowKeeps DEF IInv
<1>10. CallsInv'
  <2> DEFINE r == [q EXCEPT !.op = "advance"]
  <2>1. call' = [call EXCEPT ![c] = r]
    BY <1>1 DEF directOutcomeTx
  <2>2. q.op \in ByVisit
    BY <1>1 DEF directOutcomeTx, ByVisit
  <2>3. Formed(r) /\ Standing(r)
    BY <1>1, <2>2, OpCall
  <2> HIDE DEF r
  <2>4. Standing(r)'
    BY <1>9, <2>3, StillStanding
  <2> QED
    BY <1>9, <2>1, <2>3, <2>4, OthersStand DEF IInv
<1>11. ToldInv' /\ NoDealWithoutVisit'
  BY <1>8, <1>9, ToldKeeps, LeadKeeps DEF IInv
<1> QED
  BY <1>7, <1>9, <1>10, <1>11 DEF IInv

\* The lead's row is locked while the day is looked up: no other walk-in of the day is there.
LEMMA recordWalkInKeeps ==
  ASSUME IInv, NEW c \in Calls, recordWalkInTx(c)
  PROVE  IInv'
<1>1. PICK q : q = call[c] /\ Formed(q) /\ Standing(q)
  BY RunningCall
<1>2. PICK row \in WalkIns : row = q.set /\ SameDay(c, row.day) = {}
  BY <1>1 DEF recordWalkInTx, Formed
<1>3. PICK v, todo :
        /\ v \in VisitIds
        /\ visit[v].status = "ABSENT" /\ visit' = [visit EXCEPT ![v] = row]
        /\ createFeedbackRequest(v)
        /\ completions' = [completions EXCEPT ![v] = Append(completions[v], "ASKED")]
        /\ call' = [call EXCEPT ![c] = IF todo = <<>> THEN Idle
                      ELSE [Idle EXCEPT !.op = "lead", !.v = v, !.todo = todo]]
  <2>1. PICK v \in VisitIds :
        /\ visit[v] = NoVisit /\ visit' = [visit EXCEPT ![v] = row]
        /\ createFeedbackRequest(v)
        /\ completions' = [completions EXCEPT ![v] = Append(completions[v], "ASKED")]
        /\ call' = [call EXCEPT ![c] = IF Chain(call[c].who, row.no) = <<>> THEN Idle
                         ELSE [Idle EXCEPT !.op = "lead", !.v = v,
                                           !.todo = Chain(call[c].who, row.no)]]
    BY <1>1, <1>2 DEF recordWalkInTx
  <2>2. PICK todo : todo = Chain(call[c].who, row.no)
    OBVIOUS
  <2>3. visit[v].status = "ABSENT"
    BY <2>1 DEF NoVisit
  <2> QED
    BY <2>1, <2>2, <2>3
<1>4. UNCHANGED <<lead, escalation, told>>
  BY DEF recordWalkInTx
<1>5. row \in Row /\ row.type = "WALK_IN" /\ row.status = "COMPLETED"
  BY DEF WalkIns
<1>6. /\ visit' \in [VisitIds -> Row] /\ visit'[v] = row
      /\ \A w \in VisitIds \ {v} : visit'[w] = visit[w]
  BY <1>3, <1>5 DEF IInv, VisitsInv
<1>7. /\ FeedbackInv' /\ completions'[v] # <<>>
      /\ \A w \in VisitIds : completions[w] # <<>> => completions'[w] # <<>>
  BY <1>3, CompletedKeeps DEF IInv
<1>8. Steady
  BY <1>3, <1>4, <1>6, <1>7 DEF Steady
<1>9. ASSUME NEW w \in VisitIds PROVE VisitSound(w)'
  BY <1>4, <1>5, <1>6, <1>7 DEF IInv, VisitsInv, VisitSound
<1>10. \A w \in VisitIds :
          visit[w].type = "WALK_IN" => visit[w].day # row.day
  BY <1>2 DEF SameDay, IInv, VisitsInv, VisitSound
<1>11. WalkInOnce'
  <2> SUFFICES ASSUME NEW w \in VisitIds, NEW x \in VisitIds,
                      visit'[w].type = "WALK_IN", visit'[x].type = "WALK_IN",
                      visit'[w].status # "ABSENT", visit'[x].status # "ABSENT",
                      visit'[w].day = visit'[x].day
               PROVE  w = x
    BY DEF WalkInOnce
  <2>1. CASE w = v \/ x = v
    BY <1>6, <1>10, <2>1
  <2>2. CASE w # v /\ x # v
    BY <1>6, <2>2 DEF IInv, VisitsInv, WalkInOnce
  <2> QED
    BY <2>1, <2>2
<1>12. VisitsInv'
  BY <1>6, <1>9, <1>11 DEF VisitsInv
<1>13. CallsInv'
  <2>1. PICK r : call' = [call EXCEPT ![c] = r] /\ Formed(r) /\ Standing(r)
    BY <1>3, LeadCall, IdleStands
  <2>2. Standing(r)'
    BY <1>8, <2>1, StillStanding
  <2> QED
    BY <1>8, <2>1, <2>2, OthersStand DEF IInv
<1>14. ToldInv' /\ NoDealWithoutVisit'
  BY <1>4, <1>8, ToldKeeps, LeadKeeps DEF IInv
<1> QED
  BY <1>7, <1>12, <1>13, <1>14 DEF IInv

\* From the attendance mark to what the lead is still to be given.
LEMMA RoutesKeep ==
  ASSUME IInv, NEW c \in Calls,
         \/ markPresentFromVisit(c) \/ createVisitLog(c) \/ completeRoute(c) \/ advanceLead(c)
  PROVE  IInv'
<1>1. PICK q : q = call[c] /\ Formed(q) /\ Standing(q)
  BY RunningCall
<1>2. Unmoved
  BY DEF markPresentFromVisit, createVisitLog, completeRoute, advanceLead, Unmoved, side
<1>3. CASE markPresentFromVisit(c)
  <2>0. PICK op \in {"log", "route"} :
          \E who : call' = [call EXCEPT ![c] = [q EXCEPT !.op = op, !.who = who]]
    <3>1. PICK op, who :
            /\ op = IF /\ visit[call[c].v].status = "COMPLETED"
                       /\ visit[call[c].v].type = "STANDARD" /\ visit[call[c].v].photo
                       /\ Runner(visit[call[c].v]) # None
                       /\ Runner(visit[call[c].v]) \notin present
                    THEN "log" ELSE "route"
            /\ who = Runner(visit[call[c].v])
      OBVIOUS
    <3>2. call' = [call EXCEPT ![c].op = op, ![c].who = who]
      BY <1>3, <3>1 DEF markPresentFromVisit
    <3>3. op \in {"log", "route"}
      BY <3>1
    <3>4. call' = [call EXCEPT ![c] = [q EXCEPT !.op = op, !.who = who]]
      BY <1>1, <3>2 DEF IInv, CallsInv
    <3> QED
      BY <3>3, <3>4
  <2>1. PICK who : call' = [call EXCEPT ![c] = [q EXCEPT !.op = op, !.who = who]]
    BY <2>0
  <2>2. q.op \in ByVisit
    BY <1>1, <1>3 DEF markPresentFromVisit, ByVisit
  <2> DEFINE r == [q EXCEPT !.op = op, !.who = who]
  <2>3. Formed(r) /\ Standing(r)
    BY <1>1, <2>1, <2>2, OpCall
  <2> QED
    BY <1>2, <2>1, <2>3, CallKeeps
<1>4. CASE createVisitLog(c)
  <2> DEFINE r == [q EXCEPT !.op = "route"]
  <2>1. call' = [call EXCEPT ![c] = r] /\ q.op \in ByVisit
    BY <1>1, <1>4 DEF createVisitLog, ByVisit
  <2>2. Formed(r) /\ Standing(r)
    BY <1>1, <2>1, OpCall
  <2> QED
    BY <1>2, <2>1, <2>2, CallKeeps
<1>5. CASE completeRoute(c) \/ advanceLead(c)
  <2>1. PICK v, todo :
          call' = [call EXCEPT ![c] = IF todo = <<>> THEN Idle
                      ELSE [Idle EXCEPT !.op = "lead", !.v = v, !.todo = todo]]
    <3> DEFINE Ends(v, todo) ==
                 call' = [call EXCEPT ![c] = IF todo = <<>> THEN Idle
                             ELSE [Idle EXCEPT !.op = "lead", !.v = v, !.todo = todo]]
    <3>1. CASE completeRoute(c)
      <4>1. PICK todo :
              todo = IF OpenSiblings(call[c].v) # {} THEN <<>>
                     ELSE (IF lead \in {"QUALIFIED", "DEMO_COMPLETED"}
                           THEN <<"SITE_VISIT_SCHEDULED">> ELSE <<>>)
                          \o <<"SITE_VISIT_COMPLETED",
                               Branch(IF call[c].set.liked \cup call[c].set.refused = {}
                                      THEN call[c].set.no ELSE call[c].set.liked = {})>>
        OBVIOUS
      <4>2. Ends(call[c].v, todo)
        BY <3>1, <4>1 DEF completeRoute
      <4> QED
        BY <4>2
    <3>2. CASE advanceLead(c)
      <4>1. PICK todo :
              todo = IF OpenSiblings(call[c].v) # {} THEN <<>> ELSE Chain(lead, call[c].set.no)
        OBVIOUS
      <4>2. Ends(call[c].v, todo)
        BY <3>2, <4>1 DEF advanceLead
      <4> QED
        BY <4>2
    <3> QED
      BY <1>5, <3>1, <3>2
  <2>2. PICK r : call' = [call EXCEPT ![c] = r] /\ Formed(r) /\ Standing(r)
    BY <2>1, LeadCall, IdleStands
  <2> QED
    BY <1>2, <2>2, CallKeeps
<1> QED
  BY <1>3, <1>4, <1>5

\* The engine lets the lead past its visits only if one took place.
LEMMA StageNeedsVisit ==
  ASSUME IInv, NEW to \in Past, canTransition(lead, to, Context)
  PROVE  Visited
<1>1. lead \in Past => Visited
  BY DEF IInv, NoDealWithoutVisit, Past, Visited
<1>2. ASSUME <<lead, to>> \in transitionMatrix, to = "NEGOTIATION"
      PROVE  lead = "SITE_VISIT_COMPLETED"
  BY <1>2 DEF transitionMatrix
<1>3. ASSUME StageGuard(lead, to, Context), to = "SITE_VISIT_COMPLETED"
      PROVE  Visited
  <2>1. PICK shown \in Context.visits : shown.status = "COMPLETED"
    BY <1>3 DEF StageGuard, LiveVisits
  <2>2. PICK v \in VisitIds : shown = [status |-> visit[v].status, saidNo |-> visit[v].no]
    BY <2>1 DEF Context
  <2>3. visit[v].status = "COMPLETED"
    BY <2>1, <2>2
  <2> QED
    BY <2>3 DEF IInv, VisitsInv, VisitSound, Visited
<1> QED
  BY <1>1, <1>2, <1>3 DEF canTransition, Past

LEMMA LeadStepsKeep ==
  ASSUME IInv, NEW c \in Calls, updateLeadStatus(c) \/ updateLeadStatusTx(c)
  PROVE  IInv'
<1>1. PICK q : q = call[c] /\ Formed(q) /\ Standing(q)
  BY RunningCall
<1>2. q = [op |-> q.op, v |-> q.v, set |-> q.set, who |-> q.who, todo |-> q.todo]
  BY <1>1 DEF Formed
<1>3. CASE updateLeadStatus(c)
  <2>1. Unmoved
    BY <1>3 DEF updateLeadStatus, Unmoved, side
  <2>2. CASE canTransition(lead, Head(q.todo), Context)
    <3> DEFINE r == [q EXCEPT !.op = "leadTx"]
    <3>1. call' = [call EXCEPT ![c] = r]
      BY <1>1, <1>3, <2>2 DEF updateLeadStatus
    <3>2. r = [op |-> "leadTx", v |-> q.v, set |-> q.set, who |-> q.who, todo |-> q.todo]
      BY <1>2
    <3>3. Head(q.todo) \in Past => Visited
      <4>1. PICK to : to = Head(q.todo)
        OBVIOUS
      <4> QED
        BY <2>2, <4>1, StageNeedsVisit
    <3> HIDE DEF r
    <3>4. Formed(r) /\ Standing(r)
      BY <3>2, <3>3 DEF Formed, Standing, ByVisit, ToVisit
    <3> QED
      BY <2>1, <3>1, <3>4, CallKeeps
  <2>3. CASE ~canTransition(lead, Head(q.todo), Context)
    <3>1. call' = [call EXCEPT ![c] = Idle]
      BY <1>1, <1>3, <2>3 DEF updateLeadStatus
    <3> QED
      BY <2>1, <3>1, IdleStands, CallKeeps
  <2> QED
    BY <2>2, <2>3
<1>4. CASE updateLeadStatusTx(c)
  <2>1. /\ lead' = Head(q.todo) /\ q.op = "leadTx"
        /\ UNCHANGED <<visit, escalation, feedback, told, completions>>
    BY <1>1, <1>4 DEF updateLeadStatusTx, side
  <2>2. Steady
    BY <2>1, SteadyStill
  <2>3. NoDealWithoutVisit'
    BY <1>1, <2>1 DEF Standing, NoDealWithoutVisit, Visited, Past
  <2>4. VisitsInv' /\ FeedbackInv' /\ ToldInv'
    <3>1. VisitsInv'
      BY <2>1 DEF IInv, VisitsInv, VisitSound, WalkInOnce
    <3> QED
      BY <2>1, <2>2, <3>1, FeedbackKeeps, ToldKeeps DEF IInv
  <2>5. PICK rest : rest = Tail(q.todo)
    OBVIOUS
  <2> DEFINE one == [q EXCEPT !.op = "lead"]
             r == [one EXCEPT !.todo = rest]
  <2>6. call' = [call EXCEPT ![c] = IF rest = <<>> THEN Idle ELSE r]
    BY <1>1, <1>4, <2>5 DEF updateLeadStatusTx
  <2>7. one = [op |-> "lead", v |-> q.v, set |-> q.set, who |-> q.who, todo |-> q.todo]
    BY <1>2
  <2> HIDE DEF one
  <2>8. r = [op |-> "lead", v |-> q.v, set |-> q.set, who |-> q.who, todo |-> rest]
    BY <2>7
  <2> HIDE DEF r
  <2>9. Formed(r) /\ Standing(r)
    BY <2>8 DEF Formed, Standing, ByVisit, ToVisit
  <2>10. PICK s : call' = [call EXCEPT ![c] = s] /\ Formed(s) /\ Standing(s)
    BY <2>6, <2>9, IdleStands
  <2>11. CallsInv'
    BY <2>2, <2>10, StillStanding, OthersStand DEF IInv
  <2> QED
    BY <2>3, <2>4, <2>11 DEF IInv
<1> QED
  BY <1>3, <1>4

-----------------------------------------------------------------------------
(* The directors.                                                           *)

\* Only the escalation rows and who was told change.
LEMMA EscalationOnly ==
  ASSUME IInv, ToldInv', UNCHANGED <<visit, lead, feedback, completions>>,
         \A w \in VisitIds : escalation[w] # None => escalation'[w] # None,
         NEW c \in Calls, NEW r, call' = [call EXCEPT ![c] = r], Formed(r), Standing(r)'
  PROVE  IInv'
<1>1. Steady
  BY DEF Steady
<1>2. VisitsInv'
  BY DEF IInv, VisitsInv, VisitSound, WalkInOnce
<1>3. FeedbackInv' /\ NoDealWithoutVisit'
  BY <1>1, FeedbackKeeps, LeadKeeps DEF IInv
<1>4. CallsInv'
  BY <1>1, OthersStand DEF IInv
<1> QED
  BY <1>2, <1>3, <1>4 DEF IInv

LEMMA openEscalationKeeps ==
  ASSUME IInv, NEW c \in Calls, openEscalation(c)
  PROVE  IInv'
<1>1. PICK q : q = call[c] /\ Formed(q) /\ Standing(q)
  BY RunningCall
<1>2. q.op = "openEscalation"
  BY <1>1 DEF openEscalation
<1>3. PICK v \in VisitIds : v = q.v /\ visit[v].status # "ABSENT"
  BY <1>1, <1>2 DEF Formed, Standing, ByVisit
<1>4. UNCHANGED <<visit, lead, feedback, told, completions>>
  BY DEF openEscalation
<1>5. CASE escalation[v] = None
  <2>1. escalation' = [escalation EXCEPT ![v] = {}]
    BY <1>1, <1>3, <1>5 DEF openEscalation
  <2>2. {} # None
    BY SiteVisitsAssumption
  <2>3. /\ escalation' \in [VisitIds -> (SUBSET {"MD", "MARKETING"}) \cup {None}]
        /\ escalation'[v] = {} /\ \A w \in VisitIds \ {v} : escalation'[w] = escalation[w]
    BY <2>1 DEF IInv, ToldInv
  <2>4. told[v] = <<>>
    BY <1>5 DEF IInv, ToldInv, Told
  <2>5. ToldInv'
    <3>1. ASSUME NEW w \in VisitIds PROVE Told(w)'
      <4>1. CASE w = v
        BY <1>3, <1>4, <2>2, <2>3, <2>4, <4>1 DEF Told
      <4>2. CASE w # v
        BY <1>4, <2>3, <4>2 DEF IInv, ToldInv, Told
      <4> QED
        BY <4>1, <4>2
    <3> QED
      BY <1>4, <2>3, <3>1 DEF IInv, ToldInv
  <2>6. PICK r : r = [q EXCEPT !.op = "tell"]
    OBVIOUS
  <2>7. call' = [call EXCEPT ![c] = r]
    BY <1>1, <1>3, <1>5, <2>6 DEF openEscalation
  <2>8. r = [op |-> "tell", v |-> v, set |-> q.set, who |-> q.who, todo |-> q.todo]
    BY <1>1, <1>3, <2>6 DEF Formed
  <2>9. Formed(r) /\ Standing(r)'
    BY <1>1, <1>2, <1>3, <1>4, <2>2, <2>3, <2>8 DEF Formed, Standing, ByVisit, ToVisit
  <2>10. \A w \in VisitIds : escalation[w] # None => escalation'[w] # None
    BY <2>2, <2>3
  <2> QED
    BY <1>4, <2>5, <2>7, <2>9, <2>10, EscalationOnly
<1>6. CASE escalation[v] # None
  BY <1>1, <1>3, <1>4, <1>6, IdleStands, CallKeeps DEF openEscalation, Unmoved
<1> QED
  BY <1>5, <1>6

\* A director is told together with the mark, and only if the mark was not there.
LEMMA tellDirectorKeeps ==
  ASSUME IInv, NEW c \in Calls, tellDirector(c)
  PROVE  IInv'
<1>1. PICK q : q = call[c] /\ Formed(q) /\ Standing(q)
  BY RunningCall
<1>2. q.op = "tell"
  BY <1>1 DEF tellDirector
<1>3. PICK v \in VisitIds : v = q.v /\ visit[v].status # "ABSENT" /\ escalation[v] # None
  BY <1>1, <1>2 DEF Formed, Standing, ByVisit
<1>4. UNCHANGED <<visit, lead, feedback, completions>>
  BY DEF tellDirector
<1>5. CASE q.todo = <<>>
  <2>1. Finish(c) /\ UNCHANGED <<escalation, told>>
    BY <1>1, <1>5 DEF tellDirector
  <2> QED
    BY <1>4, <2>1, FinishKeeps DEF Unmoved
<1>6. CASE q.todo # <<>>
  <2>1. q.todo \in Seq({"MD", "MARKETING"})
    BY <1>1, <1>2 DEF Formed
  <2>2. PICK d \in {"MD", "MARKETING"}, rest \in Seq({"MD", "MARKETING"}) :
          d = Head(q.todo) /\ rest = Tail(q.todo)
    <3>1. Head(q.todo) \in {"MD", "MARKETING"}
      BY <1>6, <2>1
    <3>2. Tail(q.todo) \in Seq({"MD", "MARKETING"})
      BY <1>6, <2>1
    <3> QED
      BY <3>1, <3>2
  <2>3. PICK marked \in SUBSET {"MD", "MARKETING"}, old \in Seq({"MD", "MARKETING"}) :
          marked = escalation[v] /\ old = told[v]
    <3>1. escalation[v] \in SUBSET {"MD", "MARKETING"}
      BY <1>3 DEF IInv, ToldInv
    <3>2. told[v] \in Seq({"MD", "MARKETING"})
      BY DEF IInv, ToldInv
    <3> QED
      BY <3>1, <3>2
  <2>4. PICK new : new = IF d \notin marked THEN Append(old, d) ELSE old
    OBVIOUS
  <2>5. /\ escalation' = [escalation EXCEPT ![v] = marked \cup {d}]
        /\ told' = [told EXCEPT ![v] = new]
        /\ call' = [call EXCEPT ![c].todo = rest]
    BY <1>1, <1>3, <1>6, <2>2, <2>3, <2>4 DEF tellDirector, NotYetTold
  <2>6. /\ \A i \in DOMAIN old : old[i] \in marked
        /\ \A i, j \in DOMAIN old : old[i] = old[j] => i = j
    BY <2>3 DEF IInv, ToldInv, Told
  <2>7. /\ new \in Seq({"MD", "MARKETING"})
        /\ \A i \in DOMAIN new : new[i] \in marked \cup {d}
        /\ \A i, j \in DOMAIN new : new[i] = new[j] => i = j
    <3>1. CASE d \in marked
      BY <2>4, <2>6, <3>1
    <3>2. CASE d \notin marked
      <4>1. new = Append(old, d)
        BY <2>4, <3>2
      <4>2. /\ Len(old) \in Nat /\ DOMAIN old = 1 .. Len(old)
            /\ DOMAIN new = 1 .. Len(old) + 1 /\ new[Len(old) + 1] = d
            /\ \A i \in 1 .. Len(old) : new[i] = old[i]
            /\ new \in Seq({"MD", "MARKETING"})
        BY <4>1
      <4>3. \A i \in DOMAIN new : i = Len(old) + 1 \/ (i \in DOMAIN old /\ new[i] = old[i])
        BY <4>2
      <4> QED
        BY <2>6, <3>2, <4>2, <4>3
    <3> QED
      BY <3>1, <3>2
  <2>8. marked \cup {d} # None /\ marked \cup {d} \in SUBSET {"MD", "MARKETING"}
    BY SiteVisitsAssumption
  <2>9. /\ escalation' \in [VisitIds -> (SUBSET {"MD", "MARKETING"}) \cup {None}]
        /\ told' \in [VisitIds -> Seq({"MD", "MARKETING"})]
        /\ escalation'[v] = marked \cup {d} /\ told'[v] = new
        /\ \A w \in VisitIds \ {v} : escalation'[w] = escalation[w] /\ told'[w] = told[w]
    BY <2>5, <2>7, <2>8 DEF IInv, ToldInv
  <2>10. ToldInv'
    <3>1. ASSUME NEW w \in VisitIds PROVE Told(w)'
      <4>1. CASE w = v
        BY <1>3, <1>4, <2>7, <2>8, <2>9, <4>1 DEF Told
      <4>2. CASE w # v
        BY <1>4, <2>9, <4>2 DEF IInv, ToldInv, Told
      <4> QED
        BY <4>1, <4>2
    <3> QED
      BY <2>9, <3>1 DEF ToldInv
  <2>11. PICK r : r = [q EXCEPT !.todo = rest]
    OBVIOUS
  <2>12. call' = [call EXCEPT ![c] = r]
    BY <1>1, <2>5, <2>11
  <2>13. r = [op |-> "tell", v |-> v, set |-> q.set, who |-> q.who, todo |-> rest]
    BY <1>1, <1>2, <1>3, <2>11 DEF Formed
  <2>14. Formed(r) /\ Standing(r)'
    BY <1>3, <1>4, <2>8, <2>9, <2>13 DEF Formed, Standing, ByVisit, ToVisit
  <2>15. \A w \in VisitIds : escalation[w] # None => escalation'[w] # None
    BY <2>8, <2>9
  <2> QED
    BY <1>4, <2>10, <2>12, <2>14, <2>15, EscalationOnly
<1> QED
  BY <1>5, <1>6

-----------------------------------------------------------------------------
(* The invariant and what follows from it.                                  *)

LEMMA InitInv == Init => IInv
<1> SUFFICES ASSUME Init PROVE IInv
  OBVIOUS
<1>1. \A v \in VisitIds : visit[v] \in StartRows \/ visit[v] = NoVisit
  BY DEF Init
<1>2. \A v \in VisitIds :
        /\ visit[v] \in Row /\ visit[v].type # "WALK_IN" /\ visit[v].status # "COMPLETED"
        /\ visit[v].status # "ABSENT" /\ visit[v].type = "STANDARD" => visit[v].pm # None
  BY <1>1, StartRowsAssumption, NoVisitRow DEF NoVisit, Finished
<1>3. VisitsInv
  BY <1>2 DEF Init, VisitsInv, VisitSound, WalkInOnce
<1>4. CallsInv
  <2>1. \A c \in Calls : call[c] = Idle
    BY DEF Init
  <2>2. call = [c \in Calls |-> call[c]]
    BY DEF Init
  <2>3. \A c \in Calls : Formed(call[c]) /\ Standing(call[c])
    BY <2>1, IdleStands
  <2> QED
    BY <2>2, <2>3 DEF CallsInv
<1>5. FeedbackInv
  BY DEF Init, FeedbackInv, CompletedOnce
<1>6. ToldInv
  <2>1. <<>> \in Seq({"MD", "MARKETING"}) /\ DOMAIN <<>> = {}
    OBVIOUS
  <2>2. \A v \in VisitIds : escalation[v] = None /\ told[v] = <<>>
    BY DEF Init
  <2>3. /\ escalation \in [VisitIds -> (SUBSET {"MD", "MARKETING"}) \cup {None}]
        /\ told \in [VisitIds -> Seq({"MD", "MARKETING"})]
    BY <2>1 DEF Init
  <2> QED
    BY <2>1, <2>2, <2>3 DEF ToldInv, Told
<1>7. NoDealWithoutVisit
  BY DEF Init, NoDealWithoutVisit
<1> QED
  BY <1>3, <1>4, <1>5, <1>6, <1>7 DEF IInv

LEMMA CommitsKeep ==
  ASSUME IInv, NEW c \in Calls, Commits(c)
  PROVE  IInv'
<1>1. CASE Abandon(c)
  BY <1>1, FinishKeeps DEF Abandon, Unmoved, side
<1> QED
  BY <1>1, applyTransitionKeeps, completeVisitKeeps, directOutcomeKeeps, recordWalkInKeeps,
     RoutesKeep, LeadStepsKeep, openEscalationKeeps, tellDirectorKeeps
  DEF Commits

LEMMA NextInv == IInv /\ [Next]_vars => IInv'
<1> SUFFICES ASSUME IInv, [Next]_vars PROVE IInv'
  OBVIOUS
<1>1. ASSUME NEW c \in Calls, Commits(c) PROVE IInv'
  BY <1>1, CommitsKeep
<1>2. ASSUME NEW c \in Calls, NEW e \in Employees, NEW v \in VisitIds, Requests(c, e, v)
      PROVE  IInv'
  BY <1>2, RequestsKeep
<1>3. ASSUME NEW c \in Calls, NEW v \in VisitIds, siteVisitEscalationJob(c, v) PROVE IInv'
  BY <1>3, EscalationJobKeeps
<1>4. ASSUME NEW c \in Calls, NEW e, NEW to, moveLead(c, e, to) PROVE IInv'
  <2>1. PICK v : v = CHOOSE w \in VisitIds : TRUE
    OBVIOUS
  <2>2. FollowUp(c, v, <<to>>) /\ Unmoved
    BY <1>4, <2>1 DEF moveLead, Unmoved, side
  <2> QED
    BY <2>2, FollowUpCall, CallKeeps
<1>5. ASSUME NEW old \in ProjectPMs, NEW new \in ProjectPMs, moveOpenVisitsToNewPm(old, new)
      PROVE  IInv'
  BY <1>5, moveOpenVisitsKeeps
<1>6. ASSUME NEW v \in VisitIds, submitFeedback(v) PROVE IInv'
  <2>1. UNCHANGED <<visit, lead, escalation, told, completions, call>>
    BY <1>6 DEF submitFeedback
  <2>2. Steady
    BY <2>1, SteadyStill
  <2>3. FeedbackInv'
    BY <1>6, <2>1 DEF submitFeedback, IInv, FeedbackInv, CompletedOnce
  <2>4. VisitsInv'
    BY <2>1 DEF IInv, VisitsInv, VisitSound, WalkInOnce
  <2>5. CallsInv' /\ ToldInv' /\ NoDealWithoutVisit'
    BY <2>1, <2>2, AllStand, ToldKeeps, LeadKeeps DEF IInv
  <2> QED
    BY <2>3, <2>4, <2>5 DEF IInv
<1>7. CASE NextDay \/ UNCHANGED vars
  <2>1. Unmoved /\ call' = call
    BY <1>7 DEF NextDay, vars, Unmoved
  <2>2. CallsInv'
    BY <2>1, SteadyStill, AllStand DEF IInv, Unmoved
  <2> QED
    BY <2>1, <2>2, UnmovedKeeps
<1> QED
  BY <1>1, <1>2, <1>3, <1>4, <1>5, <1>6, <1>7 DEF Next, Idling

\* The inductive invariant holds, whatever handlers overlap, fail or are repeated.
THEOREM Correct == Spec => []IInv
  BY InitInv, NextInv, PTL DEF Spec

\* Of all the completions of a visit, made by however many handlers at once, one asks the
\* customer for feedback; and no two walk-ins of a day are both recorded
\* (siteVisit/lifecycle.ts, direct.ts, walkIn.ts).
THEOREM VisitsCorrect == Spec => []VisitsHappenOnce
<1>1. IInv => VisitsHappenOnce
  BY DEF IInv, FeedbackInv, VisitsInv, VisitsHappenOnce
<1> QED
  BY <1>1, Correct, PTL

\* The lead reaches the stages after its visits only if one took place, whatever cascade of
\* status changes brought it there (siteVisit routes, lead/status.ts).
THEOREM StagesCorrect == Spec => []NoDealWithoutVisit
<1>1. IInv => NoDealWithoutVisit
  BY DEF IInv
<1> QED
  BY <1>1, Correct, PTL

\* A waiting visit that nobody has is on the directors' list, and overlapping runs of the
\* escalation job tell each of them once (jobs/tasks.ts, siteVisit/booking.ts).
THEOREM DirectorsCorrect == Spec => []DirectorsTold
<1>1. IInv => DirectorsTold
  <2> SUFFICES ASSUME IInv PROVE DirectorsTold
    OBVIOUS
  <2>1. UnroutedIsEscalated
    BY DEF IInv, VisitsInv, VisitSound, UnroutedIsEscalated
  <2>2. DirectorToldOnce
    BY DEF IInv, ToldInv, Told, DirectorToldOnce
  <2> QED
    BY <2>1, <2>2 DEF DirectorsTold
<1> QED
  BY <1>1, Correct, PTL
=============================================================================
