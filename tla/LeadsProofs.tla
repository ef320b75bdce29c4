----------------------------- MODULE LeadsProofs -----------------------------
(***************************************************************************)
(* What is proved about Leads for every set of customers, leads, employees *)
(* and concurrent handlers.  All of it rests on one inductive invariant:   *)
(* the types, what a running handler has established before its write      *)
(* (Formed), and, for each lead, how its histories stand to its row        *)
(* (Counted).                                                              *)
(***************************************************************************)
EXTENDS Leads, TLAPS

\* What the handler with request r knew when it read.
Formed(r) ==
    /\ r.op # "IDLE" => r.lead \in LeadIds
    /\ r.op \in {"claim", "recover", "log", "create"} => r.by \in Employees
    /\ r.op \in {"reassign", "transfer", "batch"} => r.goal \in Employees
    /\ r.op = "inventory" => r.goal \in Employees \cup {None}
    /\ r.op = "status" => r.goal \in LeadStatus
    /\ r.op = "create" => r.goal \in Phones

CallsFormed == \A c \in Calls : Formed(call[c])

\* A lead without an owner has no claim since, one that wants inventory has been dropped
\* for it once more than it came back.
Counted(l) ==
    /\ claims[l] <= 1
    /\ lead[l].owner = None => claims[l] = 0
    /\ inventory[l].recoveries <= inventory[l].drops
    /\ WantsInventory(lead[l]) => inventory[l].recoveries < inventory[l].drops

LeadsCounted == \A l \in LeadIds : Counted(l)

IInv == TypeOK /\ CallsFormed /\ LeadsCounted

-----------------------------------------------------------------------------
(* The rows and requests that steps make.                                   *)

LEMMA AbsentRow == Absent \in Row
  BY DEF Absent, Row

LEMMA IdleCall == Idle \in Call /\ Formed(Idle)
  BY AbsentRow DEF Idle, Call, Op, Formed

LEMMA NewOwners == \A e \in BestAssignees : e \in Employees \cup {None}
  BY LeadsAssumption DEF BestAssignees

LEMMA FreeRow ==
  ASSUME \E l \in LeadIds : ~Exists(l)
  PROVE  FirstFree \in LeadIds /\ lead[FirstFree].status = "ABSENT"
  BY DEF FirstFree, Exists

\* A request of c is replaced by one that is formed as well.
LEMMA NewCall ==
  ASSUME TypeOK, CallsFormed, NEW c \in Calls, NEW r \in Call, Formed(r),
         call' = [call EXCEPT ![c] = r]
  PROVE  call' \in [Calls -> Call] /\ CallsFormed'
<1>1. call' \in [Calls -> Call]
  BY DEF TypeOK
<1>2. \A d \in Calls : call'[d] = r \/ call'[d] = call[d]
  BY DEF TypeOK
<1>3. \A d \in Calls : Formed(call'[d])
  BY <1>2 DEF CallsFormed
<1> QED
  BY <1>1, <1>3 DEF CallsFormed, Formed

LEMMA NoCall ==
  ASSUME TypeOK, CallsFormed, NEW c \in Calls, Done(c)
  PROVE  call' \in [Calls -> Call] /\ CallsFormed' /\ UNCHANGED requests
  BY NewCall, IdleCall DEF Done

\* Writing a whole row keeps its histories.
LEMMA WriteKeeps ==
  ASSUME TypeOK, LeadsCounted, NEW l \in LeadIds, NEW row \in Row, Write(l, row)
  PROVE  /\ lead' \in [LeadIds -> Row]
         /\ claims' \in [LeadIds -> Nat]
         /\ inventory' \in [LeadIds -> [drops : Nat, recoveries : Nat]]
         /\ LeadsCounted'
<1>1. lead' \in [LeadIds -> Row] /\ lead'[l] = row
  BY DEF Write, TypeOK
<1>2. claims' \in [LeadIds -> Nat] /\ claims'[l] = IF row.owner = None THEN 0 ELSE claims[l]
  BY DEF Write, TypeOK
<1>3. PICK n \in Nat :
        /\ n = IF WantsInventory(row) /\ ~WantsInventory(lead[l])
               THEN inventory[l].drops + 1 ELSE inventory[l].drops
        /\ inventory' = [inventory EXCEPT ![l].drops = n]
  <2> DEFINE m == IF WantsInventory(row) /\ ~WantsInventory(lead[l])
                  THEN inventory[l].drops + 1 ELSE inventory[l].drops
  <2>1. m \in Nat
    BY DEF TypeOK
  <2>2. inventory' = [inventory EXCEPT ![l].drops = m]
    BY DEF Write
  <2>3. m = IF WantsInventory(row) /\ ~WantsInventory(lead[l])
            THEN inventory[l].drops + 1 ELSE inventory[l].drops
    OBVIOUS
  <2> HIDE DEF m
  <2> QED
    BY <2>1, <2>2, <2>3
<1>4. /\ inventory' \in [LeadIds -> [drops : Nat, recoveries : Nat]]
      /\ inventory'[l].drops = n /\ inventory'[l].recoveries = inventory[l].recoveries
  BY <1>3 DEF TypeOK
<1>5. Counted(l)'
  <2>1. /\ Counted(l) /\ claims[l] \in Nat
        /\ inventory[l].drops \in Nat /\ inventory[l].recoveries \in Nat
    BY DEF LeadsCounted, TypeOK
  <2> QED
    BY <1>1, <1>2, <1>3, <1>4, <2>1 DEF Counted
<1>6. ASSUME NEW k \in LeadIds, k # l
      PROVE  Counted(k)'
  <2>1. lead'[k] = lead[k] /\ claims'[k] = claims[k] /\ inventory'[k] = inventory[k]
    BY <1>3, <1>6 DEF Write, TypeOK
  <2> QED
    BY <2>1 DEF LeadsCounted, Counted
<1> QED
  BY <1>1, <1>2, <1>4, <1>5, <1>6 DEF LeadsCounted

\* The read half of a handler.
LEMMA BeginKeeps ==
  ASSUME IInv, requests < MaxRequests, NEW c \in Calls, NEW op \in Op,
         NEW e \in Employees \cup {None}, NEW l \in LeadIds,
         NEW goal \in LeadStatus \cup Employees \cup Phones \cup {None},
         NEW exit \in ExitReason \cup {None}, NEW met \in BOOLEAN,
         Begin(c, op, e, l, goal, exit, met),
         Formed([op |-> op, by |-> e, lead |-> l, seen |-> lead[l],
                 goal |-> goal, exit |-> exit, met |-> met, todo |-> {}])
  PROVE  IInv'
<1> DEFINE r == [op |-> op, by |-> e, lead |-> l, seen |-> lead[l],
                 goal |-> goal, exit |-> exit, met |-> met, todo |-> {}]
<1>1. r \in Call
  BY DEF Call, IInv, TypeOK
<1>2. call' = [call EXCEPT ![c] = r] /\ ReadOnly /\ requests' = requests + 1
  BY DEF Begin
<1>3. Formed(r)
  OBVIOUS
<1> HIDE DEF r
<1>4. call' \in [Calls -> Call] /\ CallsFormed'
  BY <1>1, <1>2, <1>3, NewCall DEF IInv
<1>5. requests' \in 0 .. MaxRequests
  BY <1>2, LeadsAssumption DEF IInv, TypeOK
<1>6. TypeOK'
  BY <1>2, <1>4, <1>5 DEF IInv, TypeOK, ReadOnly
<1>7. LeadsCounted'
  BY <1>2 DEF IInv, LeadsCounted, Counted, ReadOnly
<1> QED
  BY <1>4, <1>6, <1>7 DEF IInv

-----------------------------------------------------------------------------
(* Handlers that start.                                                     *)

LEMMA HandKeeps ==
  ASSUME IInv, requests < MaxRequests, NEW c \in Calls, Hand(c)
  PROVE  IInv'
<1> USE LeadsAssumption DEF Op, Formed
<1>1. ASSUME NEW e \in Employees, NEW l \in LeadIds, claimLead(c, e, l)
      PROVE  IInv'
  BY <1>1, BeginKeeps DEF claimLead
<1>2. ASSUME NEW e \in Employees, NEW to \in Employees, NEW l \in LeadIds,
             reassignLead(c, e, l, to)
      PROVE  IInv'
  BY <1>2, BeginKeeps DEF reassignLead
<1>3. ASSUME NEW e \in Employees, NEW to \in Employees, NEW l \in LeadIds,
             transferLead(c, e, l, to)
      PROVE  IInv'
  BY <1>3, BeginKeeps DEF transferLead
<1>4. ASSUME NEW e \in Employees, NEW to \in Employees, NEW l \in LeadIds,
             moveUploadBatch(c, e, l, to)
      PROVE  IInv'
  BY <1>4, BeginKeeps DEF moveUploadBatch
<1> QED
  BY <1>1, <1>2, <1>3, <1>4 DEF Hand

LEMMA WorkKeeps ==
  ASSUME IInv, requests < MaxRequests, NEW c \in Calls, Work(c)
  PROVE  IInv'
<1> USE LeadsAssumption DEF Op, Formed
<1>1. ASSUME NEW e \in Employees, NEW l \in LeadIds, NEW to \in LeadStatus,
             NEW exit \in IF to = "DROPPED" THEN ExitReason ELSE {None},
             updateLeadStatus(c, e, l, to, exit)
      PROVE  IInv'
  BY <1>1, BeginKeeps DEF updateLeadStatus
<1>2. ASSUME NEW e \in Employees, NEW l \in LeadIds, NEW met \in BOOLEAN,
             NEW drop \in IF met THEN {None, "DO_NOT_CALL", "OTHER"} ELSE {None},
             logCall(c, e, l, met, drop)
      PROVE  IInv'
  <2>1. drop \in ExitReason \cup {None}
    BY DEF ExitReason
  <2> QED
    BY <1>2, <2>1, BeginKeeps DEF logCall
<1> QED
  BY <1>1, <1>2 DEF Work

LEMMA ReturnKeeps ==
  ASSUME IInv, requests < MaxRequests, NEW c \in Calls, Return(c)
  PROVE  IInv'
<1> USE LeadsAssumption DEF Op, Formed
<1>1. ASSUME NEW e \in Employees, NEW p \in Phones, createLead(c, e, p)
      PROVE  IInv'
  BY <1>1, BeginKeeps DEF createLead
<1>2. ASSUME NEW e \in Employees, NEW l \in LeadIds, newEnquiry(c, e, l)
      PROVE  IInv'
  BY <1>2, BeginKeeps DEF newEnquiry
<1>3. ASSUME NEW e \in Employees, NEW l \in LeadIds, bulkUploadExisting(c, e, l)
      PROVE  IInv'
  <2>1. "RECOVERED_TO_POOL" \in LeadStatus
    BY DEF LeadStatus
  <2> QED
    BY <1>3, <2>1, BeginKeeps DEF bulkUploadExisting
<1>4. ASSUME NEW e \in Employees, NEW l \in LeadIds, recoverManualLead(c, e, l)
      PROVE  IInv'
  BY <1>4, BeginKeeps DEF recoverManualLead
<1>5. ASSUME NEW l \in LeadIds, recoverMatchedDroppedLeads(c, l)
      PROVE  IInv'
  <2>1. PICK next \in IF lead[l].owner = None THEN BestAssignees ELSE {lead[l].owner} :
           Begin(c, "inventory", None, l, next, None, FALSE)
    BY <1>5 DEF recoverMatchedDroppedLeads
  <2>2. next \in Employees \cup {None}
    BY NewOwners DEF IInv, TypeOK, Row
  <2>3. Formed([op |-> "inventory", by |-> None, lead |-> l, seen |-> lead[l],
                goal |-> next, exit |-> None, met |-> FALSE, todo |-> {}])
    BY <2>2
  <2> HIDE DEF Formed
  <2> QED
    BY <2>1, <2>2, <2>3, BeginKeeps
<1> QED
  BY <1>1, <1>2, <1>3, <1>4, <1>5 DEF Return

-----------------------------------------------------------------------------
(* Handlers that write.                                                     *)

\* A step that writes one row, ends with a formed request, and leaves the call-backs and
\* the days of calls typed.
LEMMA CommitKeeps ==
  ASSUME IInv, NEW l \in LeadIds, NEW row \in Row, Write(l, row),
         call' \in [Calls -> Call], CallsFormed', requests' \in 0 .. MaxRequests,
         callBacks' \subseteq LeadIds \X Employees,
         callDays' \in [LeadIds -> 0 .. UnreachableDays]
  PROVE  IInv'
<1>1. /\ lead' \in [LeadIds -> Row]
      /\ claims' \in [LeadIds -> Nat]
      /\ inventory' \in [LeadIds -> [drops : Nat, recoveries : Nat]]
      /\ LeadsCounted'
  BY WriteKeeps DEF IInv
<1> QED
  BY <1>1 DEF IInv, TypeOK

LEMMA MovedRow ==
  ASSUME TypeOK, NEW l \in LeadIds, NEW seen \in Row, NEW to \in Employees
  PROVE  Moved(l, seen, to) \in Row
  BY DEF Moved, Row, TypeOK, LeadStatus, Working

LEMMA UpdatedRow ==
  ASSUME TypeOK, NEW l \in LeadIds, NEW to \in LeadStatus, NEW exit \in ExitReason \cup {None},
         NEW next \in Employees \cup {None}
  PROVE  Updated(l, to, exit, next) \in Row
  BY DEF Updated, Row, TypeOK, LeadStatus, Working

LEMMA TransitionTypes ==
  ASSUME NEW l, NEW seen, NEW row, NEW open, open \subseteq LeadIds \X Employees,
         transitionLead(l, seen, row, open)
  PROVE  Write(l, row) /\ callBacks' \subseteq LeadIds \X Employees
  BY DEF transitionLead, closeCallBackTasks

LEMMA ClaimKeeps ==
  ASSUME IInv, NEW c \in Calls, claimLeadTx(c)
  PROVE  IInv'
<1> USE DEF IInv
<1>1. PICK l : l = call[c].lead
  OBVIOUS
<1>2. PICK e : e = call[c].by
  OBVIOUS
<1>3. l \in LeadIds /\ e \in Employees /\ e # None
  BY <1>1, <1>2, LeadsAssumption DEF claimLeadTx, CallsFormed, Formed
<1>4. /\ lead[l].owner = None /\ lead[l].status = "NEW"
      /\ lead' = [lead EXCEPT ![l] = [phone |-> lead[l].phone, status |-> "ASSIGNED", owner |-> e,
                                      exit |-> lead[l].exit]]
      /\ claims' = [claims EXCEPT ![l] = claims[l] + 1]
      /\ Done(c) /\ UNCHANGED <<callBacks, callDays, inventory>>
  BY <1>1, <1>2 DEF claimLeadTx, StillFree
<1>5. [phone |-> lead[l].phone, status |-> "ASSIGNED", owner |-> e, exit |-> lead[l].exit] \in Row
  BY <1>3 DEF Row, TypeOK, LeadStatus, Working
<1>6. TypeOK' /\ CallsFormed'
  <2>1. lead' \in [LeadIds -> Row]
    BY <1>4, <1>5 DEF TypeOK
  <2>2. claims' \in [LeadIds -> Nat]
    BY <1>3, <1>4 DEF TypeOK
  <2> QED
    BY <1>4, <2>1, <2>2, NoCall DEF TypeOK
<1>7. ASSUME NEW k \in LeadIds
      PROVE  Counted(k)'
  <2>1. Counted(k) /\ inventory'[k] = inventory[k]
    BY <1>4 DEF LeadsCounted
  <2>2. CASE k = l
    <3>1. lead'[k].owner = e /\ lead'[k].status = "ASSIGNED" /\ claims'[k] = claims[k] + 1
      BY <1>3, <1>4, <2>2 DEF TypeOK
    <3>2. claims[k] = 0
      BY <1>4, <2>1, <2>2 DEF Counted
    <3> QED
      BY <1>3, <2>1, <3>1, <3>2 DEF Counted, WantsInventory
  <2>3. CASE k # l
    <3>1. lead'[k] = lead[k] /\ claims'[k] = claims[k]
      BY <1>4, <2>3 DEF TypeOK
    <3> QED
      BY <2>1, <3>1 DEF Counted
  <2> QED
    BY <2>2, <2>3
<1> QED
  BY <1>6, <1>7 DEF LeadsCounted

LEMMA RecoverMatchedKeeps ==
  ASSUME IInv, NEW c \in Calls, recoverMatchedUpdate(c)
  PROVE  IInv'
<1> USE DEF IInv
<1>1. PICK l : l = call[c].lead
  OBVIOUS
<1>2. PICK owner : owner = IF call[c].seen.owner = None THEN call[c].goal ELSE lead[l].owner
  OBVIOUS
<1>3. PICK status : status = IF call[c].goal = None THEN "NEW" ELSE "ASSIGNED"
  OBVIOUS
<1>4. l \in LeadIds /\ call[c].goal \in Employees \cup {None}
  BY <1>1 DEF recoverMatchedUpdate, CallsFormed, Formed
<1>5. owner \in Employees \cup {None}
  BY <1>2, <1>4 DEF TypeOK, Row
<1>6. /\ WantsInventory(lead[l])
      /\ lead' = [lead EXCEPT ![l] = [phone |-> lead[l].phone, owner |-> owner, exit |-> None,
                                      status |-> status]]
      /\ inventory' = [inventory EXCEPT ![l].recoveries = inventory[l].recoveries + 1]
      /\ claims' = [claims EXCEPT ![l] = IF owner = None THEN 0 ELSE claims[l]]
      /\ Done(c) /\ UNCHANGED <<callBacks, callDays>>
  BY <1>1, <1>2, <1>3 DEF recoverMatchedUpdate, StillWants
<1>7. [phone |-> lead[l].phone, owner |-> owner, exit |-> None, status |-> status] \in Row
  BY <1>3, <1>4, <1>5 DEF Row, TypeOK, LeadStatus, Working
<1>8. TypeOK' /\ CallsFormed'
  <2>1. lead' \in [LeadIds -> Row]
    BY <1>6, <1>7 DEF TypeOK
  <2>2. claims' \in [LeadIds -> Nat]
    BY <1>4, <1>6 DEF TypeOK
  <2>3. inventory' \in [LeadIds -> [drops : Nat, recoveries : Nat]]
    BY <1>4, <1>6 DEF TypeOK
  <2> QED
    BY <1>6, <2>1, <2>2, <2>3, NoCall DEF TypeOK
<1>9. ASSUME NEW k \in LeadIds
      PROVE  Counted(k)'
  <2>1. /\ Counted(k) /\ claims[k] \in Nat
        /\ inventory[k].drops \in Nat /\ inventory[k].recoveries \in Nat
    BY DEF LeadsCounted, TypeOK
  <2>2. CASE k = l
    <3>1. /\ lead'[k].owner = owner /\ lead'[k].exit = None
          /\ claims'[k] = IF owner = None THEN 0 ELSE claims[k]
      BY <1>4, <1>6, <2>2 DEF TypeOK
    <3>2. /\ inventory'[k].drops = inventory[k].drops
          /\ inventory'[k].recoveries = inventory[k].recoveries + 1
      BY <1>4, <1>6, <2>2 DEF TypeOK
    <3>3. None # "NO_MATCHING_INVENTORY"
      BY NullAssumption DEF ExitReason
    <3> QED
      BY <1>6, <2>1, <2>2, <3>1, <3>2, <3>3 DEF Counted, WantsInventory
  <2>3. CASE k # l
    <3>1. lead'[k] = lead[k] /\ claims'[k] = claims[k] /\ inventory'[k] = inventory[k]
      BY <1>6, <2>3 DEF TypeOK
    <3> QED
      BY <2>1, <3>1 DEF Counted
  <2> QED
    BY <2>2, <2>3
<1> QED
  BY <1>8, <1>9 DEF LeadsCounted

LEMMA MoveKeeps ==
  ASSUME IInv, NEW c \in Calls,
         reassignLeadTx(c) \/ moveLeadOwnership(c) \/ moveUploadBatchTx(c)
  PROVE  IInv'
<1> USE DEF IInv
<1>1. PICK r \in Call : r = call[c] /\ Formed(r)
  BY DEF TypeOK, CallsFormed
<1>2. /\ r.lead \in LeadIds /\ r.goal \in Employees /\ r.seen \in Row
      /\ r.op \in {"reassign", "transfer", "batch"}
  BY <1>1 DEF reassignLeadTx, moveLeadOwnership, moveUploadBatchTx, Formed, Call
<1>3. Done(c) /\ UNCHANGED callDays
  BY DEF reassignLeadTx, moveLeadOwnership, moveUploadBatchTx
<1>4. call' \in [Calls -> Call] /\ CallsFormed' /\ requests' \in 0 .. MaxRequests
  BY <1>3, NoCall DEF TypeOK
<1>5. callDays' \in [LeadIds -> 0 .. UnreachableDays]
  BY <1>3 DEF TypeOK
<1>6. Moved(r.lead, r.seen, r.goal) \in Row
  BY <1>2, MovedRow
<1>7. ASSUME NEW open, open \subseteq LeadIds \X Employees,
             transitionLead(r.lead, r.seen, Moved(r.lead, r.seen, r.goal), open)
      PROVE  IInv'
  <2>1. /\ Write(r.lead, Moved(r.lead, r.seen, r.goal))
        /\ callBacks' \subseteq LeadIds \X Employees
    BY <1>7, TransitionTypes
  <2> QED
    BY <1>2, <1>4, <1>5, <1>6, <2>1, CommitKeeps
<1>8. CASE reassignLeadTx(c)
  BY <1>1, <1>7, <1>8 DEF reassignLeadTx, TypeOK
<1>9. CASE moveLeadOwnership(c)
  <2>1. PICK open : /\ open \in {callBacks, (callBacks \ {<<r.lead, r.seen.owner>>})
                                              \cup {<<r.lead, r.goal>>}}
                    /\ transitionLead(r.lead, r.seen, Moved(r.lead, r.seen, r.goal), open)
    BY <1>1, <1>9 DEF moveLeadOwnership
  <2>2. open \subseteq LeadIds \X Employees
    BY <1>2, <2>1 DEF TypeOK
  <2> QED
    BY <1>7, <2>1, <2>2
<1>10. CASE moveUploadBatchTx(c)
  <2> DEFINE row == [phone |-> lead[r.lead].phone, status |-> "ASSIGNED", owner |-> r.goal,
                     exit |-> lead[r.lead].exit]
  <2>1. row \in Row
    BY <1>2 DEF Row, TypeOK, LeadStatus, Working
  <2>2. Write(r.lead, row) /\ UNCHANGED callBacks
    BY <1>1, <1>10 DEF moveUploadBatchTx
  <2> HIDE DEF row
  <2>3. callBacks' \subseteq LeadIds \X Employees
    BY <2>2 DEF TypeOK
  <2> QED
    BY <1>2, <1>4, <1>5, <2>1, <2>2, <2>3, CommitKeeps
<1> QED
  BY <1>8, <1>9, <1>10

LEMMA StatusKeeps ==
  ASSUME IInv, NEW c \in Calls, updateLeadStatusTx(c) \/ bulkUploadRecover(c)
  PROVE  IInv'
<1> USE DEF IInv
<1>1. PICK r \in Call : r = call[c] /\ Formed(r)
  BY DEF TypeOK, CallsFormed
<1>2. r.lead \in LeadIds /\ r.seen \in Row /\ r.exit \in ExitReason \cup {None}
  BY <1>1 DEF updateLeadStatusTx, bulkUploadRecover, Formed, Call
<1>3. callDays' \in [LeadIds -> 0 .. UnreachableDays]
  BY DEF updateLeadStatusTx, bulkUploadRecover, TypeOK
<1>4. ASSUME NEW row \in Row, NEW seen, transitionLead(r.lead, seen, row, callBacks),
             call' \in [Calls -> Call], CallsFormed', UNCHANGED requests
      PROVE  IInv'
  <2>1. Write(r.lead, row) /\ callBacks' \subseteq LeadIds \X Employees
    BY <1>4, TransitionTypes DEF TypeOK
  <2>2. requests' \in 0 .. MaxRequests
    BY <1>4 DEF TypeOK
  <2> QED
    BY <1>2, <1>3, <1>4, <2>1, <2>2, CommitKeeps
<1>5. CASE updateLeadStatusTx(c)
  <2>1. r.op = "status" /\ r.goal \in LeadStatus
    BY <1>1, <1>5 DEF updateLeadStatusTx, Formed
  <2>2. PICK next \in BestAssignees :
          transitionLead(r.lead, r.seen, Updated(r.lead, r.goal, r.exit, next), callBacks)
    BY <1>1, <1>5 DEF updateLeadStatusTx
  <2>3. Updated(r.lead, r.goal, r.exit, next) \in Row
    BY <1>2, <2>1, NewOwners, UpdatedRow
  <2>4. call' \in [Calls -> Call] /\ CallsFormed' /\ UNCHANGED requests
    <3>1. PICK s : /\ s = IF r.todo = {} THEN Idle ELSE [r EXCEPT !.op = "next"]
                   /\ call' = [call EXCEPT ![c] = s]
      BY <1>1, <1>5 DEF updateLeadStatusTx, Continue
    <3>2. s \in Call /\ Formed(s)
      <4>1. CASE r.todo = {}
        BY <3>1, <4>1, IdleCall
      <4>2. CASE r.todo # {}
        <5>1. s.op = "next" /\ s.lead = r.lead /\ s \in Call
          BY <3>1, <4>2 DEF Call, Op
        <5> QED
          BY <1>2, <5>1 DEF Formed
      <4> QED
        BY <4>1, <4>2
    <3> QED
      BY <1>5, <3>1, <3>2, NewCall DEF updateLeadStatusTx, Continue
  <2> QED
    BY <1>4, <2>2, <2>3, <2>4
<1>6. CASE bulkUploadRecover(c)
  <2>1. PICK next \in BestAssignees :
          transitionLead(r.lead, lead[r.lead], Updated(r.lead, "RECOVERED_TO_POOL", None, next),
                         callBacks)
    BY <1>1, <1>6 DEF bulkUploadRecover
  <2>2. Updated(r.lead, "RECOVERED_TO_POOL", None, next) \in Row
    <3>1. "RECOVERED_TO_POOL" \in LeadStatus
      BY DEF LeadStatus
    <3> QED
      BY <1>2, <3>1, NewOwners, UpdatedRow
  <2>3. call' \in [Calls -> Call] /\ CallsFormed' /\ UNCHANGED requests
    BY <1>6, NoCall DEF bulkUploadRecover
  <2> QED
    BY <1>4, <2>1, <2>2, <2>3
<1> QED
  BY <1>5, <1>6

\* A lead that comes in, or comes back.
LEMMA ArriveKeeps ==
  ASSUME IInv, NEW c \in Calls,
         createLeadTx(c) \/ newEnquiryTx(c) \/ recoverManualLeadTx(c)
  PROVE  IInv'
<1> USE DEF IInv
<1>1. PICK r \in Call : r = call[c] /\ Formed(r)
  BY DEF TypeOK, CallsFormed
<1>2. /\ call' \in [Calls -> Call] /\ CallsFormed' /\ requests' \in 0 .. MaxRequests
      /\ callBacks' \subseteq LeadIds \X Employees
  BY NoCall DEF createLeadTx, newEnquiryTx, recoverManualLeadTx, TypeOK
<1>3. CASE createLeadTx(c)
  <2>1. /\ FirstFree \in LeadIds /\ r.goal \in Phones /\ r.by \in Employees
    BY <1>1, <1>3, FreeRow DEF createLeadTx, Formed
  <2>2. PICK owner \in Employees \cup {None}, status \in LeadStatus :
           Added(r.goal, owner, status)
    <3>1. \A s \in InitialStages : s \in LeadStatus
      BY DEF InitialStages, LeadStatus, Working
    <3>2. \A e : Distributed(e) \in LeadStatus
      BY DEF Distributed, LeadStatus, Working
    <3> QED
      BY <1>1, <1>3, <2>1, <3>1, <3>2, NewOwners DEF createLeadTx
  <2>3. [phone |-> r.goal, owner |-> owner, exit |-> None, status |-> status] \in Row
    BY <2>1 DEF Row
  <2>4. callDays' \in [LeadIds -> 0 .. UnreachableDays]
    BY <1>3, LeadsAssumption DEF createLeadTx, applyInitialStage, TypeOK
  <2> QED
    BY <1>2, <2>1, <2>2, <2>3, <2>4, CommitKeeps DEF Added
<1>4. CASE newEnquiryTx(c)
  <2>1. r.lead \in LeadIds
    BY <1>1, <1>4 DEF newEnquiryTx, Formed
  <2>2. [phone |-> lead[r.lead].phone, status |-> "NEW", owner |-> None, exit |-> None] \in Row
    BY <2>1 DEF Row, TypeOK, LeadStatus
  <2>3. callDays' \in [LeadIds -> 0 .. UnreachableDays]
    BY <1>4 DEF newEnquiryTx, TypeOK
  <2> QED
    BY <1>1, <1>2, <1>4, <2>1, <2>2, <2>3, CommitKeeps DEF newEnquiryTx
<1>5. CASE recoverManualLeadTx(c)
  <2>1. r.lead \in LeadIds /\ r.by \in Employees
    BY <1>1, <1>5 DEF recoverManualLeadTx, Formed
  <2>2. [phone |-> lead[r.lead].phone, status |-> "CONTACTED", owner |-> r.by, exit |-> None] \in Row
    BY <2>1 DEF Row, TypeOK, LeadStatus, Working
  <2>3. callDays' \in [LeadIds -> 0 .. UnreachableDays]
    <3>1. PICK n : /\ n = IF callDays[r.lead] < UnreachableDays THEN callDays[r.lead] + 1
                           ELSE callDays[r.lead]
                   /\ callDays' = [callDays EXCEPT ![r.lead] = n]
      BY <1>1, <1>5 DEF recoverManualLeadTx
    <3>2. callDays[r.lead] \in 0 .. UnreachableDays
      BY <2>1 DEF TypeOK
    <3>3. n \in 0 .. UnreachableDays
      BY <3>1, <3>2, LeadsAssumption
    <3> QED
      BY <3>1, <3>3 DEF TypeOK
  <2> QED
    BY <1>1, <1>2, <1>5, <2>1, <2>2, <2>3, CommitKeeps DEF recoverManualLeadTx
<1> QED
  BY <1>3, <1>4, <1>5

\* A logged call writes no lead; its status changes go through the engine.
LEMMA LogKeeps ==
  ASSUME IInv, NEW c \in Calls,
         (\E f \in BOOLEAN : logCallTx(c, f)) \/ logCallStatus(c) \/ Abandon(c)
  PROVE  IInv'
<1> USE DEF IInv
<1>1. PICK r \in Call : r = call[c] /\ Formed(r)
  BY DEF TypeOK, CallsFormed
<1>2. UNCHANGED <<lead, requests, claims, inventory>>
  BY DEF logCallTx, logCallStatus, Abandon, ReadOnly, Done
<1>3. SUFFICES /\ call' \in [Calls -> Call] /\ CallsFormed'
               /\ callBacks' \subseteq LeadIds \X Employees
               /\ callDays' \in [LeadIds -> 0 .. UnreachableDays]
  BY <1>2 DEF TypeOK, LeadsCounted, Counted
<1>4. ASSUME NEW f \in BOOLEAN, logCallTx(c, f)
      PROVE  /\ call' \in [Calls -> Call] /\ CallsFormed'
             /\ callBacks' \subseteq LeadIds \X Employees
             /\ callDays' \in [LeadIds -> 0 .. UnreachableDays]
  <2>1. r.lead \in LeadIds /\ r.by \in Employees
    BY <1>1, <1>4 DEF logCallTx, Formed
  <2>2. callBacks' \subseteq LeadIds \X Employees
    <3>1. PICK S : callBacks' = closeCallBackTasks(r.lead, S, callBacks)
                     \cup (IF f THEN {<<r.lead, r.by>>} ELSE {})
      BY <1>1, <1>4 DEF logCallTx
    <3> QED
      BY <2>1, <3>1 DEF closeCallBackTasks, TypeOK
  <2>3. callDays' \in [LeadIds -> 0 .. UnreachableDays]
    BY <1>4, LeadsAssumption DEF logCallTx, TypeOK
  <2>4. PICK todo \in SUBSET {"CONTACTED", "DROPPED"} :
          call' = [call EXCEPT ![c] = IF todo = {} THEN Idle
                                      ELSE [r EXCEPT !.op = "next", !.todo = todo]]
    <3> DEFINE owns == CanMutate(r.by, r.seen)
               t == (IF owns /\ r.met /\ r.seen.status = "ASSIGNED" THEN {"CONTACTED"} ELSE {})
                    \cup (IF owns /\ r.exit # None THEN {"DROPPED"} ELSE {})
    <3>1. t \in SUBSET {"CONTACTED", "DROPPED"}
      OBVIOUS
    <3>2. call' = [call EXCEPT ![c] = IF t = {} THEN Idle
                                      ELSE [r EXCEPT !.op = "next", !.todo = t]]
      BY <1>1, <1>4 DEF logCallTx
    <3> HIDE DEF t
    <3> QED
      BY <3>1, <3>2
  <2>5. PICK s : /\ s = IF todo = {} THEN Idle ELSE [r EXCEPT !.op = "next", !.todo = todo]
                 /\ call' = [call EXCEPT ![c] = s]
    BY <2>4
  <2>6. s \in Call /\ Formed(s)
    <3>1. CASE todo = {}
      BY <2>5, <3>1, IdleCall
    <3>2. CASE todo # {}
      <4>1. s.op = "next" /\ s.lead = r.lead /\ s \in Call
        BY <2>5, <3>2 DEF Call, Op
      <4> QED
        BY <2>1, <4>1 DEF Formed
    <3> QED
      BY <3>1, <3>2
  <2> QED
    BY <2>2, <2>3, <2>5, <2>6, NewCall
<1>5. CASE logCallStatus(c)
  <2>1. PICK to \in {"CONTACTED", "DROPPED"} :
          call' = [call EXCEPT ![c] = [r EXCEPT !.op = "status", !.seen = lead[r.lead],
                                                !.goal = to, !.todo = r.todo \ {to}]]
    <3> DEFINE next == IF "CONTACTED" \in call[c].todo THEN "CONTACTED" ELSE "DROPPED"
    <3>1. call' = [call EXCEPT ![c] = [call[c] EXCEPT !.op = "status",
                                    !.seen = lead[call[c].lead],
                                    !.goal = next, !.todo = call[c].todo \ {next}]]
      BY <1>5 DEF logCallStatus
    <3>2. next \in {"CONTACTED", "DROPPED"}
      OBVIOUS
    <3> HIDE DEF next
    <3> QED
      BY <1>1, <3>1, <3>2
  <2>2. PICK s : /\ s = [r EXCEPT !.op = "status", !.seen = lead[r.lead],
                                  !.goal = to, !.todo = r.todo \ {to}]
                 /\ call' = [call EXCEPT ![c] = s]
    BY <2>1
  <2>3. r.lead \in LeadIds /\ to \in LeadStatus /\ lead[r.lead] \in Row
    BY <1>1, <1>5 DEF logCallStatus, Formed, LeadStatus, Working, TypeOK
  <2>4. s.op = "status" /\ s.lead = r.lead /\ s.goal = to /\ s \in Call
    BY <2>2, <2>3 DEF Call, Op
  <2>5. Formed(s)
    BY <2>3, <2>4 DEF Formed
  <2> QED
    BY <1>5, <2>2, <2>4, <2>5, NewCall DEF logCallStatus, ReadOnly, TypeOK
<1>6. CASE Abandon(c)
  BY <1>6, NoCall DEF Abandon, ReadOnly, TypeOK
<1> QED
  BY <1>4, <1>5, <1>6

\* Leads that are added without being read before.
LEMMA AddKeeps ==
  ASSUME IInv, requests < MaxRequests, NEW e \in Employees,
         \/ \E p \in Phones : bulkUploadCreate(e, p)
         \/ \E l \in LeadIds : recoverFreshLead(e, l)
  PROVE  IInv'
<1> USE DEF IInv
<1>1. /\ UNCHANGED <<callBacks, call>> /\ requests' = requests + 1
      /\ \E l \in LeadIds : ~Exists(l)
  BY DEF bulkUploadCreate, recoverFreshLead
<1>2. FirstFree \in LeadIds
  BY <1>1, FreeRow
<1>3. requests' \in 0 .. MaxRequests /\ CallsFormed' /\ call' \in [Calls -> Call]
  BY <1>1, LeadsAssumption DEF TypeOK, CallsFormed, Formed
<1>4. callBacks' \subseteq LeadIds \X Employees
  BY <1>1 DEF TypeOK
<1>5. callDays' \in [LeadIds -> 0 .. UnreachableDays]
  <2>1. UNCHANGED callDays \/ callDays' = [callDays EXCEPT ![FirstFree] = 1]
    BY DEF bulkUploadCreate, recoverFreshLead
  <2>2. 1 \in 0 .. UnreachableDays
    BY LeadsAssumption
  <2> QED
    BY <2>1, <2>2 DEF TypeOK
<1>6. PICK row \in Row : Write(FirstFree, row)
  <2>1. ASSUME NEW p \in Phones, bulkUploadCreate(e, p)
        PROVE  \E row \in Row : Write(FirstFree, row)
    <3>1. PICK owner \in BestAssignees \cup {e} : Added(p, owner, Distributed(owner))
      BY <2>1 DEF bulkUploadCreate
    <3>2. [phone |-> p, owner |-> owner, exit |-> None, status |-> Distributed(owner)] \in Row
      BY NewOwners DEF Row, Distributed, LeadStatus, Working
    <3> QED
      BY <3>1, <3>2 DEF Added
  <2>2. ASSUME NEW l \in LeadIds, recoverFreshLead(e, l)
        PROVE  \E row \in Row : Write(FirstFree, row)
    <3>1. [phone |-> lead[l].phone, status |-> "CONTACTED", owner |-> e, exit |-> None] \in Row
      BY DEF Row, TypeOK, LeadStatus, Working
    <3> QED
      BY <2>2, <3>1 DEF recoverFreshLead
  <2> QED
    BY <2>1, <2>2
<1> QED
  BY <1>2, <1>3, <1>4, <1>5, <1>6, CommitKeeps

-----------------------------------------------------------------------------
LEMMA InitKeeps == Init => IInv
<1> SUFFICES ASSUME Init PROVE IInv
  OBVIOUS
<1>1. TypeOK
  BY AbsentRow, IdleCall, LeadsAssumption DEF Init, TypeOK
<1>2. CallsFormed
  BY IdleCall DEF Init, CallsFormed
<1>3. LeadsCounted
  BY DEF Init, LeadsCounted, Counted, Absent, WantsInventory
<1> QED
  BY <1>1, <1>2, <1>3 DEF IInv

LEMMA StepKeeps == IInv /\ [Next]_vars => IInv'
<1> SUFFICES ASSUME IInv, [Next]_vars PROVE IInv'
  OBVIOUS
<1>1. CASE UNCHANGED vars
  BY <1>1 DEF vars, IInv, TypeOK, CallsFormed, Formed, LeadsCounted, Counted
<1>2. ASSUME NEW c \in Calls, Commit(c)
      PROVE  IInv'
  BY <1>2, ClaimKeeps, RecoverMatchedKeeps, MoveKeeps, StatusKeeps, ArriveKeeps, LogKeeps DEF Commit
<1>3. ASSUME NEW c \in Calls, requests < MaxRequests, Hand(c) \/ Work(c) \/ Return(c)
      PROVE  IInv'
  BY <1>3, HandKeeps, WorkKeeps, ReturnKeeps
<1>4. ASSUME NEW e \in Employees, requests < MaxRequests,
             \/ \E p \in Phones : bulkUploadCreate(e, p)
             \/ \E l \in LeadIds : recoverFreshLead(e, l)
      PROVE  IInv'
  BY <1>4, AddKeeps
<1> QED
  BY <1>1, <1>2, <1>3, <1>4 DEF Next, Idling

LEMMA AlwaysIInv == Spec => []IInv
  BY InitKeeps, StepKeeps, PTL DEF Spec

\* Every row, call-back and running handler has its type in every reachable state.
THEOREM TypeCorrect == Spec => []TypeOK
<1>1. IInv => TypeOK
  BY DEF IInv
<1> QED
  BY <1>1, AlwaysIInv, PTL

\* However employees race for a free lead, and whatever else happens to it, at most one
\* claim is granted until it has no owner again.
THEOREM ClaimsCorrect == Spec => []ClaimedOnce
<1>1. IInv => ClaimedOnce
  BY DEF IInv, LeadsCounted, Counted, ClaimedOnce
<1> QED
  BY <1>1, AlwaysIInv, PTL

\* A lead dropped for want of inventory comes back by inventory at most once for each drop.
THEOREM RecoveriesCorrect == Spec => []RecoveredOnce
<1>1. IInv => RecoveredOnce
  BY DEF IInv, LeadsCounted, Counted, RecoveredOnce
<1> QED
  BY <1>1, AlwaysIInv, PTL

-----------------------------------------------------------------------------
(* What a step may never do.                                                *)

\* Handlers that start leave the leads alone, uploads and fresh recoveries use a free row.
LEMMA StartsWriteNothing ==
  ASSUME NEW c \in Calls, Hand(c) \/ Work(c) \/ Return(c)
  PROVE  UNCHANGED lead
<1>1. CASE Hand(c)
  BY <1>1 DEF Hand, claimLead, reassignLead, transferLead, moveUploadBatch, Begin, ReadOnly
<1>2. CASE Work(c)
  BY <1>2 DEF Work, updateLeadStatus, logCall, Begin, ReadOnly
<1>3. CASE Return(c)
  <2>1. (\E l \in LeadIds : recoverMatchedDroppedLeads(c, l)) => UNCHANGED lead
    BY DEF recoverMatchedDroppedLeads, Begin, ReadOnly
  <2> QED
    BY <1>3, <2>1 DEF Return, createLead, newEnquiry, bulkUploadExisting, recoverManualLead,
                      Begin, ReadOnly
<1> QED
  BY <1>1, <1>2, <1>3

LEMMA AddsWriteFreeRow ==
  ASSUME TypeOK, NEW e \in Employees, NEW l \in LeadIds, Exists(l),
         \/ \E p \in Phones : bulkUploadCreate(e, p)
         \/ \E k \in LeadIds : recoverFreshLead(e, k)
  PROVE  lead'[l] = lead[l]
<1>1. \E k \in LeadIds : ~Exists(k)
  BY DEF bulkUploadCreate, recoverFreshLead
<1>2. FirstFree # l
  BY <1>1, FreeRow DEF Exists
<1>3. PICK row : Write(FirstFree, row)
  BY DEF bulkUploadCreate, recoverFreshLead, Added
<1> QED
  BY <1>2, <1>3 DEF Write, TypeOK

\* A commit that changes an existing lead is of a request about it, which ends or goes on
\* with another operation.
LEMMA CommitsWriteTheirLead ==
  ASSUME IInv, NEW c \in Calls, Commit(c), NEW l \in LeadIds, Exists(l), lead'[l] # lead[l]
  PROVE  /\ call[c].lead = l /\ call'[c] # call[c]
         /\ \/ claimLeadTx(c) \/ recoverMatchedUpdate(c) \/ reassignLeadTx(c)
            \/ moveLeadOwnership(c) \/ moveUploadBatchTx(c) \/ updateLeadStatusTx(c)
            \/ newEnquiryTx(c) \/ bulkUploadRecover(c) \/ recoverManualLeadTx(c)
<1> USE DEF IInv
<1>1. \/ claimLeadTx(c) \/ recoverMatchedUpdate(c) \/ reassignLeadTx(c)
      \/ moveLeadOwnership(c) \/ moveUploadBatchTx(c) \/ updateLeadStatusTx(c)
      \/ newEnquiryTx(c) \/ bulkUploadRecover(c) \/ recoverManualLeadTx(c)
  <2>1. ~createLeadTx(c)
    <3>1. SUFFICES ASSUME createLeadTx(c) PROVE FALSE
      OBVIOUS
    <3>2. FirstFree # l
      BY <3>1, FreeRow DEF createLeadTx, Exists
    <3>3. PICK row : Write(FirstFree, row)
      BY <3>1 DEF createLeadTx, Added
    <3> QED
      BY <3>2, <3>3 DEF Write, TypeOK
  <2>2. ~(\E f \in BOOLEAN : logCallTx(c, f)) /\ ~logCallStatus(c) /\ ~Abandon(c)
    BY DEF logCallTx, logCallStatus, Abandon, ReadOnly
  <2> QED
    BY <2>1, <2>2 DEF Commit
<1>2. call[c].lead = l
  <2>1. \/ claimLeadTx(c) \/ recoverMatchedUpdate(c)
        \/ \E row : Write(call[c].lead, row)
    BY <1>1 DEF reassignLeadTx, moveLeadOwnership, moveUploadBatchTx, updateLeadStatusTx,
                newEnquiryTx, bulkUploadRecover, recoverManualLeadTx, transitionLead
  <2>2. \E row : lead' = [lead EXCEPT ![call[c].lead] = row]
    BY <2>1 DEF claimLeadTx, recoverMatchedUpdate, Write
  <2> QED
    BY <2>2 DEF TypeOK
<1>3. call'[c] # call[c]
  <2>1. call[c].op \notin {"IDLE", "next"}
    BY <1>1 DEF claimLeadTx, recoverMatchedUpdate, reassignLeadTx, moveLeadOwnership,
                moveUploadBatchTx, updateLeadStatusTx, newEnquiryTx, bulkUploadRecover,
                recoverManualLeadTx
  <2>2. PICK s : s \in {Idle, [call[c] EXCEPT !.op = "next"]} /\ call' = [call EXCEPT ![c] = s]
    <3>1. Done(c) \/ Continue(c)
      BY <1>1 DEF claimLeadTx, recoverMatchedUpdate, reassignLeadTx, moveLeadOwnership,
                  moveUploadBatchTx, updateLeadStatusTx, newEnquiryTx, bulkUploadRecover,
                  recoverManualLeadTx
    <3> QED
      BY <3>1 DEF Done, Continue
  <2>3. s.op \in {"IDLE", "next"}
    BY <2>2 DEF Idle, TypeOK, Call
  <2>4. call'[c] = s
    BY <2>2 DEF TypeOK
  <2> QED
    BY <2>1, <2>3, <2>4
<1> QED
  BY <1>1, <1>2, <1>3

\* A transition that changes the owner closes the call-backs of the one that was seen.
LEMMA TransitionHandsOver ==
  ASSUME TypeOK, NEW l \in LeadIds, NEW seen, NEW row, NEW open,
         open \subseteq LeadIds \X Employees, transitionLead(l, seen, row, open),
         lead'[l].owner # lead[l].owner, lead[l].owner = seen.owner
  PROVE  <<l, lead[l].owner>> \notin callBacks'
<1>1. row.owner # seen.owner
  BY DEF transitionLead, Write, TypeOK
<1>2. CASE row.status \in {"DROPPED", "BOOKED"}
  BY <1>2 DEF transitionLead, closeCallBackTasks
<1>3. CASE row.status \notin {"DROPPED", "BOOKED"}
  BY <1>1, <1>3 DEF transitionLead, closeCallBackTasks
<1> QED
  BY <1>2, <1>3

LEMMA HandOverStep ==
  ASSUME IInv, [Next]_vars, NEW c \in Calls, NEW l \in LeadIds,
         call[c].lead = l, call'[c] # call[c],
         call[c].op \in {"reassign", "transfer", "status", "uploadRecover"},
         lead'[l].owner # lead[l].owner, lead[l].owner = call[c].seen.owner
  PROVE  <<l, lead[l].owner>> \notin callBacks'
<1> USE DEF IInv
<1>1. PICK d \in Calls : Commit(d)
  <2>1. ~UNCHANGED vars
    BY DEF vars
  <2>2. ASSUME NEW e \in Employees,
               \/ \E p \in Phones : bulkUploadCreate(e, p)
               \/ \E k \in LeadIds : recoverFreshLead(e, k)
        PROVE  FALSE
    BY <2>2 DEF bulkUploadCreate, recoverFreshLead
  <2>3. ASSUME NEW d \in Calls, Hand(d) \/ Work(d) \/ Return(d)
        PROVE  FALSE
    BY <2>3, StartsWriteNothing
  <2> QED
    BY <2>1, <2>2, <2>3 DEF Next, Idling
<1>2. d = c
  <2>1. \E s : call' = [call EXCEPT ![d] = s]
    BY <1>1 DEF Commit, claimLeadTx, recoverMatchedUpdate, reassignLeadTx, moveLeadOwnership,
       moveUploadBatchTx, updateLeadStatusTx, newEnquiryTx, bulkUploadRecover,
       recoverManualLeadTx, createLeadTx, logCallTx, logCallStatus, Abandon, Done, Continue
  <2> QED
    BY <2>1 DEF TypeOK
<1>3. PICK r : r = call[c]
  OBVIOUS
<1>4. \/ reassignLeadTx(c) \/ moveLeadOwnership(c) \/ updateLeadStatusTx(c) \/ bulkUploadRecover(c)
  BY <1>1, <1>2 DEF Commit, claimLeadTx, recoverMatchedUpdate, moveUploadBatchTx, newEnquiryTx,
     recoverManualLeadTx, createLeadTx, logCallTx, logCallStatus, Abandon, ReadOnly
<1>5. \E seen, row, open :
        /\ transitionLead(l, seen, row, open) /\ seen.owner = lead[l].owner
        /\ open \subseteq LeadIds \X Employees
  <2>1. callBacks \subseteq LeadIds \X Employees
    BY DEF TypeOK
  <2>2. CASE reassignLeadTx(c)
    BY <2>1, <2>2 DEF reassignLeadTx
  <2>3. CASE updateLeadStatusTx(c)
    BY <2>1, <2>3 DEF updateLeadStatusTx
  <2>4. CASE bulkUploadRecover(c)
    BY <2>1, <2>4 DEF bulkUploadRecover
  <2>5. CASE moveLeadOwnership(c)
    <3>1. PICK open : /\ open \in {callBacks, (callBacks \ {<<l, r.seen.owner>>}) \cup {<<l, r.goal>>}}
                      /\ transitionLead(l, r.seen, Moved(l, r.seen, r.goal), open)
      BY <1>3, <2>5 DEF moveLeadOwnership
    <3>2. r.goal \in Employees
      BY <1>3, <2>5 DEF moveLeadOwnership, CallsFormed, Formed
    <3>3. open \subseteq LeadIds \X Employees
      BY <2>1, <3>1, <3>2
    <3> QED
      BY <1>3, <3>1, <3>3
  <2> QED
    BY <1>4, <2>2, <2>3, <2>4, <2>5
<1> QED
  BY <1>5, TransitionHandsOver

\* A lead that changes hands by a transfer, a reassignment or a status change leaves no
\* open call-back with the owner the handler saw.
THEOREM HandOverCorrect == Spec => HandedOver
<1>1. IInv /\ [Next]_vars =>
        [\A c \in Calls, l \in LeadIds :
           /\ call[c].lead = l /\ call'[c] # call[c]
           /\ call[c].op \in {"reassign", "transfer", "status", "uploadRecover"}
           /\ lead'[l].owner # lead[l].owner /\ lead[l].owner = call[c].seen.owner
           => <<l, lead[l].owner>> \notin callBacks']_vars
  BY HandOverStep
<1> QED
  BY <1>1, AlwaysIInv, PTL DEF Spec, HandedOver

=============================================================================
