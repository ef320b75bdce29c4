----------------------------- MODULE MasterLeads -----------------------------
(***************************************************************************)
(* Master data: numbers uploaded in slices, handed to telecallers for the  *)
(* day, and taken back when nobody called them                             *)
(* (src/services/lead/masterLeads.ts).  The overview does not count the    *)
(* numbers left to assign: it works them out from each upload's counters,  *)
(* which are kept by increments beside the rows they count.                *)
(*                                                                         *)
(* An uploading client sends the next slice when it has the answer, and    *)
(* again when it has given up waiting (Timeout), although the server may   *)
(* still be working on it.  A number is a member of Phones; a row without  *)
(* a valid one is Bad.  ASSIGN_STEP is 1.                                  *)
(***************************************************************************)
EXTENDS Naturals, Integers, SequencesExt

CONSTANTS
    Phones,
    Bad,        \* a row whose phone cleanPhone refuses
    Batches,    \* uploads; File[b] is its slices, each a sequence of rows
    File,
    Telecallers,
    Servers,    \* handlers that may be running at once
    MaxCount,   \* bound: numbers asked for at once
    MaxLeads,   \* bound: leads created
    MaxTimeouts,\* bound: answers that do not come, or are not waited for
    Nil

ASSUME MasterAssumption ==
    /\ IsFiniteSet(Phones) /\ IsFiniteSet(Servers)
    /\ Bad \notin Phones /\ Nil \notin Batches
    /\ File \in [Batches -> Seq(Seq(Phones \cup {Bad}))]
    /\ MaxLeads \in Nat /\ MaxCount \in Nat

VARIABLES
    batch,     \* MasterLeadBatch: [received, added, duplicates, failed, assigned, skipped, done]
    master,    \* MasterLead by phone: [batch, status, lead]
    crm,       \* Lead by phone: [id, owner, daily, called, doNotCall]: called, anything that
               \* happened on it, a call, a task, a visit, an opportunity
    server,    \* addRows in progress: [st, b, slice, created, heard]: created, the numbers it
               \* inserted (the code keeps how many); heard, the client waits
    sent,      \* how many slices of b the client knows the server has
    waiting,   \* the client waits for an answer on b
    assigning, \* assignTo in progress: [to, left]
    taking,    \* takeBacks in progress: [st, ids, rows]: the leads, then the numbers it has read
    nextLead, timeouts,
    amiss      \* history: uploads of which a slice was left uncounted, or a number was
               \* given back by two take-backs

masterdata == <<batch, master, crm, server, sent, waiting, assigning, taking, nextLead, timeouts,
                amiss>>

NoLead   == [id |-> 0, owner |-> Nil, daily |-> FALSE, called |-> FALSE, doNotCall |-> FALSE]
NoMaster == [batch |-> Nil, status |-> "NONE", lead |-> 0]
NoRows   == [received |-> 0, added |-> 0, duplicates |-> 0, failed |-> 0,
             assigned |-> 0, skipped |-> 0, done |-> FALSE]
Resting  == [st |-> "IDLE", b |-> Nil, slice |-> 0, created |-> {}, heard |-> FALSE]
NotTaking == [st |-> "IDLE", ids |-> {}, rows |-> {}]

MasterTypeOK ==
    /\ batch \in [Batches -> [received : Nat, added : Nat, duplicates : Nat, failed : Nat,
                              assigned : Int, skipped : Nat, done : BOOLEAN]]
    /\ master \in [Phones -> [batch : Batches \cup {Nil}, lead : 0 .. MaxLeads,
                              status : {"NONE", "NEW", "ASSIGNED", "ALREADY_LEAD", "DO_NOT_CALL"}]]
    /\ crm \in [Phones -> [id : 0 .. MaxLeads, owner : Telecallers \cup {Nil}, daily : BOOLEAN,
                           called : BOOLEAN, doNotCall : BOOLEAN]]
    /\ taking \in [Servers -> [st : {"IDLE", "READ", "SEEN"}, ids : SUBSET (1 .. MaxLeads),
                                rows : SUBSET Phones]]
    /\ nextLead \in 1 .. MaxLeads + 1
    /\ amiss \subseteq Batches

MasterInit ==
    /\ batch = [b \in Batches |-> NoRows]
    /\ master = [p \in Phones |-> NoMaster]
    /\ crm = [p \in Phones |-> NoLead]
    /\ server = [s \in Servers |-> Resting]
    /\ sent = [b \in Batches |-> 0]
    /\ waiting = [b \in Batches |-> FALSE]
    /\ assigning = [to |-> Nil, left |-> 0]
    /\ taking = [s \in Servers |-> NotTaking]
    /\ nextLead = 1
    /\ timeouts = 0
    /\ amiss = {}

-----------------------------------------------------------------------------
(* Uploading.                                                               *)

Free(s) == server[s] = Resting /\ taking[s] = NotTaking

RowsBefore(b, slice) == FoldSeq(LAMBDA s, n : n + Len(s), 0, SubSeq(File[b], 1, slice - 1))

\* addRows: the slice is taken only if it starts where the server has got to ...
Expected_Any(b, slice) == TRUE

Expected(b, slice) == RowsBefore(b, slice) = batch[b].received

addRows(s, b) ==
    /\ Free(s) /\ ~waiting[b] /\ sent[b] < Len(File[b])
    /\ ~batch[b].done /\ Expected(b, sent[b] + 1)
    /\ server' = [server EXCEPT ![s] = [st |-> "READ", b |-> b, slice |-> sent[b] + 1, created |-> {},
                                        heard |-> TRUE]]
    /\ waiting' = [waiting EXCEPT ![b] = TRUE]
    /\ UNCHANGED <<batch, master, crm, sent, assigning, taking, nextLead, timeouts, amiss>>

\* ... or the client learns how far it is.
addRowsResume(b) ==
    /\ ~waiting[b] /\ sent[b] < Len(File[b]) /\ ~Expected(b, sent[b] + 1)
    /\ \E n \in 1 .. Len(File[b]) :
         /\ RowsBefore(b, n) <= batch[b].received
         /\ \A m \in 1 .. Len(File[b]) : RowsBefore(b, m) <= batch[b].received => m <= n
         /\ sent' = [sent EXCEPT ![b] = IF RowsBefore(b, n) + Len(File[b][n]) <= batch[b].received
                                         THEN n ELSE n - 1]
    /\ UNCHANGED <<batch, master, crm, server, waiting, assigning, taking, nextLead, timeouts, amiss>>

\* The rows go in; a number that is already there is skipped ...
addRowsInsert(s) ==
    LET b == server[s].b
        fresh == {p \in ToSet(File[b][server[s].slice]) \ {Bad} : master[p].status = "NONE"} IN
    /\ server[s].st = "READ"
    /\ master' = [p \in Phones |-> IF p \in fresh THEN [batch |-> b, status |-> "NEW", lead |-> 0]
                                   ELSE master[p]]
    /\ server' = [server EXCEPT ![s].st = "INSERTED", ![s].created = fresh]
    /\ UNCHANGED <<batch, crm, sent, waiting, assigning, taking, nextLead, timeouts, amiss>>

\* ... and then the counters; the last slice completes the upload.
Counted(row, rows, created, last) ==
    LET failed == Cardinality({n \in DOMAIN rows : rows[n] = Bad})
        added  == Cardinality(created) IN
    [row EXCEPT !.received = @ + Len(rows), !.added = @ + added, !.failed = @ + failed,
                !.duplicates = @ + (Len(rows) - failed - added), !.done = @ \/ last]

addRowsCount(s) ==
    LET b == server[s].b
        n == server[s].slice IN
    /\ server[s].st = "INSERTED"
    /\ batch' = [batch EXCEPT ![b] = Counted(@, File[b][n], server[s].created, n = Len(File[b]))]
    /\ server' = [server EXCEPT ![s] = Resting]
    /\ IF server[s].heard
       THEN sent' = [sent EXCEPT ![b] = n] /\ waiting' = [waiting EXCEPT ![b] = FALSE]
       ELSE UNCHANGED <<sent, waiting>>
    /\ UNCHANGED <<master, crm, assigning, taking, nextLead, timeouts, amiss>>

Timeout(b) ==
    /\ waiting[b] /\ timeouts < MaxTimeouts
    /\ timeouts' = timeouts + 1
    /\ waiting' = [waiting EXCEPT ![b] = FALSE]
    /\ server' = [s \in Servers |-> IF server[s].b = b THEN [server[s] EXCEPT !.heard = FALSE]
                                    ELSE server[s]]
    /\ UNCHANGED <<batch, master, crm, sent, assigning, taking, nextLead, amiss>>

\* A handler stops, or fails: rows it has inserted stay, and nobody counts them.
Stops(s) ==
    /\ server[s] # Resting /\ timeouts < MaxTimeouts
    /\ timeouts' = timeouts + 1
    /\ server' = [server EXCEPT ![s] = Resting]
    /\ waiting' = [waiting EXCEPT ![server[s].b] = @ /\ ~server[s].heard]
    /\ amiss' = amiss \cup {b \in {server[s].b} : server[s].created # {}}
    /\ UNCHANGED <<batch, master, crm, sent, assigning, taking, nextLead>>

-----------------------------------------------------------------------------
(* The day's numbers.                                                       *)

assignDaily(e, n) ==
    /\ assigning.left = 0
    /\ assigning' = [to |-> e, left |-> n]
    /\ UNCHANGED <<batch, master, crm, server, sent, waiting, taking, nextLead, timeouts, amiss>>

Bump(p, field) == batch' = [batch EXCEPT ![master[p].batch][field] = @ + 1]

\* assignTo, one locked row at a time: a fresh number becomes a lead of the telecaller's ...
assignFresh(p) ==
    /\ assigning.left > 0 /\ master[p].status = "NEW" /\ crm[p] = NoLead /\ nextLead <= MaxLeads
    /\ crm' = [crm EXCEPT ![p] = [id |-> nextLead, owner |-> assigning.to, daily |-> TRUE,
                                  called |-> FALSE, doNotCall |-> FALSE]]
    /\ master' = [master EXCEPT ![p] = [@ EXCEPT !.status = "ASSIGNED", !.lead = nextLead]]
    /\ Bump(p, "assigned")
    /\ nextLead' = nextLead + 1
    /\ assigning' = [assigning EXCEPT !.left = @ - 1]
    /\ UNCHANGED <<server, sent, waiting, taking, timeouts, amiss>>

\* ... one that has become a lead in the meantime is passed over.
assignStale(p) ==
    /\ assigning.left > 0 /\ master[p].status = "NEW" /\ crm[p] # NoLead
    /\ master' = [master EXCEPT ![p] =
         [@ EXCEPT !.status = IF crm[p].doNotCall THEN "DO_NOT_CALL" ELSE "ALREADY_LEAD",
                   !.lead = crm[p].id]]
    /\ Bump(p, "skipped")
    /\ UNCHANGED <<crm, server, sent, waiting, assigning, taking, nextLead, timeouts, amiss>>

assignEmpty ==
    /\ assigning.left > 0 /\ \A p \in Phones : master[p].status # "NEW"
    /\ assigning' = [to |-> Nil, left |-> 0]
    /\ UNCHANGED <<batch, master, crm, server, sent, waiting, taking, nextLead, timeouts, amiss>>

\* uncalledAssigned: what blocks the telecaller's logout, and what may be taken back.
uncalledAssigned(e) == {p \in Phones : crm[p].owner = e /\ crm[p].daily /\ ~crm[p].called}

\* takeBack reads the uncalled leads ...
takeBack(s, e) ==
    /\ Free(s) /\ uncalledAssigned(e) # {}
    /\ taking' = [taking EXCEPT ![s].st = "READ", ![s].ids = {crm[p].id : p \in uncalledAssigned(e)}]
    /\ UNCHANGED <<batch, master, crm, server, sent, waiting, assigning, nextLead, timeouts, amiss>>

\* ... then, in the snapshot its transaction begins with, their numbers ...
takeBackReads(s) ==
    /\ taking[s].st = "READ"
    /\ taking' = [taking EXCEPT ![s].st = "SEEN",
                                ![s].rows = {p \in Phones : master[p].lead \in taking[s].ids}]
    /\ UNCHANGED <<batch, master, crm, server, sent, waiting, assigning, nextLead, timeouts, amiss>>

\* ... which it returns by id, whatever has become of them, less one on their uploads for each.
Returned_KeepCount(b, rows) == batch[b]

Returned(b, rows) ==
    [batch[b] EXCEPT !.assigned = @ - Cardinality({p \in rows : master[p].batch = b})]

takeBackTx(s) ==
    LET ids  == taking[s].ids
        rows == taking[s].rows IN
    /\ taking[s].st = "SEEN"
    /\ master' = [p \in Phones |-> IF p \in rows THEN [master[p] EXCEPT !.status = "NEW", !.lead = 0]
                                   ELSE master[p]]
    /\ batch' = [b \in Batches |-> Returned(b, rows)]
    /\ crm' = [p \in Phones |-> IF crm[p].id \in ids THEN NoLead ELSE crm[p]]
    /\ taking' = [taking EXCEPT ![s] = NotTaking]
    /\ amiss' = amiss \cup {master[p].batch : p \in {q \in rows : master[q].lead \notin ids}}
    /\ UNCHANGED <<server, sent, waiting, assigning, nextLead, timeouts>>

-----------------------------------------------------------------------------
(* What happens to the leads elsewhere (Leads.tla).                         *)

LogCall(p) ==
    /\ crm[p] # NoLead
    /\ crm' = [crm EXCEPT ![p].called = TRUE]
    /\ UNCHANGED <<batch, master, server, sent, waiting, assigning, taking, nextLead, timeouts, amiss>>

\* A transfer, a reassignment or a recovery gives it to somebody, and no longer as the day's.
Reassign(p, e) ==
    /\ crm[p] # NoLead
    /\ crm' = [crm EXCEPT ![p].owner = e, ![p].daily = FALSE]
    /\ UNCHANGED <<batch, master, server, sent, waiting, assigning, taking, nextLead, timeouts, amiss>>

\* The website, or a colleague, adds the number; it may end as not to be called.
OtherLead(p, dnc) ==
    /\ crm[p] = NoLead /\ nextLead <= MaxLeads
    /\ crm' = [crm EXCEPT ![p] = [NoLead EXCEPT !.id = nextLead, !.doNotCall = dnc]]
    /\ nextLead' = nextLead + 1
    /\ UNCHANGED <<batch, master, server, sent, waiting, assigning, taking, timeouts, amiss>>

MasterNext ==
    \/ \E s \in Servers :
         \/ \E b \in Batches : addRows(s, b)
         \/ addRowsInsert(s) \/ addRowsCount(s) \/ Stops(s)
         \/ \E e \in Telecallers : takeBack(s, e)
         \/ takeBackReads(s) \/ takeBackTx(s)
    \/ \E b \in Batches : addRowsResume(b) \/ Timeout(b)
    \/ \E e \in Telecallers, n \in 1 .. MaxCount : assignDaily(e, n)
    \/ \E p \in Phones : \/ assignFresh(p) \/ assignStale(p) \/ LogCall(p)
                         \/ \E e \in Telecallers : Reassign(p, e)
                         \/ \E dnc \in BOOLEAN : OtherLead(p, dnc)
    \/ assignEmpty

-----------------------------------------------------------------------------
RowsOf(b, status) == {p \in Phones : master[p].batch = b /\ master[p].status \in status}

InFlight(b) ==
    {x \in Servers \X Phones : server[x[1]].b = b /\ x[2] \in server[x[1]].created}

\* The overview's arithmetic is the truth: added less assigned less skipped is the number of
\* rows of the upload still to be assigned (those a slice has inserted and not yet counted
\* aside), through retries, assignments, transfers and take-backs in any order, for every upload
\* of which no slice was left uncounted and no number was given back twice.
\* And a number of it that was handed out is a lead until it is taken back.
UnassignedExact ==
    /\ \A b \in Batches \ amiss :
         batch[b].added + Cardinality(InFlight(b)) - batch[b].assigned - batch[b].skipped
           = Cardinality(RowsOf(b, {"NEW"}))
    /\ \A p \in Phones : master[p].status = "ASSIGNED" /\ master[p].batch \notin amiss
                           => crm[p].id = master[p].lead

\* An upload has not handed out less than nothing.
CountersNotNegative == \A b \in Batches : batch[b].assigned >= 0

\* "A slice sent twice (a retry after a dropped connection) is never counted twice."
SliceCountedOnce ==
    \A b \in Batches : batch[b].received <= RowsBefore(b, Len(File[b]) + 1)

\* "Anything with a call stays with the person": a lead that was called is not removed.
CalledIsKept == [][\A p \in Phones : crm[p].called => crm'[p] # NoLead]_masterdata
=============================================================================
