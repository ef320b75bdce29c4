----------------------------- MODULE Attendance -----------------------------
(***************************************************************************)
(* Working days: the requests of the staff and their decisions, the kiosk, *)
(* the phone and the work-from-home check-ins, the comp-off credits, the   *)
(* nightly rollup with its absences and their later cancellation.          *)
(*                                                                         *)
(* Abstracted: minutes (a day has a morning up to 14:00 and an evening     *)
(* from 18:00), the marks for coming late, reasons and places, photos,     *)
(* badges and their PINs, the daily report, notifications.                 *)
(* The days of a behaviour are fewer than a week, so each is a weekday.    *)
(***************************************************************************)
EXTENDS Handlers, SequencesExt

CONSTANTS
    Workers,       \* employees who are active and must attend
    HR,            \* HR_MANAGER, MD and ADMIN, who may be Workers too
    LastDay,       \* bound: days of a behaviour
    ValidDays,     \* COMP_OFF_VALID_DAYS
    FreeLogouts,   \* early logouts a month that need nobody's approval
    StartDesks     \* what a behaviour begins with

ASSUME AttendanceAssumption ==
    LastDay \in Nat \ {0} /\ ValidDays \in Nat /\ FreeLogouts \in Nat

Days == 1..LastDay

VARIABLES
    today, hour,
    weeklyOff,     \* an employee's weekly_off_day, or 0
    holidays,      \* CompanyHoliday
    request,       \* AttendanceProposal rows, in the order of their ids
    log,           \* AttendanceLog rows with their check-in proofs
    credit,        \* CompOffCredit rows, one for each day an employee earned one
    standing,      \* UNINFORMED_ABSENT events not voided yet
    rolled         \* days whose rollup left its DONE event

attendance == <<today, hour, weeklyOff, holidays, request, log, credit, standing, rolled>>
desk == <<request, log, credit, standing>>

DUTY_DAY == "DUTY_DAY"
SWAP_OFF == "SWAP_OFF"
COMP_OFF == "COMP_OFF"
CLAIM == "ATTENDANCE_CLAIM"
WFH == "WORK_FROM_HOME"
TEAM_REQUEST_TYPES == {DUTY_DAY, SWAP_OFF, COMP_OFF, CLAIM}
OwnTypes == {"LEAVE", "FIELD_WORK", WFH, "LATE_CHECKIN", "EARLY_CHECKOUT"}

\* Requests made by one statement share their created_at: the batch.
Row(w, type, d, status) == [who |-> w, type |-> type, day |-> d, status |-> status, batch |-> 0]

\* `late': checked in after 14:00, which counts as absent.  `by': the request that made it.
Log(w, d, source, late) ==
    [who |-> w, day |-> d, source |-> source, late |-> late, absent |-> late,
     out |-> "OPEN", by |-> 0, proof |-> "NONE"]

NoCredit == [state |-> "NONE", for |-> 0]

RequestRow(batches) ==
    [who : Workers, type : TEAM_REQUEST_TYPES \cup OwnTypes, day : Days,
     status : {"PENDING", "APPROVED", "REJECTED"}, batch : batches]
LogRow(ids) ==
    [who : Workers, day : Days, late : BOOLEAN, absent : BOOLEAN,
     source : {"QR_SCAN", "QR_SCAN_EDITED", "APP_SELFIE", "REMOTE", "PROPOSAL", "MANUAL", "DELETED"},
     out : {"OPEN", "SAME_DAY", "MIDNIGHT", "EDITED"},
     by : {0} \cup ids, proof : {"NONE", "PENDING", "OK", "ACCEPTED", "REJECTED"}]
CreditRow(ids) == [state : {"NONE", "AVAILABLE", "USED", "EXPIRED"}, for : {0} \cup ids]

\* The staff are finitely many.  A behaviour begins with records that no request of its own
\* has made, at most one scan of an employee and day among them, and with no comp-off used.
ASSUME StartDesksAssumption ==
    /\ IsFiniteSet(Workers)
    /\ \A s \in StartDesks :
         /\ s.today \in Days /\ s.off \in [Workers -> Days \cup {0}] /\ s.holidays \subseteq Days
         /\ s.request \in Seq(RequestRow(Nat))
         /\ \A i \in DOMAIN s.request : s.request[i].batch \in 1..i
         /\ s.log \in Seq(LogRow({}))
         /\ \A i, j \in DOMAIN s.log :
              i # j /\ s.log[i].source = "QR_SCAN" /\ s.log[j].source = "QR_SCAN"
                 => s.log[i].who # s.log[j].who \/ s.log[i].day # s.log[j].day
         /\ s.credit \in [Workers -> [Days -> CreditRow({})]]
         /\ \A w \in Workers, d \in Days : s.credit[w][d].state # "USED"

TypeOK ==
    /\ today \in Days /\ hour \in {"MORNING", "EVENING"}
    /\ weeklyOff \in [Workers -> Days \cup {0}]
    /\ holidays \subseteq Days /\ rolled \subseteq Days
    /\ \A i \in DOMAIN request : request[i] \in RequestRow(1..i)
    /\ \A i \in DOMAIN log : log[i] \in LogRow(DOMAIN request)
    /\ credit \in [Workers -> [Days -> CreditRow(DOMAIN request)]]
    /\ standing \in [Workers -> [Days -> Nat]]

\* StartDesks is a set of [today, off, holidays, request, log, credit].
AttendanceInit ==
    /\ \E s \in StartDesks :
         /\ today = s.today /\ weeklyOff = s.off /\ holidays = s.holidays
         /\ request = s.request /\ log = s.log /\ credit = s.credit
    /\ hour = "MORNING"
    /\ standing = [w \in Workers |-> [d \in Days |-> 0]]
    /\ rolled = {}

-----------------------------------------------------------------------------
(* What a day is for an employee: services/workCalendar.ts.                 *)

Asked(w, d, types, statuses) ==
    \E i \in DOMAIN request : /\ request[i].who = w /\ request[i].day = d
                              /\ request[i].type \in types /\ request[i].status \in statuses
Approved(w, d, types) == Asked(w, d, types, {"APPROVED"})
Pending(w, d, types) == Asked(w, d, types, {"PENDING"})
Standing(w, d, types) == Asked(w, d, types, {"PENDING", "APPROVED"})

FreeDay(w, d) == d \in holidays \/ weeklyOff[w] = d

dayInfo(w, d) ==
    LET duty == Approved(w, d, {DUTY_DAY})
        off  == FreeDay(w, d) \/ Approved(w, d, {SWAP_OFF, COMP_OFF})
    IN [duty |-> duty, offDay |-> off /\ ~duty]

LogsOn(w, d) == {i \in DOMAIN log : log[i].who = w /\ log[i].day = d /\ log[i].source # "DELETED"}
Attended(w, d) == \E i \in LogsOn(w, d) : ~log[i].absent

\* An approved duty day that was worked earns one credit, whoever asks and how often.
creditCompOffIfEarned(w, d) ==
    credit' = IF Approved(w, d, {DUTY_DAY}) /\ Attended(w, d) /\ credit[w][d] = NoCredit
              THEN [credit EXCEPT ![w][d] = [NoCredit EXCEPT !.state = "AVAILABLE"]]
              ELSE credit

Usable(w) == {d \in Days : credit[w][d].state = "AVAILABLE" /\ d + ValidDays >= today}
PendingCompOffs(w) ==
    {i \in DOMAIN request : request[i].who = w /\ request[i].type = COMP_OFF /\ request[i].status = "PENDING"}
compOffBalance(w) == Cardinality(Usable(w)) > Cardinality(PendingCompOffs(w))

\* services/absenceRecheck.ts: was the employee excused after all?
Excused(w, d) ==
    \/ dayInfo(w, d).offDay /\ (d \in holidays \/ Approved(w, d, {SWAP_OFF, COMP_OFF}))
    \/ LogsOn(w, d) # {}
    \/ Approved(w, d, {"LEAVE", CLAIM, "FIELD_WORK", WFH})

recheckAbsences(workers, days) ==
    standing' = [w \in Workers |-> [d \in Days |->
                    IF w \in workers /\ d \in days /\ Excused(w, d) THEN 0 ELSE standing[w][d]]]

-----------------------------------------------------------------------------
(* Handlers.  A job names its step, the employee and day it is about, the   *)
(* row `at' it will write, and the steps that follow.                       *)

Job(op, w, d, then) ==
    [op |-> op, who |-> {w}, day |-> d, at |-> {}, rows |-> <<>>, to |-> "", from |-> 0,
     proof |-> "NONE", then |-> then]
Who(job) == CHOOSE w \in job.who : TRUE
At(job) == CHOOSE i \in job.at : TRUE

ReadOnly == UNCHANGED attendance
Clock == <<today, hour, weeklyOff, holidays, rolled>>

\* The rows a handler creates in one statement once it has checked the rest.
Ask(c, w, rows) ==
    /\ Begin(c, [Job("insert", w, 0, <<>>) EXCEPT !.rows = rows])
    /\ ReadOnly

Stamped(rows) == [i \in DOMAIN rows |-> [rows[i] EXCEPT !.batch = Len(request) + 1]]

insert(c) ==
    /\ call[c].op = "insert"
    /\ request' = request \o Stamped(call[c].rows)
    /\ Done(c)
    /\ UNCHANGED <<Clock, log, credit, standing>>

(* routes/attendance/duty.ts                                                *)

dutyRequest(c, w, d) ==
    /\ d >= today /\ FreeDay(w, d) /\ ~dayInfo(w, d).duty
    /\ ~Pending(w, d, {DUTY_DAY})
    /\ Ask(c, w, <<Row(w, DUTY_DAY, d, "PENDING")>>)

\* Work on an off day, take another day off instead: two rows of one batch.
swapRequest(c, w, work, off) ==
    /\ work >= today /\ off >= today
    /\ FreeDay(w, work)
    /\ ~dayInfo(w, off).offDay /\ ~FreeDay(w, off)
    /\ Ask(c, w, <<Row(w, DUTY_DAY, work, "PENDING"), Row(w, SWAP_OFF, off, "PENDING")>>)

compOffRequest(c, w, d) ==
    /\ compOffBalance(w)
    /\ ~dayInfo(w, d).offDay /\ ~FreeDay(w, d)
    /\ Ask(c, w, <<Row(w, COMP_OFF, d, "PENDING")>>)

\* "I worked that day", up to a week back.
claimRequest(c, w, d) ==
    /\ d <= today /\ LogsOn(w, d) = {} /\ ~Pending(w, d, {CLAIM})
    /\ Ask(c, w, <<Row(w, CLAIM, d, "PENDING")>>)

assignDuty(c, h, w, d) ==
    /\ h # w /\ d >= today
    /\ FreeDay(w, d) /\ ~dayInfo(w, d).duty
    /\ Ask(c, w, <<Row(w, DUTY_DAY, d, "APPROVED")>>)

setWeeklyOff(c, h, w, d) ==
    /\ h # w
    /\ weeklyOff' = [weeklyOff EXCEPT ![w] = d]
    /\ Serve(c)
    /\ UNCHANGED <<today, hour, holidays, rolled, desk>>

(* routes/attendance/proposals.ts and wfh.ts                                *)

lateProposal(c, w, d) ==
    hour = "MORNING" /\ Ask(c, w, <<Row(w, "LATE_CHECKIN", d, "PENDING")>>)

\* One row for each working day of the leave; today only as sick leave in the morning.
leaveProposal(c, w, first, last) ==
    LET days == {d \in first..last : ~FreeDay(w, d)} IN
    /\ first >= today /\ (first = today => hour = "MORNING")
    /\ days # {} /\ \A d \in days : ~Standing(w, d, {"LEAVE"})
    /\ \E inOrder \in [1..Cardinality(days) -> days] :
         /\ \A i, j \in DOMAIN inOrder : i < j => inOrder[i] < inOrder[j]
         /\ Ask(c, w, [i \in DOMAIN inOrder |-> Row(w, "LEAVE", inOrder[i], "PENDING")])

fieldWorkProposal(c, w, d) ==
    /\ ~Standing(w, d, {"FIELD_WORK"})
    /\ Ask(c, w, <<Row(w, "FIELD_WORK", d, "PENDING")>>)

LogoutsUsed(w) ==
    Cardinality({i \in DOMAIN request : /\ request[i].who = w /\ request[i].type = "EARLY_CHECKOUT"
                                        /\ request[i].status # "REJECTED"})

earlyLogoutProposal(c, w, d) ==
    Ask(c, w, <<Row(w, "EARLY_CHECKOUT", d, IF LogoutsUsed(w) < FreeLogouts THEN "APPROVED" ELSE "PENDING")>>)

wfhProposal(c, w, d) ==
    /\ d >= today /\ ~Standing(w, d, {WFH})
    /\ Ask(c, w, <<Row(w, WFH, d, "PENDING")>>)

wfhGrant(c, w, d) ==
    /\ ~FreeDay(w, d) /\ ~Approved(w, d, {WFH})
    /\ Ask(c, w, <<Row(w, WFH, d, "APPROVED")>>)

-----------------------------------------------------------------------------
(* Decisions.  The row is read first and claimed by a conditional update.   *)

Verdict_Action(approve) == IF approve THEN "APPROVE" ELSE "REJECT"
Verdict(approve) == IF approve THEN "APPROVED" ELSE "REJECTED"

\* The team desk: what an approval of each type sets in motion.
Consequences(row) ==
    (IF row.type = COMP_OFF THEN <<"useCredit">> ELSE <<>>)
      \o (IF row.type = CLAIM THEN <<"findLog">> ELSE <<>>)
      \o (IF row.type \in {DUTY_DAY, CLAIM} /\ row.day <= today THEN <<"earn">> ELSE <<>>)
      \o <<"recheck">>

decide(c, h, i, approve) ==
    LET row == request[i] IN
    /\ row.type \in TEAM_REQUEST_TYPES /\ h # row.who /\ row.status = "PENDING"
    /\ \E d \in IF approve /\ row.type = COMP_OFF THEN Usable(row.who) ELSE {0} :
         Begin(c, [Job("claim", row.who, row.day, IF approve THEN Consequences(row) ELSE <<>>) EXCEPT
                     !.at = IF row.type \in {DUTY_DAY, SWAP_OFF}
                            THEN {j \in DOMAIN request : /\ request[j].who = row.who
                                                         /\ request[j].batch = row.batch
                                                         /\ request[j].type \in {DUTY_DAY, SWAP_OFF}}
                            ELSE {i},
                     !.rows = <<i>>, !.to = Verdict(approve), !.from = d])
    /\ ReadOnly

\* The general queue, which decides a request of any type: a leave with all its days.
General(row, approve) ==
    IF ~approve THEN <<>>
    ELSE (CASE row.type = "LATE_CHECKIN" -> <<"remark">>
            [] row.type = "FIELD_WORK" /\ row.day < today -> <<"findLog">>
            [] OTHER -> <<>>)
         \o (IF row.type \in {"LEAVE", "FIELD_WORK", WFH} THEN <<"recheckAll">> ELSE <<>>)

decideProposal(c, i, approve) ==
    LET row == request[i] IN
    /\ row.status = "PENDING"
    /\ Begin(c, [Job("claim", row.who, row.day,
                     (IF row.type = "LEAVE" THEN <<"siblings">> ELSE <<>>) \o General(row, approve))
                   EXCEPT !.at = {i}, !.rows = <<i>>, !.to = Verdict(approve)])
    /\ ReadOnly

approveProposal(c, i) == decideProposal(c, i, TRUE)
rejectProposal(c, i) == decideProposal(c, i, FALSE)

\* updateMany ... where status PENDING: the handler that changes no row stops.
StillPending_Seen(rows) == rows
StillPending(rows) == {i \in rows : request[i].status = "PENDING"}

claim(c) ==
    LET job == call[c]
        mine == StillPending(job.at)
    IN
    /\ job.op = "claim"
    /\ request' = [i \in DOMAIN request |->
                     IF i \in mine THEN [request[i] EXCEPT !.status = job.to] ELSE request[i]]
    /\ IF mine = {} THEN Finish(c) ELSE Done(c)
    /\ UNCHANGED <<Clock, log, credit, standing>>

siblings(c) ==
    LET job == call[c]
        i == Head(job.rows)
    IN
    /\ job.op = "siblings"
    /\ request' = [j \in DOMAIN request |->
                     IF /\ request[j].who = request[i].who /\ request[j].batch = request[i].batch
                        /\ request[j].type = "LEAVE" /\ request[j].status = "PENDING"
                     THEN [request[j] EXCEPT !.status = job.to] ELSE request[j]]
    /\ Done(c)
    /\ UNCHANGED <<Clock, log, credit, standing>>

\* The credit read before the claim is written by id.
useCredit(c) ==
    LET job == call[c] IN
    /\ job.op = "useCredit"
    /\ credit' = [credit EXCEPT ![Who(job)][job.from] = [state |-> "USED", for |-> Head(job.rows)]]
    /\ Done(c)
    /\ UNCHANGED <<Clock, request, log, standing>>

\* The day was worked: a full day is written unless the day has a log already.
findLog(c) ==
    LET job == call[c]
        seen == LogsOn(Who(job), job.day)
        next == IF seen = {} THEN "fullDay"
                ELSE IF request[Head(job.rows)].type = "FIELD_WORK" THEN "present" ELSE "skip"
    IN
    /\ job.op = "findLog"
    /\ Continue(c, [job EXCEPT !.op = next, !.at = seen])
    /\ ReadOnly

fullDay(c) ==
    LET job == call[c] IN
    /\ job.op = "fullDay"
    /\ log' = Append(log, [Log(Who(job), job.day, "PROPOSAL", FALSE) EXCEPT
                             !.out = "SAME_DAY", !.by = Head(job.rows)])
    /\ Done(c)
    /\ UNCHANGED <<Clock, request, credit, standing>>

\* A field day marked absent becomes present; a claim leaves the log alone.
correctLog(c) ==
    LET job == call[c] IN
    /\ job.op \in {"present", "skip"}
    /\ log' = [i \in DOMAIN log |->
                 IF job.op = "present" /\ i = Min(job.at) THEN [log[i] EXCEPT !.absent = FALSE] ELSE log[i]]
    /\ Done(c)
    /\ UNCHANGED <<Clock, request, credit, standing>>

\* An approved late arrival: the day's mark is worked out again from the check-in.
remark(c) ==
    LET job == call[c]
        seen == LogsOn(Who(job), job.day)
    IN
    /\ job.op = "remark"
    /\ log' = [i \in DOMAIN log |->
                 IF seen # {} /\ i = Min(seen) THEN [log[i] EXCEPT !.absent = log[i].late] ELSE log[i]]
    /\ Done(c)
    /\ UNCHANGED <<Clock, request, credit, standing>>

earn(c) ==
    /\ call[c].op = "earn"
    /\ creditCompOffIfEarned(Who(call[c]), call[c].day)
    /\ Done(c)
    /\ UNCHANGED <<Clock, request, log, standing>>

recheck(c) ==
    /\ call[c].op \in {"recheck", "recheckAll"}
    /\ recheckAbsences(call[c].who, IF call[c].op = "recheck" THEN {call[c].day} ELSE Days)
    /\ Done(c)
    /\ UNCHANGED <<Clock, request, log, credit>>

-----------------------------------------------------------------------------
(* Check-in and check-out.                                                  *)

LateNow == hour # "MORNING"

stampIn(c) ==
    LET job == call[c] IN
    /\ job.op = "stampIn"
    /\ log' = Append(log, [Log(Who(job), job.day, job.to, job.from = 1) EXCEPT
                             !.proof = job.proof])
    /\ Done(c)
    /\ UNCHANGED <<Clock, request, credit, standing>>

StampIn(w, source, then) ==
    [Job("stampIn", w, today, then) EXCEPT !.to = source, !.from = IF LateNow THEN 1 ELSE 0]

\* From the phone, on duty and field days; a doubt about the photos asks HR.
selfieCheckIn(c, w) ==
    LET duty == dayInfo(w, today).duty IN
    /\ duty \/ Approved(w, today, {"FIELD_WORK"})
    /\ LogsOn(w, today) = {}
    /\ \E proof \in {"PENDING", "OK"} :
         Begin(c, [StampIn(w, "APP_SELFIE", IF duty THEN <<"earn">> ELSE <<>>) EXCEPT !.proof = proof])
    /\ ReadOnly

wfhCheckIn(c, w) ==
    /\ ~dayInfo(w, today).offDay /\ Approved(w, today, {WFH, "FIELD_WORK"})
    /\ LogsOn(w, today) = {}
    /\ Begin(c, StampIn(w, "REMOTE", <<>>))
    /\ ReadOnly

MayLeave(w) == hour = "EVENING" \/ Approved(w, today, {"EARLY_CHECKOUT"})

wfhCheckOut(c, w) ==
    /\ MayLeave(w)
    /\ \E i \in LogsOn(w, today) :
         /\ log[i].out = "OPEN" /\ log[i].source \in {"REMOTE", "APP_SELFIE"}
         /\ Begin(c, [Job("stampOut", w, today, <<>>) EXCEPT !.at = {i}])
    /\ ReadOnly

stampOut(c) ==
    LET i == At(call[c]) IN
    /\ call[c].op = "stampOut"
    /\ log' = IF log[i].source = "DELETED" THEN log ELSE [log EXCEPT ![i].out = "SAME_DAY"]
    /\ Done(c)
    /\ UNCHANGED <<Clock, request, credit, standing>>

reviewProof(c, h, i, accept) ==
    /\ log[i].proof = "PENDING" /\ h # log[i].who
    /\ Begin(c, [Job("review", log[i].who, log[i].day, IF accept THEN <<>> ELSE <<"markAbsent", "loseCredit">>)
                   EXCEPT !.at = {i}, !.to = IF accept THEN "ACCEPTED" ELSE "REJECTED"])
    /\ ReadOnly

review(c) ==
    LET job == call[c] IN
    /\ job.op \in {"review", "markAbsent"}
    /\ log' = IF job.op = "review" THEN [log EXCEPT ![At(job)].proof = job.to]
              ELSE [log EXCEPT ![At(job)].absent = TRUE]
    /\ Done(c)
    /\ UNCHANGED <<Clock, request, credit, standing>>

loseCredit(c) ==
    LET job == call[c] IN
    /\ job.op = "loseCredit"
    /\ credit' = IF credit[Who(job)][job.day].state = "AVAILABLE"
                 THEN [credit EXCEPT ![Who(job)][job.day].state = "EXPIRED"] ELSE credit
    /\ Done(c)
    /\ UNCHANGED <<Clock, request, log, standing>>

(* The kiosk: routes/attendance/qr.ts.  What the day is is read first, then *)
(* one serializable transaction finds the open log and writes.              *)

OpenLogs(w) == {i \in DOMAIN log : log[i].who = w /\ log[i].out = "OPEN" /\ log[i].source # "DELETED"}
Latest(rows) == {i \in rows : \A j \in rows : log[j].day <= log[i].day}

Stale_Never(i, d) == FALSE
Stale(i, d) == log[i].day < d

HasRecord_Open(w, d) == FALSE
HasRecord(w, d) == LogsOn(w, d) # {}

scan(c, w) ==
    LET day == dayInfo(w, today) IN
    /\ Begin(c, [Job("kioskIn", w, today,
                     IF day.offDay THEN <<"openDuty">> ELSE IF day.duty THEN <<"earn">> ELSE <<>>)
                   EXCEPT !.from = IF LateNow THEN 1 ELSE 0])
    /\ ReadOnly

kioskIn(c) ==
    LET job == call[c]
        w == Who(job)
    IN
    /\ job.op = "kioskIn"
    /\ \E open \in IF OpenLogs(w) = {} THEN {{}} ELSE {{i} : i \in Latest(OpenLogs(w))} :
         LET stale == {i \in open : Stale(i, job.day)}
             closed == [i \in DOMAIN log |-> IF i \in stale THEN [log[i] EXCEPT !.out = "MIDNIGHT"] ELSE log[i]]
         IN IF open \ stale # {} \/ HasRecord(w, job.day)
            THEN log' = closed /\ Finish(c)
            ELSE /\ log' = Append(closed, Log(w, job.day, "QR_SCAN", job.from = 1))
                 /\ Done(c)
    /\ UNCHANGED <<Clock, request, credit, standing>>

\* openDutyRequestIfMissing: whoever came in on an off day is asked about to HR.
openDuty(c) ==
    LET w == Who(call[c])
        d == call[c].day
    IN
    /\ call[c].op = "openDuty"
    /\ request' = IF Standing(w, d, {DUTY_DAY}) THEN request
                  ELSE request \o Stamped(<<Row(w, DUTY_DAY, d, "PENDING")>>)
    /\ Done(c)
    /\ UNCHANGED <<Clock, log, credit, standing>>

checkout(c, w) ==
    /\ MayLeave(w)
    /\ Begin(c, Job("kioskOut", w, today, <<>>))
    /\ ReadOnly

kioskOut(c) ==
    LET job == call[c] IN
    /\ job.op = "kioskOut"
    /\ IF OpenLogs(Who(job)) = {} THEN UNCHANGED log
       ELSE \E i \in Latest(OpenLogs(Who(job))) :
              log' = [log EXCEPT ![i].out = IF Stale(i, job.day) THEN "MIDNIGHT" ELSE "SAME_DAY"]
    /\ Done(c)
    /\ UNCHANGED <<Clock, request, credit, standing>>

(* Corrections: routes/admin/attendance.ts and the company's holidays.      *)

adminCreate(c, w, d, absent, out) ==
    /\ log' = Append(log, [Log(w, d, "MANUAL", FALSE) EXCEPT !.absent = absent, !.out = out])
    /\ Serve(c)
    /\ UNCHANGED <<Clock, request, credit, standing>>

\* A scanned record that is corrected says so; several fields are several edits.
Edited(row) == [row EXCEPT !.source = IF @ = "QR_SCAN" THEN "QR_SCAN_EDITED" ELSE @]

adminEdit(c, i) ==
    /\ log[i].source # "DELETED"
    /\ \E row \in {[log[i] EXCEPT !.absent = ~@], [log[i] EXCEPT !.out = "OPEN"], [log[i] EXCEPT !.out = "EDITED"]}
                  \cup {[log[i] EXCEPT !.day = d] : d \in 1..today} :
         log' = [log EXCEPT ![i] = Edited(row)]
    /\ Serve(c)
    /\ UNCHANGED <<Clock, request, credit, standing>>

adminDelete(c, i) ==
    /\ log[i].source = "MANUAL"
    /\ log' = [log EXCEPT ![i].source = "DELETED"]
    /\ Serve(c)
    /\ UNCHANGED <<Clock, request, credit, standing>>

\* A holiday entered for today or earlier cancels the absences of that day.
addHoliday(c, d) ==
    /\ d \notin holidays
    /\ holidays' = holidays \cup {d}
    /\ Begin(c, IF d <= today THEN [Job("recheck", "", d, <<>>) EXCEPT !.who = Workers] ELSE Idle)
    /\ UNCHANGED <<today, hour, weeklyOff, rolled, desk>>

deleteHoliday(c, d) ==
    /\ d \in holidays
    /\ holidays' = holidays \ {d}
    /\ Serve(c)
    /\ UNCHANGED <<today, hour, weeklyOff, rolled, desk>>

-----------------------------------------------------------------------------
(* The nightly jobs: jobs/tasks.ts and jobs/scheduler.ts.                   *)

Rolling == \E c \in Calls : call[c] # Idle /\ call[c].op \in {"rollClose", "rollStaff", "rollSkip", "rollAbsent"}

\* Open logs are read first and closed one by one later.
rollup(c, d) ==
    /\ ~Rolling
    /\ call' = [call EXCEPT ![c] =
                  [Job("rollClose", "", d, <<"rollStaff", "rollSkip", "rollAbsent">>)
                     EXCEPT !.at = {i \in DOMAIN log : log[i].out = "OPEN" /\ log[i].day <= d
                                                        /\ log[i].source # "DELETED"}]]
    /\ disturbed' = (disturbed \/ ~AtRest)
    /\ UNCHANGED <<requests, attendance>>

dailyAttendanceRollupJob(c) == hour = "EVENING" /\ today \notin rolled /\ rollup(c, today)
runMissedDailyRollup(c) ==
    hour # "EVENING" /\ today > 1 /\ today - 1 \notin rolled /\ rollup(c, today - 1)

rollClose(c) ==
    LET job == call[c] IN
    /\ job.op = "rollClose"
    /\ log' = [i \in DOMAIN log |-> IF i \in job.at /\ log[i].source # "DELETED"
                                    THEN [log[i] EXCEPT !.out = "MIDNIGHT"] ELSE log[i]]
    /\ Done(c)
    /\ UNCHANGED <<Clock, request, credit, standing>>

\* Credits run out; a duty day worked earns one (as creditCompOffIfEarned does).
RolledCredit_Expire(w, d, e) ==
    IF credit[w][e].state = "AVAILABLE" /\ e + ValidDays < d THEN [credit[w][e] EXCEPT !.state = "EXPIRED"]
    ELSE credit[w][e]
RolledCredit(w, d, e) ==
    IF credit[w][e].state = "AVAILABLE" /\ e + ValidDays < d THEN [credit[w][e] EXCEPT !.state = "EXPIRED"]
    ELSE IF e = d /\ credit[w][d] = NoCredit /\ Approved(w, d, {DUTY_DAY}) /\ Attended(w, d)
    THEN [NoCredit EXCEPT !.state = "AVAILABLE"]
    ELSE credit[w][e]

ExcusedAtNight(w, d) ==
    LogsOn(w, d) # {} \/ dayInfo(w, d).offDay \/ Approved(w, d, {"LEAVE", "FIELD_WORK", WFH})

\* Whoever worked in the CRM on a duty day without a log is asked about instead.
rollStaff(c) ==
    LET job == call[c]
        d == job.day
    IN
    /\ job.op = "rollStaff"
    /\ \E busy \in SUBSET {w \in Workers : dayInfo(w, d).duty /\ LogsOn(w, d) = {}} :
         LET asked == SetToSeq({w \in busy : ~Asked(w, d, {CLAIM}, {"PENDING", "APPROVED", "REJECTED"})}) IN
         /\ request' = request \o Stamped([i \in DOMAIN asked |-> Row(asked[i], CLAIM, d, "PENDING")])
         /\ Continue(c, [job EXCEPT !.op = "rollSkip", !.then = <<"rollAbsent">>,
                           !.who = {w \in Workers \ busy : ~ExcusedAtNight(w, d)}])
    /\ credit' = [w \in Workers |-> [e \in Days |-> RolledCredit(w, d, e)]]
    /\ UNCHANGED <<Clock, log, standing>>

\* An earlier run of the same night may have stopped half-way.
AlreadyRecorded_Nobody(d) == {}
AlreadyRecorded(d) == {w \in Workers : standing[w][d] > 0}

rollSkip(c) ==
    LET job == call[c] IN
    /\ job.op = "rollSkip"
    /\ Continue(c, [job EXCEPT !.op = "rollAbsent", !.then = <<>>,
                      !.who = job.who \ AlreadyRecorded(job.day)])
    /\ ReadOnly

\* One event for each absentee, and the DONE event last.
rollAbsent(c) ==
    LET job == call[c] IN
    /\ job.op = "rollAbsent"
    /\ IF job.who = {}
       THEN rolled' = rolled \cup {job.day} /\ Finish(c) /\ UNCHANGED standing
       ELSE \E w \in job.who :
              /\ standing' = [standing EXCEPT ![w][job.day] = @ + 1]
              /\ Continue(c, [job EXCEPT !.who = job.who \ {w}])
              /\ UNCHANGED rolled
    /\ UNCHANGED <<today, hour, weeklyOff, holidays, request, log, credit>>

\* Absence Re-check at 00:30, and on every start.
nightlyRecheck ==
    /\ recheckAbsences(Workers, Days)
    /\ UNCHANGED <<running, Clock, request, log, credit>>

Tick ==
    /\ \/ hour = "MORNING" /\ hour' = "EVENING" /\ UNCHANGED today
       \/ hour = "EVENING" /\ today < LastDay /\ hour' = "MORNING" /\ today' = today + 1
    /\ UNCHANGED <<running, weeklyOff, holidays, rolled, desk>>

-----------------------------------------------------------------------------
Requests(c, w) ==
    \/ \E d \in Days :
         \/ dutyRequest(c, w, d) \/ compOffRequest(c, w, d) \/ claimRequest(c, w, d)
         \/ lateProposal(c, w, d) \/ fieldWorkProposal(c, w, d)
         \/ earlyLogoutProposal(c, w, d) \/ wfhProposal(c, w, d)
    \/ \E d, e \in Days : swapRequest(c, w, d, e) \/ leaveProposal(c, w, d, e)
    \/ selfieCheckIn(c, w) \/ wfhCheckIn(c, w) \/ wfhCheckOut(c, w) \/ scan(c, w) \/ checkout(c, w)

Management(c, h) ==
    \/ \E i \in DOMAIN request :
         \/ \E approve \in BOOLEAN : decide(c, h, i, approve)
         \/ approveProposal(c, i) \/ rejectProposal(c, i)
    \/ \E w \in Workers, d \in Days : assignDuty(c, h, w, d) \/ setWeeklyOff(c, h, w, d) \/ wfhGrant(c, w, d)
    \/ \E i \in DOMAIN log :
         \/ \E accept \in BOOLEAN : reviewProof(c, h, i, accept)
         \/ adminEdit(c, i) \/ adminDelete(c, i)
    \/ \E w \in Workers, d \in 1..today, absent \in BOOLEAN, out \in {"OPEN", "EDITED"} :
         adminCreate(c, w, d, absent, out)
    \/ \E d \in Days : addHoliday(c, d) \/ deleteHoliday(c, d)

Commits(c) ==
    \/ insert(c) \/ claim(c) \/ siblings(c) \/ useCredit(c)
    \/ findLog(c) \/ fullDay(c) \/ correctLog(c) \/ remark(c) \/ earn(c) \/ recheck(c)
    \/ stampIn(c) \/ stampOut(c) \/ review(c) \/ loseCredit(c)
    \/ kioskIn(c) \/ openDuty(c) \/ kioskOut(c)
    \/ rollClose(c) \/ rollStaff(c) \/ rollSkip(c) \/ rollAbsent(c)
    \/ Abandon(c) /\ UNCHANGED attendance

Init == HandlersInit /\ AttendanceInit

Next ==
    \/ /\ requests < MaxRequests
       /\ \E c \in Idling : (\E w \in Workers : Requests(c, w)) \/ (\E h \in HR : Management(c, h))
    \/ \E c \in Calls : call[c] # Idle /\ Commits(c)
    \/ \E c \in Idling : dailyAttendanceRollupJob(c) \/ runMissedDailyRollup(c)
    \/ nightlyRecheck \/ Tick

vars == <<running, attendance>>

Spec == Init /\ [][Next]_vars

-----------------------------------------------------------------------------
(* Properties.                                                              *)

\* A request is carried out once, however many people decide it at the same moment: it
\* never makes two attendance rows (the conditional claims; proposals.ts tells of a field
\* day that got two) ...
CarriedOutOnce ==
    \A i, j \in DOMAIN log : i # j /\ log[i].by # 0 => log[i].by # log[j].by

\* ... and it never uses up two comp-off days; a day that is used belongs to an approved
\* comp-off (duty.ts: the credit is read before the claim and written after it).
OneCreditPerCompOff ==
    \A w \in Workers : \A d \in Days : credit[w][d].state = "USED" =>
        /\ request[credit[w][d].for].type = COMP_OFF
        /\ request[credit[w][d].for].status = "APPROVED"
        /\ \A e \in Days \ {d} : credit[w][e].for # credit[w][d].for

RequestsCarriedOutOnce == CarriedOutOnce /\ OneCreditPerCompOff

\* Two scans of one badge or phone on one day make one record (the serializable check-in).
OneScanADay ==
    \A i, j \in DOMAIN log :
        /\ i # j /\ log[i].source = "QR_SCAN" /\ log[j].source = "QR_SCAN"
        /\ log[i].who = log[j].who
        => log[i].day # log[j].day

\* An absence is held against an employee once, also when the rollup stopped half-way
\* and the start of the server ran it again (runMissedDailyRollup).
AbsentOnce == \A w \in Workers, d \in Days : standing[w][d] <= 1

OneRecordADay == OneScanADay /\ AbsentOnce

\* Whoever forgot to check out on an earlier day loses nothing by it: a scan always leaves a
\* record of its day (the forgotten one "used to block every later scan", qr.ts:113-119), and
\* a check-out of a later day is never stamped on the forgotten record.
ForgottenCostsNothing ==
    [][\A c \in Calls :
         /\ kioskIn(c) => \E i \in DOMAIN log' : /\ log'[i].who = Who(call[c]) /\ log'[i].day >= call[c].day
                                                /\ log'[i].source # "DELETED"
         /\ kioskOut(c) => \A i \in DOMAIN log : log[i].out = "OPEN" /\ log'[i].out = "SAME_DAY"
                                                 => log[i].day >= call[c].day]_vars

\* When a day's rollup is done with no handler in its way, everybody who worked an
\* approved duty day has been credited for it, whichever desk approved the duty.
RollupCreditsDuty ==
    [][ \A d \in rolled' \ rolled : ~disturbed =>
          \A w \in Workers : Approved(w, d, {DUTY_DAY}) /\ Attended(w, d) => credit'[w][d] # NoCredit ]_vars

\* duty.ts:273: the two halves of a swap are "approved or rejected together".
SwapDecidedTogether ==
    \A i, j \in DOMAIN request :
        /\ request[i].who = request[j].who /\ request[i].batch = request[j].batch
        /\ request[i].type \in {DUTY_DAY, SWAP_OFF} /\ request[j].type \in {DUTY_DAY, SWAP_OFF}
        => request[i].status = request[j].status
=============================================================================
