-------------------------- MODULE AttendanceProofs --------------------------
(***************************************************************************)
(* What is proved about Attendance for every staff, days, requests and     *)
(* concurrent handlers.  The invariant says what a handler has still to    *)
(* do (Formed), that a request which was carried out or is being carried   *)
(* out is no longer pending, and that one rollup runs at a time.           *)
(***************************************************************************)
EXTENDS Attendance, SequenceTheorems, FiniteSetTheorems, TLAPS

-----------------------------------------------------------------------------
(* The handlers.                                                            *)

RollOps   == {"rollClose", "rollStaff", "rollSkip", "rollAbsent"}
Following == {"siblings", "useCredit", "findLog", "remark"}
Small     == {"earn", "recheck", "recheckAll", "openDuty", "markAbsent", "loseCredit"}
Starts    == {"insert", "claim", "stampIn", "stampOut", "review", "kioskIn", "kioskOut", "recheck"}
Midway    == {"fullDay", "present", "skip"}
Fields    == {"op", "who", "day", "at", "rows", "to", "from", "proof", "then"}

\* A claim is followed by at most one of Following; all else only by Small steps.
Steps(j) ==
    /\ j.op \in Starts \cup Following \cup Midway \cup Small \cup RollOps
    /\ j.op = "rollClose" => j.then # <<>> /\ Head(j.then) = "rollStaff"
    /\ j.op = "claim" /\ j.then # <<>> =>
          Head(j.then) \in Following \cup Small /\ Tail(j.then) \in Seq(Small)
    /\ j.op \notin RollOps \cup {"claim"} => j.then \in Seq(Small)
    /\ j.op = "insert" => j.then = <<>>

\* Whom and which day the handler is about.
About(j) ==
    /\ j.op # "insert" => j.day \in Days
    /\ \/ j.op \in RollOps
       \/ j.op = "recheck" /\ j.then = <<>>
       \/ \E w \in Workers : j.who = {w}
    /\ j.op \in {"rollSkip", "rollAbsent"} => j.who \subseteq Workers

\* What it will write, of the requests that were `asked' so far.
Writes(j, asked) ==
    /\ j.op = "insert" => j.rows \in Seq(RequestRow({0}))
    /\ j.op \in {"claim", "siblings"} => j.to \in {"APPROVED", "REJECTED"}
    /\ j.op \in {"claim", "siblings", "useCredit", "findLog", "fullDay"} => Head(j.rows) \in DOMAIN asked
    /\ j.op = "claim" /\ j.then # <<>> /\ Head(j.then) \in {"useCredit", "findLog"} =>
          j.at = {Head(j.rows)} /\ j.to = "APPROVED"
    /\ j.op = "useCredit" \/ (j.op = "claim" /\ j.then # <<>> /\ Head(j.then) = "useCredit") =>
          asked[Head(j.rows)].type = COMP_OFF /\ j.from \in Days
    /\ j.op = "stampIn" => j.to \in {"APP_SELFIE", "REMOTE"} /\ j.proof \in {"NONE", "PENDING", "OK"}
    /\ j.op = "review" => j.to \in {"ACCEPTED", "REJECTED"}

Formed(j, asked) == Fields \subseteq DOMAIN j /\ Steps(j) /\ About(j) /\ Writes(j, asked)

Running(c) == call[c] # Idle

-----------------------------------------------------------------------------
(* The inductive invariant.                                                 *)

Rows ==
    /\ request \in Seq(RequestRow(Nat)) /\ \A i \in DOMAIN request : request[i].batch \in 1..i
    /\ log \in Seq(LogRow(DOMAIN request))
    /\ credit \in [Workers -> [Days -> CreditRow(DOMAIN request)]]
    /\ standing \in [Workers -> [Days -> Nat]]

Calendar ==
    /\ today \in Days /\ hour \in {"MORNING", "EVENING"}
    /\ weeklyOff \in [Workers -> Days \cup {0}]
    /\ holidays \subseteq Days /\ rolled \subseteq Days

Jobs == DOMAIN call = Calls /\ \A c \in Calls : Running(c) => Formed(call[c], request)

ShapeInv == Rows /\ Calendar /\ Jobs

\* The request a handler is carrying out, and those that left their trace on the log ...
Logging(c) == Running(c) /\ call[c].op \in {"findLog", "fullDay"}

LogsInv ==
    /\ CarriedOutOnce
    /\ \A i \in DOMAIN log : log[i].by # 0 => request[log[i].by].status # "PENDING"
    /\ \A c \in Calls : Logging(c) =>
          /\ request[Head(call[c].rows)].status # "PENDING"
          /\ \A i \in DOMAIN log : log[i].by # Head(call[c].rows)
          /\ \A d \in Calls : d # c /\ Logging(d) => Head(call[d].rows) # Head(call[c].rows)

\* ... or on a credit.
Spending(c) == Running(c) /\ call[c].op = "useCredit"

CreditsInv ==
    /\ \A w \in Workers : \A d \in Days :
          /\ credit[w][d].state = "USED" <=> credit[w][d].for # 0
          /\ credit[w][d].for # 0 =>
                /\ request[credit[w][d].for].type = COMP_OFF
                /\ request[credit[w][d].for].status = "APPROVED"
                /\ \A e \in Days \ {d} : credit[w][e].for # credit[w][d].for
    /\ \A c \in Calls : Spending(c) =>
          /\ request[Head(call[c].rows)].status = "APPROVED"
          /\ \A w \in Workers : \A d \in Days : credit[w][d].for # Head(call[c].rows)
          /\ \A d \in Calls : d # c /\ Spending(d) => Head(call[d].rows) # Head(call[c].rows)

ScansInv == OneScanADay

\* One rollup at a time; those it will mark absent are not marked yet.
RollsInv ==
    /\ AbsentOnce
    /\ \A c, d \in Calls : /\ Running(c) /\ call[c].op \in RollOps
                           /\ Running(d) /\ call[d].op \in RollOps
                           => c = d
    /\ \A c \in Calls : Running(c) /\ call[c].op = "rollAbsent" =>
          \A w \in call[c].who : standing[w][call[c].day] = 0

\* Undisturbed, one handler runs at a time, and the rollup has credited before it is done.
Credited(d) == \A w \in Workers : Approved(w, d, {DUTY_DAY}) /\ Attended(w, d) => credit[w][d] # NoCredit

CreditedInv ==
    ~disturbed =>
       /\ \A c, d \in Calls : Running(c) /\ Running(d) => c = d
       /\ \A c \in Calls : Running(c) /\ call[c].op \in {"rollSkip", "rollAbsent"} => Credited(call[c].day)

AttendanceInv == ShapeInv /\ LogsInv /\ CreditsInv /\ ScansInv /\ RollsInv /\ CreditedInv

-----------------------------------------------------------------------------
(* What a step may do to the rows.                                          *)

\* Requests are added and decided.
Grown(old, new) ==
    /\ new \in Seq(RequestRow(Nat)) /\ \A i \in DOMAIN new : new[i].batch \in 1..i
    /\ DOMAIN old \subseteq DOMAIN new
    /\ \A i \in DOMAIN old :
          /\ new[i].type = old[i].type
          /\ old[i].status # "PENDING" => new[i].status = old[i].status

\* Logs are corrected, and one is added: made by `by', and the only scan of its day.
Relogged(old, new, ids, by) ==
    /\ new \in Seq(LogRow(ids))
    /\ DOMAIN old \subseteq DOMAIN new
    /\ \A i \in DOMAIN old :
          /\ new[i].who = old[i].who /\ new[i].by = old[i].by
          /\ new[i].source = "QR_SCAN" => old[i].source = "QR_SCAN" /\ new[i].day = old[i].day
    /\ \A i \in DOMAIN new \ DOMAIN old :
          /\ i = Len(old) + 1
          /\ new[i].by = by
          /\ new[i].source = "QR_SCAN" =>
                \A j \in DOMAIN old : old[j].who = new[i].who /\ old[j].day = new[i].day
                                      => old[j].source # "QR_SCAN"

\* Credits are earned and run out; none is used.
Recredited ==
    /\ credit' \in [Workers -> [Days -> CreditRow(DOMAIN request')]]
    /\ \A w \in Workers : \A d \in Days :
          /\ credit'[w][d].for = credit[w][d].for
          /\ credit'[w][d].state = "USED" <=> credit[w][d].state = "USED"

\* Absences are only cancelled.
Excusing ==
    /\ standing' \in [Workers -> [Days -> Nat]]
    /\ \A w \in Workers : \A d \in Days : standing'[w][d] \in {0, standing[w][d]}

\* If nothing was disturbed, no other handler is running.
Turn(c) == ~disturbed' => ~disturbed /\ (Running(c) \/ \A d \in Calls : ~Running(d))

\* A step of the handler c, which goes on with the job k.
Goes(c, k) == call' = [call EXCEPT ![c] = k] /\ (k = Idle \/ Formed(k, request'))

LEMMA LogRows ==
  ASSUME NEW ids, NEW rows \in Seq(LogRow(ids)), NEW i \in DOMAIN rows
  PROVE  /\ DOMAIN rows = 1..Len(rows) /\ Len(rows) \in Nat
         /\ rows[i] \in LogRow(ids) /\ rows[i].by \in {0} \cup ids
         /\ rows[i].who \in Workers /\ rows[i].day \in Days
<1>1. DOMAIN rows = 1..Len(rows) /\ Len(rows) \in Nat
  OBVIOUS
<1>2. rows[i] \in LogRow(ids)
  BY <1>1, ElementOfSeq
<1> QED
  BY <1>1, <1>2 DEF LogRow

LEMMA RequestRows ==
  ASSUME NEW batches, NEW rows \in Seq(RequestRow(batches)), NEW i \in DOMAIN rows
  PROVE  /\ DOMAIN rows = 1..Len(rows) /\ Len(rows) \in Nat
         /\ rows[i] \in RequestRow(batches)
         /\ rows[i].who \in Workers /\ rows[i].day \in Days
<1>1. DOMAIN rows = 1..Len(rows) /\ Len(rows) \in Nat
  OBVIOUS
<1>2. rows[i] \in RequestRow(batches)
  BY <1>1, ElementOfSeq
<1> QED
  BY <1>1, <1>2 DEF RequestRow

LEMMA FormedKept ==
  ASSUME NEW j, NEW old, NEW new, Grown(old, new), Formed(j, old)
  PROVE  Formed(j, new)
<1>1. Writes(j, new)
  BY DEF Formed, Writes, Grown
<1> QED
  BY <1>1 DEF Formed

LEMMA JobsStep ==
  ASSUME Jobs, NEW c \in Calls, NEW k, Goes(c, k), Grown(request, request')
  PROVE  Jobs'
<1>1. DOMAIN call' = Calls
  BY DEF Goes, Jobs
<1>2. ASSUME NEW d \in Calls, call'[d] # Idle
      PROVE  Formed(call'[d], request')
  <2>1. CASE d = c
    BY <2>1, <1>2 DEF Goes, Jobs
  <2>2. CASE d # c
    <3>1. call'[d] = call[d]
      BY <2>2 DEF Goes, Jobs
    <3> QED
      BY <3>1, <1>2, FormedKept DEF Jobs, Running
  <2> QED
    BY <2>1, <2>2
<1> QED
  BY <1>1, <1>2 DEF Jobs, Running

LEMMA IdleOp == Idle.op = "IDLE"
  BY DEF Idle

\* Whoever is not the handler of the step goes on as before.
LEMMA OthersKeep ==
  ASSUME Jobs, NEW c \in Calls, NEW k, Goes(c, k)
  PROVE  /\ call'[c] = k
         /\ \A d \in Calls : d # c => call'[d] = call[d] /\ (Running(d)' <=> Running(d))
  BY DEF Goes, Jobs, Running

-----------------------------------------------------------------------------
(* The parts of the invariant that a step does not concern.                 *)

LEMMA LogsKept ==
  ASSUME Rows, Jobs, LogsInv, NEW c \in Calls, NEW k, Goes(c, k), k.op \notin {"findLog", "fullDay"},
         Grown(request, request'), Relogged(log, log', DOMAIN request', 0)
  PROVE  LogsInv'
<1>1. \A i \in DOMAIN log' : log'[i].by # 0 => i \in DOMAIN log /\ log'[i].by = log[i].by
  BY DEF Relogged
<1>2. CarriedOutOnce'
  BY <1>1 DEF LogsInv, CarriedOutOnce
<1>3. ASSUME NEW i \in DOMAIN log', log'[i].by # 0
      PROVE  request'[log'[i].by].status # "PENDING"
  <2>1. i \in DOMAIN log /\ log'[i].by = log[i].by
    BY <1>1, <1>3
  <2>2. log[i].by \in DOMAIN request
    BY <2>1, <1>3, LogRows DEF Rows
  <2> QED
    BY <2>1, <2>2, <1>3 DEF LogsInv, Grown
<1>4. ASSUME NEW d \in Calls, Logging(d)'
      PROVE  d # c /\ Logging(d) /\ call'[d] = call[d]
  BY <1>4, OthersKeep DEF Logging, Running
<1>5. ASSUME NEW d \in Calls, Logging(d)
      PROVE  Head(call[d].rows) \in DOMAIN request
  BY <1>5 DEF Logging, Jobs, Formed, Writes
<1>6. ASSUME NEW d \in Calls, Logging(d)'
      PROVE  /\ request'[Head(call'[d].rows)].status # "PENDING"
             /\ \A i \in DOMAIN log' : log'[i].by # Head(call'[d].rows)
             /\ \A e \in Calls : e # d /\ Logging(e)' => Head(call'[e].rows) # Head(call'[d].rows)
  <2>1. d # c /\ Logging(d) /\ call'[d] = call[d] /\ Head(call[d].rows) \in DOMAIN request
    BY <1>4, <1>5, <1>6
  <2>2. request'[Head(call[d].rows)].status # "PENDING"
    BY <2>1 DEF LogsInv, Grown
  <2>3. ASSUME NEW i \in DOMAIN log' PROVE log'[i].by # Head(call[d].rows)
    <3>1. Head(call[d].rows) # 0
      BY <2>1 DEF Rows
    <3> QED
      BY <3>1, <2>1, <2>3, <1>1 DEF LogsInv
  <2>4. ASSUME NEW e \in Calls, e # d, Logging(e)'
        PROVE  Head(call'[e].rows) # Head(call'[d].rows)
    BY <2>1, <2>4, <1>4 DEF LogsInv
  <2> QED
    BY <2>1, <2>2, <2>3, <2>4
<1> QED
  BY <1>2, <1>3, <1>6 DEF LogsInv

LEMMA CreditsKept ==
  ASSUME Rows, Jobs, CreditsInv, NEW c \in Calls, NEW k, Goes(c, k), k.op # "useCredit",
         Grown(request, request'), Recredited
  PROVE  CreditsInv'
<1>1. ASSUME NEW w \in Workers, NEW d \in Days
      PROVE  /\ credit'[w][d].state = "USED" <=> credit'[w][d].for # 0
             /\ credit'[w][d].for # 0 =>
                   /\ request'[credit'[w][d].for].type = COMP_OFF
                   /\ request'[credit'[w][d].for].status = "APPROVED"
                   /\ \A e \in Days \ {d} : credit'[w][e].for # credit'[w][d].for
  <2>1. credit[w][d].for \in {0} \cup DOMAIN request
    BY DEF Rows, CreditRow
  <2>2. \A e \in Days : credit'[w][e].for = credit[w][e].for
    BY DEF Recredited
  <2>3. credit'[w][d].state = "USED" <=> credit[w][d].state = "USED"
    BY DEF Recredited
  <2> QED
    BY <2>1, <2>2, <2>3 DEF CreditsInv, Grown
<1>2. ASSUME NEW d \in Calls, Spending(d)'
      PROVE  d # c /\ Spending(d) /\ call'[d] = call[d]
  BY <1>2, OthersKeep DEF Spending, Running
<1>3. ASSUME NEW d \in Calls, Spending(d)
      PROVE  Head(call[d].rows) \in DOMAIN request
  BY <1>3 DEF Spending, Jobs, Formed, Writes
<1>4. ASSUME NEW d \in Calls, Spending(d)'
      PROVE  /\ request'[Head(call'[d].rows)].status = "APPROVED"
             /\ \A w \in Workers : \A e \in Days : credit'[w][e].for # Head(call'[d].rows)
             /\ \A e \in Calls : e # d /\ Spending(e)' => Head(call'[e].rows) # Head(call'[d].rows)
  <2>1. d # c /\ Spending(d) /\ call'[d] = call[d] /\ Head(call[d].rows) \in DOMAIN request
    BY <1>2, <1>3, <1>4
  <2>2. request'[Head(call[d].rows)].status = "APPROVED"
    BY <2>1 DEF CreditsInv, Grown
  <2>3. \A w \in Workers : \A e \in Days : credit'[w][e].for # Head(call[d].rows)
    BY <2>1 DEF CreditsInv, Recredited
  <2>4. ASSUME NEW e \in Calls, e # d, Spending(e)'
        PROVE  Head(call'[e].rows) # Head(call'[d].rows)
    BY <2>1, <2>4, <1>2 DEF CreditsInv
  <2> QED
    BY <2>1, <2>2, <2>3, <2>4
<1> QED
  BY <1>1, <1>4 DEF CreditsInv

LEMMA ScansKept ==
  ASSUME Rows, ScansInv, NEW by, Relogged(log, log', DOMAIN request', by)
  PROVE  ScansInv'
<1>1. ASSUME NEW i \in DOMAIN log', NEW j \in DOMAIN log', i # j,
             log'[i].source = "QR_SCAN", log'[j].source = "QR_SCAN", log'[i].who = log'[j].who
      PROVE  log'[i].day # log'[j].day
  <2>1. CASE i \in DOMAIN log /\ j \in DOMAIN log
    BY <2>1, <1>1 DEF ScansInv, OneScanADay, Relogged
  <2>2. CASE i \notin DOMAIN log /\ j \in DOMAIN log
    BY <2>2, <1>1 DEF Relogged
  <2>3. CASE i \in DOMAIN log /\ j \notin DOMAIN log
    BY <2>3, <1>1 DEF Relogged
  <2>4. CASE i \notin DOMAIN log /\ j \notin DOMAIN log
    BY <2>4, <1>1 DEF Relogged
  <2> QED
    BY <2>1, <2>2, <2>3, <2>4
<1>2. OneScanADay'
  BY <1>1 DEF OneScanADay
<1> QED
  BY <1>2 DEF ScansInv, Relogged

LEMMA RollsKept ==
  ASSUME Rows, Jobs, RollsInv, NEW c \in Calls, NEW k, Goes(c, k),
         k.op \in RollOps => Running(c) /\ call[c].op \in RollOps, k.op # "rollAbsent", Excusing
  PROVE  RollsInv'
<1>1. AbsentOnce'
  BY DEF RollsInv, AbsentOnce, Excusing
<1>2. ASSUME NEW d \in Calls, Running(d)', call'[d].op \in RollOps
      PROVE  Running(d) /\ call[d].op \in RollOps /\ (call'[d].op = "rollAbsent" => call'[d] = call[d])
  BY <1>2, OthersKeep
<1>3. ASSUME NEW d \in Calls, NEW e \in Calls, Running(d)', call'[d].op \in RollOps,
             Running(e)', call'[e].op \in RollOps
      PROVE  d = e
  BY <1>2, <1>3 DEF RollsInv
<1>4. ASSUME NEW d \in Calls, Running(d)', call'[d].op = "rollAbsent"
      PROVE  \A w \in call'[d].who : standing'[w][call'[d].day] = 0
  <2>1. Running(d) /\ call'[d] = call[d]
    BY <1>4, <1>2 DEF RollOps
  <2>2. call[d].who \subseteq Workers /\ call[d].day \in Days
    BY <2>1, <1>4 DEF Jobs, Formed, About
  <2>3. \A w \in call[d].who : standing[w][call[d].day] = 0
    BY <2>1, <1>4 DEF RollsInv
  <2> QED
    BY <2>1, <2>2, <2>3 DEF Excusing
<1> QED
  BY <1>1, <1>3, <1>4 DEF RollsInv

LEMMA CreditedKept ==
  ASSUME Jobs, CreditedInv, NEW c \in Calls, NEW k, Goes(c, k), k.op \notin {"rollSkip", "rollAbsent"}, Turn(c)
  PROVE  CreditedInv'
<1> SUFFICES ASSUME ~disturbed'
             PROVE  \A d \in Calls : d # c => ~Running(d)'
  BY OthersKeep DEF CreditedInv, Running
<1> QED
  BY OthersKeep DEF CreditedInv, Turn

-----------------------------------------------------------------------------
(* How the rows are written.                                                *)

LEMMA SameRequests ==
  ASSUME Rows
  PROVE  Grown(request, request)
  BY DEF Rows, Grown

LEMMA MoreRequests ==
  ASSUME Rows, NEW rows \in Seq(RequestRow({0})), NEW new, new = request \o Stamped(rows)
  PROVE  /\ Grown(request, new)
         /\ \A i \in DOMAIN new :
              \/ i \in DOMAIN request /\ new[i] = request[i]
              \/ \E k \in DOMAIN rows : new[i].type = rows[k].type
<1> DEFINE n == Len(request)
           more == Stamped(rows)
<1>1. n \in Nat /\ DOMAIN request = 1..n /\ request \in Seq(RequestRow(Nat))
  BY DEF Rows
<1>2. DOMAIN rows = 1..Len(rows) /\ Len(rows) \in Nat
  OBVIOUS
<1>3. \A k \in DOMAIN rows : rows[k] \in RequestRow({0})
  BY RequestRows
<1>4. \A k \in DOMAIN rows : more[k] = [rows[k] EXCEPT !.batch = n + 1]
  BY DEF Stamped
<1>5. \A k \in DOMAIN rows : /\ more[k] \in RequestRow(Nat) /\ more[k].batch = n + 1
                             /\ more[k].type = rows[k].type
  <2> SUFFICES ASSUME NEW k \in DOMAIN rows, NEW b \in Nat, b = n + 1
               PROVE  /\ more[k] \in RequestRow(Nat) /\ more[k].batch = b
                      /\ more[k].type = rows[k].type
    BY <1>1
  <2> HIDE DEF n, more
  <2> QED
    BY <1>3, <1>4 DEF RequestRow
<1>6. more \in Seq(RequestRow(Nat)) /\ Len(more) = Len(rows)
  <2>1. more \in [1..Len(rows) -> RequestRow(Nat)]
    BY <1>2, <1>5 DEF Stamped
  <2> QED
    BY <2>1, <1>2
<1>6a. new = request \o more
  OBVIOUS
<1> HIDE DEF more
<1>7. /\ new \in Seq(RequestRow(Nat)) /\ Len(new) = n + Len(rows)
      /\ \A i \in 1..Len(new) : new[i] = IF i <= n THEN request[i] ELSE more[i - n]
  <2>1. /\ request \o more \in Seq(RequestRow(Nat)) /\ Len(request \o more) = n + Len(more)
        /\ \A i \in 1..n + Len(more) : (request \o more)[i] = IF i <= n THEN request[i] ELSE more[i - n]
    BY <1>1, <1>6, ConcatProperties
  <2> QED
    BY <2>1, <1>6, <1>6a
<1>8. DOMAIN new = 1..n + Len(rows)
  BY <1>7
<1>9. ASSUME NEW i \in DOMAIN new, i \notin DOMAIN request
      PROVE  /\ new[i].batch \in 1..i
             /\ i - n \in DOMAIN rows /\ new[i].type = rows[i - n].type
  <2>1. i - n \in DOMAIN rows /\ new[i] = more[i - n] /\ n + 1 <= i /\ i \in Nat
    BY <1>9, <1>8, <1>7, <1>1, <1>2
  <2>2. n + 1 \in 1..i
    BY <2>1, <1>1
  <2> QED
    BY <2>1, <2>2, <1>5
<1>10. \A i \in DOMAIN request : i \in DOMAIN new /\ new[i] = request[i]
  BY <1>7, <1>8, <1>1, <1>2
<1>11. \A i \in DOMAIN new : new[i].batch \in 1..i
  BY <1>9, <1>10 DEF Rows
<1> QED
  BY <1>7, <1>9, <1>10, <1>11 DEF Grown

LEMMA DecidedRequests ==
  ASSUME Rows, NEW them, NEW to \in {"APPROVED", "REJECTED"}, NEW new,
         \A i \in DOMAIN request : i \in them => request[i].status = "PENDING",
         new = [i \in DOMAIN request |->
                  IF i \in them THEN [request[i] EXCEPT !.status = to] ELSE request[i]]
  PROVE  /\ Grown(request, new) /\ DOMAIN new = DOMAIN request
         /\ \A i \in DOMAIN request : i \in them => new[i].status = to
<1>1. \A i \in DOMAIN request : request[i] \in RequestRow(Nat)
  BY RequestRows DEF Rows
<1>2. \A i \in DOMAIN request :
        /\ new[i] \in RequestRow(Nat) /\ new[i].batch = request[i].batch
        /\ new[i].type = request[i].type
        /\ i \in them => new[i].status = to
        /\ i \notin them => new[i] = request[i]
  BY <1>1 DEF RequestRow
<1>3. new \in [1..Len(request) -> RequestRow(Nat)]
  BY <1>2 DEF Rows
<1>4. Len(request) \in Nat
  BY DEF Rows
<1>5. new \in Seq(RequestRow(Nat))
  BY <1>3, <1>4
<1> QED
  BY <1>2, <1>5 DEF Grown, Rows

\* A log row may be corrected, but is not moved to another day while it counts as a scan.
Fixed(old, new, ids) ==
    /\ new \in LogRow(ids) /\ new.who = old.who /\ new.by = old.by
    /\ new.source = "QR_SCAN" => old.source = "QR_SCAN" /\ new.day = old.day

LEMMA FixedLogs ==
  ASSUME NEW ids, NEW rows \in Seq(LogRow(ids)), NEW new, DOMAIN new = DOMAIN rows,
         new = [i \in DOMAIN rows |-> new[i]],
         \A i \in DOMAIN rows : Fixed(rows[i], new[i], ids), NEW by
  PROVE  Relogged(rows, new, ids, by)
<1>1. new \in [1..Len(rows) -> LogRow(ids)] /\ Len(rows) \in Nat
  BY DEF Fixed
<1>2. new \in Seq(LogRow(ids))
  BY <1>1
<1> QED
  BY <1>2 DEF Relogged, Fixed

LEMMA LogGrows ==
  ASSUME NEW ids, NEW more, ids \subseteq more
  PROVE  LogRow(ids) \subseteq LogRow(more)
  BY DEF LogRow

LEMMA SameLogs ==
  ASSUME Rows, ScansInv, NEW more, DOMAIN request \subseteq more, NEW by
  PROVE  Relogged(log, log, more, by)
<1>1. log \in Seq(LogRow(more))
  <2>1. \A i \in DOMAIN log : log[i] \in LogRow(more)
    BY LogRows, LogGrows DEF Rows
  <2>2. log \in [1..Len(log) -> LogRow(more)] /\ Len(log) \in Nat
    BY <2>1 DEF Rows
  <2> QED
    BY <2>2
<1> QED
  BY <1>1 DEF Relogged, ScansInv

LEMMA AddedLog ==
  ASSUME NEW ids, NEW rows \in Seq(LogRow(ids)), NEW mid, DOMAIN mid = DOMAIN rows,
         Relogged(rows, mid, ids, 0), NEW row \in LogRow(ids),
         row.source = "QR_SCAN" =>
            \A j \in DOMAIN rows : rows[j].who = row.who /\ rows[j].day = row.day
                                   => rows[j].source # "QR_SCAN",
         NEW new, new = Append(mid, row)
  PROVE  Relogged(rows, new, ids, row.by)
<1>1. mid \in Seq(LogRow(ids)) /\ Len(mid) = Len(rows) /\ Len(rows) \in Nat
  BY DEF Relogged
<1>2. /\ new \in Seq(LogRow(ids)) /\ Len(new) = Len(rows) + 1
      /\ \A i \in 1..Len(rows) : new[i] = mid[i]
      /\ new[Len(rows) + 1] = row
  BY <1>1, AppendProperties
<1>3. DOMAIN rows = 1..Len(rows) /\ DOMAIN new = 1..Len(rows) + 1
  BY <1>1, <1>2
<1>4. \A i \in DOMAIN new \ DOMAIN rows : i = Len(rows) + 1
  BY <1>3, <1>1
<1>5. \A i \in DOMAIN rows : i \in DOMAIN new /\ new[i] = mid[i]
  BY <1>2, <1>3
<1> QED
  BY <1>2, <1>4, <1>5 DEF Relogged

\* The corrections the handlers make.
LEMMA Corrections ==
  ASSUME NEW ids, NEW row \in LogRow(ids)
  PROVE  /\ Fixed(row, row, ids)
         /\ \A x \in {"OPEN", "SAME_DAY", "MIDNIGHT", "EDITED"} : Fixed(row, [row EXCEPT !.out = x], ids)
         /\ \A x \in BOOLEAN : Fixed(row, [row EXCEPT !.absent = x], ids)
         /\ \A x \in {"ACCEPTED", "REJECTED"} : Fixed(row, [row EXCEPT !.proof = x], ids)
         /\ Fixed(row, [row EXCEPT !.source = "DELETED"], ids)
<1>1. Fixed(row, row, ids)
  BY DEF Fixed
<1>2. \A x \in {"OPEN", "SAME_DAY", "MIDNIGHT", "EDITED"} : Fixed(row, [row EXCEPT !.out = x], ids)
  BY DEF Fixed, LogRow
<1>3. \A x \in BOOLEAN : Fixed(row, [row EXCEPT !.absent = x], ids)
  BY DEF Fixed, LogRow
<1>4. \A x \in {"ACCEPTED", "REJECTED"} : Fixed(row, [row EXCEPT !.proof = x], ids)
  BY DEF Fixed, LogRow
<1>5. Fixed(row, [row EXCEPT !.source = "DELETED"], ids)
  BY DEF Fixed, LogRow
<1> QED
  BY <1>1, <1>2, <1>3, <1>4, <1>5

-----------------------------------------------------------------------------
(* A step that neither carries a request out nor rolls a day up.            *)

Plain(c) ==
    /\ \E k : /\ Goes(c, k)
              /\ k.op \notin {"findLog", "fullDay", "useCredit", "rollSkip", "rollAbsent"}
              /\ k.op \in RollOps => Running(c) /\ call[c].op \in RollOps
    /\ Grown(request, request') /\ Relogged(log, log', DOMAIN request', 0)
    /\ Recredited /\ Excusing /\ Turn(c) /\ Calendar'

LEMMA RowsStep ==
  ASSUME Rows, Grown(request, request'), NEW by, Relogged(log, log', DOMAIN request', by),
         credit' \in [Workers -> [Days -> CreditRow(DOMAIN request')]],
         standing' \in [Workers -> [Days -> Nat]]
  PROVE  Rows'
  BY DEF Rows, Grown, Relogged

LEMMA PlainKeeps ==
  ASSUME AttendanceInv, NEW c \in Calls, Plain(c)
  PROVE  AttendanceInv'
<1> USE DEF AttendanceInv, ShapeInv
<1>1. PICK k : /\ Goes(c, k)
               /\ k.op \notin {"findLog", "fullDay", "useCredit", "rollSkip", "rollAbsent"}
               /\ k.op \in RollOps => Running(c) /\ call[c].op \in RollOps
  BY DEF Plain
<1>2. /\ Grown(request, request') /\ Relogged(log, log', DOMAIN request', 0)
      /\ Recredited /\ Excusing /\ Turn(c) /\ Calendar'
  BY DEF Plain
<1>3. Rows'
  BY <1>2, RowsStep DEF Recredited, Excusing
<1>4. Jobs'
  BY <1>1, <1>2, JobsStep
<1>5. LogsInv'
  BY <1>1, <1>2, LogsKept
<1>6. CreditsInv'
  BY <1>1, <1>2, CreditsKept
<1>7. ScansInv'
  BY <1>2, ScansKept
<1>8. RollsInv'
  BY <1>1, <1>2, RollsKept
<1>9. CreditedInv'
  BY <1>1, <1>2, CreditedKept
<1> QED
  BY <1>2, <1>3, <1>4, <1>5, <1>6, <1>7, <1>8, <1>9

-----------------------------------------------------------------------------
(* What follows a claim.                                                    *)

AllSteps == Following \cup Small

LEMMA ShortPlans ==
  /\ <<>> \in Seq(Small) /\ (\A a \in Small : <<a>> \in Seq(Small))
  /\ <<"markAbsent", "loseCredit">> \in Seq(Small)
  BY DEF Small

LEMMA SmallSteps == ASSUME NEW s \in Seq(Small) PROVE s \in Seq(AllSteps)
  BY DEF AllSteps

LEMMA Among ==
  ASSUME NEW S, NEW T, NEW s \in Seq(S), \A i \in 1..Len(s) : s[i] \in T
  PROVE  s \in Seq(T)
<1>1. s = [i \in 1..Len(s) |-> s[i]] /\ Len(s) \in Nat
  OBVIOUS
<1>2. s \in [1..Len(s) -> T]
  BY <1>1
<1> QED
  BY <1>1, <1>2

LEMMA FirstStep ==
  ASSUME NEW a \in AllSteps, NEW s \in Seq(Small)
  PROVE  <<a>> \o s # <<>> /\ Head(<<a>> \o s) = a /\ Tail(<<a>> \o s) \in Seq(Small)
<1> DEFINE all == <<a>> \o s
<1>1. <<a>> \in Seq(AllSteps) /\ s \in Seq(AllSteps) /\ Len(<<a>>) = 1 /\ <<a>>[1] = a /\ Len(s) \in Nat
  BY SmallSteps
<1>2. /\ all \in Seq(AllSteps) /\ Len(all) = 1 + Len(s)
      /\ \A i \in 1..1 + Len(s) : all[i] = IF i <= 1 THEN <<a>>[i] ELSE s[i - 1]
  BY <1>1, ConcatProperties
<1> HIDE DEF all
<1>3. all # <<>> /\ Head(all) = a
  BY <1>1, <1>2
<1>4. Tail(all) \in Seq(AllSteps) /\ Len(Tail(all)) = Len(s) /\ \A i \in 1..Len(s) : Tail(all)[i] = all[i + 1]
  BY <1>1, <1>2, <1>3, HeadTailProperties
<1>5. \A i \in 1..Len(s) : Tail(all)[i] \in Small
  <2> SUFFICES ASSUME NEW i \in 1..Len(s) PROVE Tail(all)[i] \in Small
    OBVIOUS
  <2>1. all[i + 1] = s[i]
    BY <1>1, <1>2
  <2> QED
    BY <2>1, <1>4, ElementOfSeq
<1>6. Tail(all) \in Seq(Small)
  BY <1>1, <1>4, <1>5, Among
<1> QED
  BY <1>3, <1>6 DEF all

\* A plan has one step of Following at most, and it comes first.
Plan(s, first) ==
    s # <<>> => Head(s) \in AllSteps /\ Tail(s) \in Seq(Small) /\ (Head(s) \in Following => Head(s) \in first)

LEMMA SmallPlan ==
  ASSUME NEW s \in Seq(Small), NEW first
  PROVE  Plan(s, first)
<1>1. s # <<>> => Head(s) \in Small /\ Tail(s) \in Seq(Small)
  BY HeadTailProperties
<1> QED
  BY <1>1 DEF Plan, AllSteps, Small, Following

LEMMA LedPlan ==
  ASSUME NEW a \in AllSteps, NEW s \in Seq(Small)
  PROVE  Plan(<<a>> \o s, {a})
  BY FirstStep DEF Plan

LEMMA ConsequencesPlan ==
  ASSUME NEW row
  PROVE  /\ Consequences(row) # <<>>
         /\ Plan(Consequences(row), (IF row.type = COMP_OFF THEN {"useCredit"} ELSE {})
                                      \cup (IF row.type = CLAIM THEN {"findLog"} ELSE {}))
<1> DEFINE used  == IF row.type = COMP_OFF THEN <<"useCredit">> ELSE <<>>
           found == IF row.type = CLAIM THEN <<"findLog">> ELSE <<>>
           due   == IF row.type \in {DUTY_DAY, CLAIM} /\ row.day <= today THEN <<"earn">> ELSE <<>>
<1>1. Consequences(row) = ((used \o found) \o due) \o <<"recheck">>
  BY DEF Consequences
<1>2. due \in Seq(Small) /\ <<"recheck">> \in Seq(Small)
  BY ShortPlans DEF Small
<1>3. /\ due \in Seq(AllSteps) /\ <<"recheck">> \in Seq(AllSteps)
      /\ \A a \in AllSteps : <<a>> \in Seq(AllSteps)
  <2>1. \A a \in AllSteps : <<a>> \in Seq(AllSteps)
    OBVIOUS
  <2> HIDE DEF due
  <2> QED
    BY <2>1, <1>2, SmallSteps
<1>4. due \o <<"recheck">> \in Seq(Small) /\ due \o <<"recheck">> # <<>>
  <2>1. due \o <<"recheck">> \in Seq(Small)
    BY <1>2, ConcatProperties
  <2> QED
    BY <2>1, <1>2, ConcatEqualIffEmpty
<1>5. CASE row.type = COMP_OFF
  <2>1. used = <<"useCredit">> /\ found = <<>> /\ due = <<>> /\ "useCredit" \in AllSteps
    BY <1>5 DEF COMP_OFF, CLAIM, DUTY_DAY, AllSteps, Following
  <2>2. <<"useCredit">> \o <<>> = <<"useCredit">>
    BY <2>1, <1>3, ConcatEmptySeq
  <2>3. Consequences(row) = <<"useCredit">> \o <<"recheck">>
    BY <1>1, <2>1, <2>2
  <2> HIDE DEF used, found, due
  <2> QED
    BY <2>1, <2>3, <1>2, <1>5, LedPlan, FirstStep DEF COMP_OFF, CLAIM, Plan
<1>6. CASE row.type = CLAIM
  <2>1. used = <<>> /\ found = <<"findLog">> /\ "findLog" \in AllSteps
    BY <1>6 DEF COMP_OFF, CLAIM, AllSteps, Following
  <2>2. <<>> \o <<"findLog">> = <<"findLog">>
    BY <2>1, <1>3, ConcatEmptySeq
  <2> HIDE DEF used, found, due
  <2>3. Consequences(row) = (<<"findLog">> \o due) \o <<"recheck">>
    BY <1>1, <2>1, <2>2
  <2>4. Consequences(row) = <<"findLog">> \o (due \o <<"recheck">>)
    BY <2>1, <2>3, <1>3, ConcatAssociative
  <2> QED
    BY <2>1, <2>4, <1>4, <1>6, LedPlan, FirstStep DEF COMP_OFF, CLAIM, Plan
<1>7. CASE row.type \notin {COMP_OFF, CLAIM}
  <2>1. used = <<>> /\ found = <<>>
    BY <1>7
  <2>2. <<>> \o <<>> = <<>> /\ <<>> \o due = due
    BY <1>3, EmptySeq, ConcatEmptySeq
  <2> HIDE DEF used, found, due
  <2>3. Consequences(row) = due \o <<"recheck">>
    BY <1>1, <2>1, <2>2
  <2> QED
    BY <2>3, <1>4, SmallPlan
<1> QED
  BY <1>5, <1>6, <1>7

LEMMA GeneralPlan ==
  ASSUME NEW row, NEW approve \in BOOLEAN
  PROVE  LET s == (IF row.type = "LEAVE" THEN <<"siblings">> ELSE <<>>) \o General(row, approve)
         IN  Plan(s, {"siblings", "remark"} \cup (IF approve THEN {"findLog"} ELSE {}))
<1> DEFINE kin   == IF row.type = "LEAVE" THEN <<"siblings">> ELSE <<>>
           first == CASE row.type = "LATE_CHECKIN" -> <<"remark">>
                      [] row.type = "FIELD_WORK" /\ row.day < today -> <<"findLog">>
                      [] OTHER -> <<>>
           last  == IF row.type \in {"LEAVE", "FIELD_WORK", WFH} THEN <<"recheckAll">> ELSE <<>>
           all   == {"siblings", "remark"} \cup (IF approve THEN {"findLog"} ELSE {})
           s     == kin \o General(row, approve)
<1>1. General(row, approve) = IF ~approve THEN <<>> ELSE first \o last
  BY DEF General
<1>2. last \in Seq(Small) /\ <<>> \in Seq(Small)
  BY ShortPlans DEF Small
<1>3. {"siblings", "remark", "findLog"} \subseteq AllSteps /\ \A a \in AllSteps : <<a>> \in Seq(AllSteps)
  BY DEF AllSteps, Following
<1>4. <<>> \o last = last /\ <<>> \o <<>> = <<>>
  BY <1>2, ConcatEmptySeq
<1>5. CASE row.type = "LEAVE"
  <2>1. kin = <<"siblings">> /\ first = <<>>
    BY <1>5
  <2>2. s = <<"siblings">> \o (IF ~approve THEN <<>> ELSE last)
    BY <2>1, <1>1, <1>4
  <2> HIDE DEF kin, first, last, s
  <2>3. Plan(s, {"siblings"})
    BY <2>2, <1>2, <1>3, LedPlan
  <2> QED
    BY <2>3 DEF Plan, s, kin
<1>6. CASE row.type # "LEAVE" /\ ~approve
  <2>1. s = <<>>
    BY <1>6, <1>1, <1>4
  <2> QED
    BY <2>1 DEF Plan
<1>7. CASE row.type # "LEAVE" /\ approve
  <2>1. kin = <<>>
    BY <1>7
  <2>2. first \in {<<"remark">>, <<"findLog">>, <<>>}
    OBVIOUS
  <2>3. s = <<>> \o (first \o last)
    BY <2>1, <1>1, <1>7
  <2> HIDE DEF kin, first, last, s
  <2>4. CASE first = <<>>
    <3>1. s = last
      BY <2>3, <2>4, <1>4
    <3> QED
      BY <3>1, <1>2, SmallPlan DEF s, kin
  <2>5. ASSUME NEW a \in {"remark", "findLog"}, first = <<a>>
        PROVE  Plan(s, all)
    <3>1. a \in AllSteps /\ <<a>> \in Seq(AllSteps) /\ last \in Seq(AllSteps)
      BY <1>2, <1>3, SmallSteps
    <3>2. <<a>> \o last \in Seq(AllSteps)
      BY <3>1, ConcatProperties
    <3>3. s = <<a>> \o last
      BY <3>2, <2>3, <2>5, ConcatEmptySeq
    <3>4. Plan(s, {a})
      BY <3>1, <3>3, <1>2, LedPlan
    <3> QED
      BY <3>4, <1>7 DEF Plan
  <2> QED
    BY <2>2, <2>4, <2>5 DEF s, kin
<1> QED
  BY <1>5, <1>6, <1>7

-----------------------------------------------------------------------------
(* The requests of the staff and of management.                             *)

LEMMA Starting ==
  ASSUME AttendanceInv, NEW c \in Idling, NEW j, Begin(c, j),
         j = Idle \/ (Formed(j, request) /\ j.op \in Starts),
         UNCHANGED <<request, credit, standing>>, Calendar',
         log' = log \/ Relogged(log, log', DOMAIN request, 0)
  PROVE  Plain(c)
<1> USE DEF AttendanceInv, ShapeInv
<1>1. c \in Calls /\ Goes(c, j)
  BY DEF Idling, Begin, Goes
<1>2. j.op \notin {"findLog", "fullDay", "useCredit", "rollSkip", "rollAbsent"} \cup RollOps
  BY IdleOp DEF Starts, RollOps
<1>3. Grown(request, request')
  BY SameRequests
<1>4. Relogged(log, log', DOMAIN request', 0)
  BY SameLogs
<1>5. Recredited /\ Excusing
  BY DEF Rows, Recredited, Excusing
<1>6. Turn(c)
  BY DEF Turn, Begin, AtRest, Idling, Running
<1> QED
  BY <1>1, <1>2, <1>3, <1>4, <1>5, <1>6 DEF Plain

LEMMA CalendarKept ==
  ASSUME Calendar, UNCHANGED <<today, hour, weeklyOff, holidays, rolled>>
  PROVE  Calendar'
  BY DEF Calendar

LEMMA RowsAsked ==
  ASSUME AttendanceInv, NEW c \in Idling, NEW w \in Workers, NEW rows \in Seq(RequestRow({0})), Ask(c, w, rows)
  PROVE  Plain(c)
<1> DEFINE j == [Job("insert", w, 0, <<>>) EXCEPT !.rows = rows]
<1>1. /\ Fields \subseteq DOMAIN j /\ j.op = "insert" /\ j.who = {w} /\ j.rows = rows /\ j.then = <<>>
      /\ j.op \in Starts
  BY DEF Job, Fields, Starts
<1>2. Begin(c, j) /\ UNCHANGED attendance
  BY DEF Ask, ReadOnly
<1> HIDE DEF j
<1>3. Formed(j, request)
  BY <1>1, ShortPlans DEF Formed, Steps, About, Writes, RollOps, Starts
<1> QED
  BY <1>1, <1>2, <1>3, Starting, CalendarKept DEF attendance, AttendanceInv, ShapeInv

LEMMA OneRow ==
  ASSUME NEW w \in Workers, NEW type \in TEAM_REQUEST_TYPES \cup OwnTypes, NEW d \in Days,
         NEW status \in {"PENDING", "APPROVED"}
  PROVE  /\ Row(w, type, d, status) \in RequestRow({0})
         /\ <<Row(w, type, d, status)>> \in Seq(RequestRow({0}))
<1>1. Row(w, type, d, status) \in RequestRow({0})
  BY DEF Row, RequestRow
<1> QED
  BY <1>1

LEMMA RequestTypes ==
  {DUTY_DAY, SWAP_OFF, COMP_OFF, CLAIM, WFH, "LEAVE", "FIELD_WORK", "LATE_CHECKIN", "EARLY_CHECKOUT"}
    \subseteq TEAM_REQUEST_TYPES \cup OwnTypes
  BY DEF TEAM_REQUEST_TYPES, OwnTypes

LEMMA DaysAreNat == Days \subseteq Nat /\ IsFiniteSet(Days) /\ (\A d \in Days : 1..d \subseteq Days)
<1>1. LastDay \in Nat
  BY AttendanceAssumption
<1> QED
  BY <1>1, FS_Interval DEF Days

\* Handlers that start at once with a job that decides nothing.
LEMMA Beginning ==
  ASSUME AttendanceInv, NEW c \in Idling, NEW w \in Workers, NEW j, Begin(c, j), ReadOnly,
         Fields \subseteq DOMAIN j, j.op \in {"stampIn", "stampOut", "review", "kioskIn", "kioskOut"},
         j.who = {w}, j.day \in Days, j.then \in Seq(Small),
         j.op = "stampIn" => j.to \in {"APP_SELFIE", "REMOTE"} /\ j.proof \in {"NONE", "PENDING", "OK"},
         j.op = "review" => j.to \in {"ACCEPTED", "REJECTED"}
  PROVE  Plain(c)
<1>1. Formed(j, request) /\ j.op \in Starts
  BY DEF Formed, Steps, About, Writes, RollOps, Starts
<1> QED
  BY <1>1, Starting, CalendarKept DEF ReadOnly, attendance, AttendanceInv, ShapeInv

LEMMA StaffRequests ==
  ASSUME AttendanceInv, NEW c \in Idling, NEW w \in Workers, Requests(c, w)
  PROVE  Plain(c)
<1> USE DEF AttendanceInv, ShapeInv
<1> today \in Days
  BY DEF Calendar
<1>1. ASSUME NEW d \in Days, NEW type \in TEAM_REQUEST_TYPES \cup OwnTypes,
             NEW status \in {"PENDING", "APPROVED"}, Ask(c, w, <<Row(w, type, d, status)>>)
      PROVE  Plain(c)
  BY <1>1, OneRow, RowsAsked
<1>2. ASSUME NEW d \in Days,
             \/ dutyRequest(c, w, d) \/ compOffRequest(c, w, d) \/ claimRequest(c, w, d)
             \/ lateProposal(c, w, d) \/ fieldWorkProposal(c, w, d)
             \/ earlyLogoutProposal(c, w, d) \/ wfhProposal(c, w, d)
      PROVE  Plain(c)
  <2>1. CASE earlyLogoutProposal(c, w, d)
    BY <2>1, <1>1, RequestTypes DEF earlyLogoutProposal
  <2>2. CASE \/ dutyRequest(c, w, d) \/ compOffRequest(c, w, d) \/ claimRequest(c, w, d)
             \/ lateProposal(c, w, d) \/ fieldWorkProposal(c, w, d) \/ wfhProposal(c, w, d)
    BY <2>2, <1>1, RequestTypes
       DEF dutyRequest, compOffRequest, claimRequest, lateProposal, fieldWorkProposal, wfhProposal
  <2> QED
    BY <1>2, <2>1, <2>2
<1>3. ASSUME NEW d \in Days, NEW e \in Days, swapRequest(c, w, d, e)
      PROVE  Plain(c)
  <2>1. Row(w, DUTY_DAY, d, "PENDING") \in RequestRow({0}) /\ Row(w, SWAP_OFF, e, "PENDING") \in RequestRow({0})
    BY OneRow, RequestTypes
  <2>2. <<Row(w, DUTY_DAY, d, "PENDING"), Row(w, SWAP_OFF, e, "PENDING")>> \in Seq(RequestRow({0}))
    BY <2>1
  <2> QED
    BY <1>3, <2>2, RowsAsked DEF swapRequest
<1>4. ASSUME NEW first \in Days, NEW last \in Days, leaveProposal(c, w, first, last)
      PROVE  Plain(c)
  <2> DEFINE days == {d \in first..last : ~FreeDay(w, d)}
  <2>1. days \subseteq Days
    BY DaysAreNat, AttendanceAssumption DEF Days
  <2>2. Cardinality(days) \in Nat
    BY <2>1, DaysAreNat, FS_Subset, FS_CardinalityType
  <2>3. PICK inOrder \in [1..Cardinality(days) -> days] :
          Ask(c, w, [i \in DOMAIN inOrder |-> Row(w, "LEAVE", inOrder[i], "PENDING")])
    BY <1>4 DEF leaveProposal
  <2>4. \A i \in 1..Cardinality(days) : Row(w, "LEAVE", inOrder[i], "PENDING") \in RequestRow({0})
    BY <2>1, OneRow, RequestTypes
  <2> HIDE DEF days
  <2>5. [i \in DOMAIN inOrder |-> Row(w, "LEAVE", inOrder[i], "PENDING")]
          \in [1..Cardinality(days) -> RequestRow({0})]
    BY <2>4
  <2>6. [i \in DOMAIN inOrder |-> Row(w, "LEAVE", inOrder[i], "PENDING")] \in Seq(RequestRow({0}))
    BY <2>2, <2>5
  <2> QED
    BY <2>3, <2>6, RowsAsked
<1>5. ASSUME selfieCheckIn(c, w)
      PROVE  Plain(c)
  <2>1. PICK proof \in {"PENDING", "OK"} :
          Begin(c, [StampIn(w, "APP_SELFIE", IF dayInfo(w, today).duty THEN <<"earn">> ELSE <<>>)
                      EXCEPT !.proof = proof])
    BY <1>5 DEF selfieCheckIn
  <2> DEFINE plan == IF dayInfo(w, today).duty THEN <<"earn">> ELSE <<>>
             j == [StampIn(w, "APP_SELFIE", plan) EXCEPT !.proof = proof]
  <2>2. plan \in Seq(Small)
    BY ShortPlans DEF Small
  <2> HIDE DEF plan
  <2>3. /\ Fields \subseteq DOMAIN j /\ j.op = "stampIn" /\ j.who = {w} /\ j.day = today /\ j.then = plan
        /\ j.to = "APP_SELFIE" /\ j.proof = proof
    BY DEF StampIn, Job, Fields
  <2>4. Begin(c, j) /\ ReadOnly
    BY <1>5, <2>1 DEF selfieCheckIn, plan
  <2> HIDE DEF j
  <2> QED
    BY <2>2, <2>3, <2>4, Beginning
<1>6. ASSUME wfhCheckIn(c, w)
      PROVE  Plain(c)
  <2> DEFINE j == StampIn(w, "REMOTE", <<>>)
  <2>1. /\ Fields \subseteq DOMAIN j /\ j.op = "stampIn" /\ j.who = {w} /\ j.day = today /\ j.then = <<>>
        /\ j.to = "REMOTE" /\ j.proof = "NONE"
    BY DEF StampIn, Job, Fields
  <2>2. Begin(c, j) /\ ReadOnly
    BY <1>6 DEF wfhCheckIn
  <2> HIDE DEF j
  <2> QED
    BY <2>1, <2>2, ShortPlans, Beginning
<1>7. ASSUME wfhCheckOut(c, w)
      PROVE  Plain(c)
  <2>1. PICK i \in LogsOn(w, today) : Begin(c, [Job("stampOut", w, today, <<>>) EXCEPT !.at = {i}])
    BY <1>7 DEF wfhCheckOut
  <2> DEFINE j == [Job("stampOut", w, today, <<>>) EXCEPT !.at = {i}]
  <2>2. Fields \subseteq DOMAIN j /\ j.op = "stampOut" /\ j.who = {w} /\ j.day = today /\ j.then = <<>>
    BY DEF Job, Fields
  <2>3. Begin(c, j) /\ ReadOnly
    BY <1>7, <2>1 DEF wfhCheckOut
  <2> HIDE DEF j
  <2> QED
    BY <2>2, <2>3, ShortPlans, Beginning
<1>8. ASSUME scan(c, w)
      PROVE  Plain(c)
  <2> DEFINE plan == IF dayInfo(w, today).offDay THEN <<"openDuty">>
                     ELSE IF dayInfo(w, today).duty THEN <<"earn">> ELSE <<>>
             j == [Job("kioskIn", w, today, plan) EXCEPT !.from = IF LateNow THEN 1 ELSE 0]
  <2>1. Begin(c, j) /\ ReadOnly
    BY <1>8 DEF scan
  <2>2. plan \in Seq(Small)
    BY ShortPlans DEF Small
  <2> HIDE DEF plan
  <2>3. Fields \subseteq DOMAIN j /\ j.op = "kioskIn" /\ j.who = {w} /\ j.day = today /\ j.then = plan
    BY DEF Job, Fields
  <2> HIDE DEF j
  <2> QED
    BY <2>1, <2>2, <2>3, Beginning
<1>9. ASSUME checkout(c, w)
      PROVE  Plain(c)
  <2> DEFINE j == Job("kioskOut", w, today, <<>>)
  <2>1. Fields \subseteq DOMAIN j /\ j.op = "kioskOut" /\ j.who = {w} /\ j.day = today /\ j.then = <<>>
    BY DEF Job, Fields
  <2>2. Begin(c, j) /\ ReadOnly
    BY <1>9 DEF checkout
  <2> HIDE DEF j
  <2> QED
    BY <2>1, <2>2, ShortPlans, Beginning
<1> QED
  BY <1>2, <1>3, <1>4, <1>5, <1>6, <1>7, <1>8, <1>9 DEF Requests

LEMMA Claiming ==
  ASSUME AttendanceInv, NEW c \in Idling, NEW i \in DOMAIN request, NEW j, NEW first, Begin(c, j), ReadOnly,
         Fields \subseteq DOMAIN j, j.op = "claim", j.who = {request[i].who}, j.day = request[i].day,
         j.rows = <<i>>, j.to \in {"APPROVED", "REJECTED"}, Plan(j.then, first),
         "useCredit" \in first \/ "findLog" \in first => j.at = {i} /\ j.to = "APPROVED",
         "useCredit" \in first => request[i].type = COMP_OFF /\ j.from \in Days
  PROVE  Plain(c)
<1> USE DEF AttendanceInv, ShapeInv
<1>1. Head(j.rows) = i /\ request[i].who \in Workers /\ request[i].day \in Days
  BY RequestRows DEF Rows
<1>2. Steps(j)
  BY DEF Steps, Plan, AllSteps, Starts, RollOps
<1>3. About(j)
  BY <1>1 DEF About, RollOps
<1>4. Writes(j, request)
  BY <1>1 DEF Writes, Plan, Following
<1>5. Formed(j, request) /\ j.op \in Starts
  BY <1>2, <1>3, <1>4 DEF Formed, Starts
<1> QED
  BY <1>5, Starting, CalendarKept DEF ReadOnly, attendance

LEMMA Decisions ==
  ASSUME AttendanceInv, NEW c \in Idling, NEW h, NEW i \in DOMAIN request, NEW approve \in BOOLEAN,
         decide(c, h, i, approve) \/ decideProposal(c, i, approve)
  PROVE  Plain(c)
<1> DEFINE row == request[i]
<1>1. CASE decide(c, h, i, approve)
  <2>1. PICK d \in IF approve /\ row.type = COMP_OFF THEN Usable(row.who) ELSE {0} :
          Begin(c, [Job("claim", row.who, row.day, IF approve THEN Consequences(row) ELSE <<>>) EXCEPT
                     !.at = IF row.type \in {DUTY_DAY, SWAP_OFF}
                            THEN {j \in DOMAIN request : /\ request[j].who = row.who
                                                         /\ request[j].batch = row.batch
                                                         /\ request[j].type \in {DUTY_DAY, SWAP_OFF}}
                            ELSE {i},
                     !.rows = <<i>>, !.to = Verdict(approve), !.from = d])
    BY <1>1 DEF decide
  <2> DEFINE plan == IF approve THEN Consequences(row) ELSE <<>>
             at   == IF row.type \in {DUTY_DAY, SWAP_OFF}
                     THEN {j \in DOMAIN request : /\ request[j].who = row.who
                                                  /\ request[j].batch = row.batch
                                                  /\ request[j].type \in {DUTY_DAY, SWAP_OFF}}
                     ELSE {i}
             k == [Job("claim", row.who, row.day, plan) EXCEPT
                     !.at = at, !.rows = <<i>>, !.to = Verdict(approve), !.from = d]
             first == IF approve THEN (IF row.type = COMP_OFF THEN {"useCredit"} ELSE {})
                                        \cup (IF row.type = CLAIM THEN {"findLog"} ELSE {})
                      ELSE {}
  <2>2. Plan(plan, first)
    BY ConsequencesPlan DEF Plan
  <2>3. "useCredit" \in first \/ "findLog" \in first => at = {i} /\ Verdict(approve) = "APPROVED"
    BY DEF Verdict, COMP_OFF, CLAIM, DUTY_DAY, SWAP_OFF
  <2>4. "useCredit" \in first => row.type = COMP_OFF /\ d \in Days
    BY DEF Usable
  <2>5. Begin(c, k) /\ ReadOnly
    BY <1>1, <2>1 DEF decide
  <2>6. Verdict(approve) \in {"APPROVED", "REJECTED"}
    BY DEF Verdict
  <2> HIDE DEF plan, at, first
  <2>7. /\ Fields \subseteq DOMAIN k /\ k.op = "claim" /\ k.who = {row.who} /\ k.day = row.day
        /\ k.rows = <<i>> /\ k.to = Verdict(approve) /\ k.then = plan /\ k.at = at /\ k.from = d
    BY DEF Job, Fields
  <2> HIDE DEF k
  <2> QED
    BY <2>2, <2>3, <2>4, <2>5, <2>6, <2>7, Claiming
<1>2. CASE decideProposal(c, i, approve)
  <2> DEFINE plan == (IF row.type = "LEAVE" THEN <<"siblings">> ELSE <<>>) \o General(row, approve)
             k == [Job("claim", row.who, row.day, plan) EXCEPT
                     !.at = {i}, !.rows = <<i>>, !.to = Verdict(approve)]
             first == {"siblings", "remark"} \cup (IF approve THEN {"findLog"} ELSE {})
  <2>1. Begin(c, k) /\ ReadOnly
    BY <1>2 DEF decideProposal
  <2>2. Plan(plan, first)
    BY GeneralPlan
  <2>3. "useCredit" \notin first /\ ("findLog" \in first => Verdict(approve) = "APPROVED")
    BY DEF Verdict
  <2>4. Verdict(approve) \in {"APPROVED", "REJECTED"}
    BY DEF Verdict
  <2> HIDE DEF plan, first
  <2>5. /\ Fields \subseteq DOMAIN k /\ k.op = "claim" /\ k.who = {row.who} /\ k.day = row.day
        /\ k.rows = <<i>> /\ k.to = Verdict(approve) /\ k.then = plan /\ k.at = {i}
    BY DEF Job, Fields
  <2> HIDE DEF k
  <2> QED
    BY <2>1, <2>2, <2>3, <2>4, <2>5, Claiming
<1> QED
  BY <1>1, <1>2

\* Served at once: a correction of the log.
LEMMA LogServed ==
  ASSUME AttendanceInv, NEW c \in Idling, Serve(c), UNCHANGED <<Clock, request, credit, standing>>,
         Relogged(log, log', DOMAIN request, 0)
  PROVE  Plain(c)
  BY Starting, CalendarKept DEF Serve, Clock, AttendanceInv, ShapeInv

LEMMA LogTyped ==
  ASSUME AttendanceInv, NEW i \in DOMAIN log
  PROVE  /\ log \in Seq(LogRow(DOMAIN request)) /\ log[i] \in LogRow(DOMAIN request)
         /\ log[i].who \in Workers /\ log[i].day \in Days
  BY LogRows DEF AttendanceInv, ShapeInv, Rows, ScansInv

\* One row is corrected.
LEMMA OneFixed ==
  ASSUME AttendanceInv, NEW i, NEW new, i \in DOMAIN log => Fixed(log[i], new, DOMAIN request)
  PROVE  Relogged(log, [log EXCEPT ![i] = new], DOMAIN request, 0)
<1> DEFINE all == [log EXCEPT ![i] = new]
<1>1. DOMAIN all = DOMAIN log /\ all = [k \in DOMAIN log |-> all[k]]
  BY DEF AttendanceInv, ShapeInv, Rows
<1>2. \A k \in DOMAIN log : Fixed(log[k], all[k], DOMAIN request)
  BY LogTyped, Corrections
<1>3. log \in Seq(LogRow(DOMAIN request))
  BY DEF AttendanceInv, ShapeInv, Rows
<1> HIDE DEF all
<1>4. Relogged(log, all, DOMAIN request, 0)
  BY <1>1, <1>2, <1>3, FixedLogs
<1> QED
  BY <1>4 DEF all

\* A row is added to the log; a scan only to a day without one.
LEMMA OneAdded ==
  ASSUME AttendanceInv, NEW row \in LogRow(DOMAIN request),
         row.source = "QR_SCAN" => LogsOn(row.who, row.day) = {}
  PROVE  Relogged(log, Append(log, row), DOMAIN request, row.by)
<1>1. Relogged(log, log, DOMAIN request, 0) /\ log \in Seq(LogRow(DOMAIN request))
  BY SameLogs DEF AttendanceInv, ShapeInv, Rows
<1>2. LogsOn(row.who, row.day) = {} =>
        \A j \in DOMAIN log : log[j].who = row.who /\ log[j].day = row.day => log[j].source # "QR_SCAN"
  BY DEF LogsOn
<1> QED
  BY <1>1, <1>2, AddedLog

LEMMA NewLog ==
  ASSUME NEW w \in Workers, NEW d \in Days, NEW late \in BOOLEAN,
         NEW source \in {"QR_SCAN", "APP_SELFIE", "REMOTE", "PROPOSAL", "MANUAL"}, NEW ids
  PROVE  /\ Log(w, d, source, late) \in LogRow(ids)
         /\ Log(w, d, source, late).out = "OPEN" /\ Log(w, d, source, late).by = 0
         /\ Log(w, d, source, late).source = source
         /\ Log(w, d, source, late).who = w /\ Log(w, d, source, late).day = d
  BY DEF Log, LogRow

LEMMA Edits ==
  ASSUME AttendanceInv, NEW i \in DOMAIN log, log[i].source # "DELETED",
         NEW row \in {[log[i] EXCEPT !.absent = ~@], [log[i] EXCEPT !.out = "OPEN"], [log[i] EXCEPT !.out = "EDITED"]}
                        \cup {[log[i] EXCEPT !.day = d] : d \in 1..today}
  PROVE  Fixed(log[i], Edited(row), DOMAIN request)
<1> DEFINE old == log[i]  ids == DOMAIN request
<1>1. old \in LogRow(ids)
  BY LogTyped
<1>2. 1..today \subseteq Days
  BY DaysAreNat DEF AttendanceInv, ShapeInv, Calendar
<1>3. row \in LogRow(ids) /\ row.who = old.who /\ row.by = old.by /\ row.source = old.source
  <2> HIDE DEF old, ids
  <2>1. CASE row = [old EXCEPT !.absent = ~@]
    BY <1>1, <2>1 DEF LogRow
  <2>2. CASE row = [old EXCEPT !.out = "OPEN"] \/ row = [old EXCEPT !.out = "EDITED"]
    BY <1>1, <2>2 DEF LogRow
  <2>3. ASSUME NEW d \in 1..today, row = [old EXCEPT !.day = d]
        PROVE  row \in LogRow(ids) /\ row.who = old.who /\ row.by = old.by
               /\ row.source = old.source
    <3>1. d \in Days
      BY <1>2
    <3> QED
      BY <1>1, <2>3, <3>1 DEF LogRow
  <2> QED
    BY <2>1, <2>2, <2>3 DEF old
<1> HIDE DEF old, ids
<1>4. /\ Edited(row) \in LogRow(ids) /\ Edited(row).who = row.who /\ Edited(row).by = row.by
      /\ Edited(row).out = row.out /\ Edited(row).source # "QR_SCAN"
  BY <1>3 DEF Edited, LogRow
<1> QED
  BY <1>3, <1>4 DEF Fixed, old, ids

LEMMA ManagementRequests ==
  ASSUME AttendanceInv, NEW c \in Idling, NEW h \in HR, Management(c, h)
  PROVE  Plain(c)
<1> USE DEF AttendanceInv, ShapeInv
<1>1. ASSUME NEW i \in DOMAIN request,
             \/ \E approve \in BOOLEAN : decide(c, h, i, approve)
             \/ approveProposal(c, i) \/ rejectProposal(c, i)
      PROVE  Plain(c)
  BY <1>1, Decisions DEF approveProposal, rejectProposal
<1>2. ASSUME NEW w \in Workers, NEW d \in Days, assignDuty(c, h, w, d) \/ wfhGrant(c, w, d)
      PROVE  Plain(c)
  BY <1>2, OneRow, RequestTypes, RowsAsked DEF assignDuty, wfhGrant
<1>3. ASSUME NEW w \in Workers, NEW d \in Days, setWeeklyOff(c, h, w, d)
      PROVE  Plain(c)
  <2>1. Calendar'
    BY <1>3 DEF setWeeklyOff, Calendar
  <2> QED
    BY <1>3, <2>1, Starting DEF setWeeklyOff, Serve, desk
<1>4. ASSUME NEW i \in DOMAIN log, NEW accept \in BOOLEAN, reviewProof(c, h, i, accept)
      PROVE  Plain(c)
  <2> DEFINE plan == IF accept THEN <<>> ELSE <<"markAbsent", "loseCredit">>
             to == IF accept THEN "ACCEPTED" ELSE "REJECTED"
             j == [Job("review", log[i].who, log[i].day, plan) EXCEPT !.at = {i}, !.to = to]
  <2>1. Begin(c, j) /\ ReadOnly
    BY <1>4 DEF reviewProof
  <2>2. plan \in Seq(Small) /\ to \in {"ACCEPTED", "REJECTED"}
    BY ShortPlans
  <2> HIDE DEF plan, to
  <2>3. /\ Fields \subseteq DOMAIN j /\ j.op = "review" /\ j.who = {log[i].who} /\ j.day = log[i].day
        /\ j.then = plan /\ j.to = to
    BY DEF Job, Fields
  <2> HIDE DEF j
  <2> QED
    BY <2>1, <2>2, <2>3, LogTyped, Beginning
<1>5. ASSUME NEW i \in DOMAIN log, adminEdit(c, i)
      PROVE  Plain(c)
  <2>1. PICK row \in {[log[i] EXCEPT !.absent = ~@], [log[i] EXCEPT !.out = "OPEN"], [log[i] EXCEPT !.out = "EDITED"]}
                       \cup {[log[i] EXCEPT !.day = d] : d \in 1..today} :
          log' = [log EXCEPT ![i] = Edited(row)]
    BY <1>5 DEF adminEdit
  <2>2. Relogged(log, log', DOMAIN request, 0)
    BY <1>5, <2>1, Edits, OneFixed DEF adminEdit
  <2> QED
    BY <1>5, <2>2, LogServed DEF adminEdit
<1>6. ASSUME NEW i \in DOMAIN log, adminDelete(c, i)
      PROVE  Plain(c)
  <2>1. log' = [log EXCEPT ![i] = [log[i] EXCEPT !.source = "DELETED"]]
    BY <1>6 DEF adminDelete
  <2>2. Relogged(log, log', DOMAIN request, 0)
    BY <2>1, LogTyped, Corrections, OneFixed
  <2> QED
    BY <1>6, <2>2, LogServed DEF adminDelete
<1>7. ASSUME NEW w \in Workers, NEW d \in 1..today, NEW absent \in BOOLEAN, NEW out \in {"OPEN", "EDITED"},
             adminCreate(c, w, d, absent, out)
      PROVE  Plain(c)
  <2> DEFINE first == Log(w, d, "MANUAL", FALSE)
             row == [first EXCEPT !.absent = absent, !.out = out]
  <2>1. d \in Days
    BY DaysAreNat DEF Calendar
  <2>2. first \in LogRow(DOMAIN request) /\ first.by = 0 /\ first.source = "MANUAL"
    <3>1. \A ids : /\ Log(w, d, "MANUAL", FALSE) \in LogRow(ids)
                   /\ Log(w, d, "MANUAL", FALSE).by = 0 /\ Log(w, d, "MANUAL", FALSE).source = "MANUAL"
      BY <2>1 DEF Log, LogRow
    <3> QED
      BY <3>1
  <2> HIDE DEF first
  <2>3. row \in LogRow(DOMAIN request) /\ row.by = 0 /\ row.source = "MANUAL"
    BY <2>2 DEF LogRow
  <2>4. log' = Append(log, row)
    BY <1>7 DEF adminCreate, first
  <2> HIDE DEF row
  <2>5. Relogged(log, Append(log, row), DOMAIN request, row.by)
    BY <2>3, OneAdded
  <2> QED
    BY <1>7, <2>3, <2>4, <2>5, LogServed DEF adminCreate
<1>8. ASSUME NEW d \in Days, addHoliday(c, d)
      PROVE  Plain(c)
  <2> DEFINE j == [Job("recheck", "", d, <<>>) EXCEPT !.who = Workers]
  <2>1. Fields \subseteq DOMAIN j /\ j.op = "recheck" /\ j.day = d /\ j.then = <<>>
    BY DEF Job, Fields
  <2>2. Begin(c, IF d <= today THEN j ELSE Idle) /\ UNCHANGED desk /\ Calendar'
    BY <1>8 DEF addHoliday, Calendar
  <2> HIDE DEF j
  <2>3. Formed(j, request) /\ j.op \in Starts
    BY <2>1, ShortPlans DEF Formed, Steps, About, Writes, RollOps, Starts
  <2>4. CASE d <= today
    BY <2>2, <2>3, <2>4, Starting DEF desk
  <2>5. CASE ~(d <= today)
    BY <2>2, <2>5, Starting DEF desk
  <2> QED
    BY <2>4, <2>5
<1>9. ASSUME NEW d \in Days, deleteHoliday(c, d)
      PROVE  Plain(c)
  <2>1. Calendar'
    BY <1>9 DEF deleteHoliday, Calendar
  <2> QED
    BY <1>9, <2>1, Starting DEF deleteHoliday, Serve, desk
<1> QED
  BY <1>1, <1>2, <1>3, <1>4, <1>5, <1>6, <1>7, <1>8, <1>9 DEF Management

-----------------------------------------------------------------------------
(* The handlers' writes.                                                    *)

LEMMA DoneGoes ==
  ASSUME AttendanceInv, NEW c \in Calls, Running(c), Done(c), call[c].op \notin RollOps \cup {"claim"},
         Grown(request, request')
  PROVE  \E k : Goes(c, k) /\ k.op \in Small \cup {"IDLE"}
<1> DEFINE job == call[c]
           k == [job EXCEPT !.op = Head(job.then), !.then = Tail(job.then)]
<1>1. Formed(job, request)
  BY DEF AttendanceInv, ShapeInv, Jobs
<1>2. CASE job.then = <<>>
  <2>1. call' = [call EXCEPT ![c] = Idle]
    BY <1>2 DEF Done, Continue
  <2> QED
    BY <2>1, IdleOp DEF Goes
<1>3. CASE job.then # <<>>
  <2>1. call' = [call EXCEPT ![c] = k]
    BY <1>3 DEF Done, Continue
  <2>2. /\ job.then \in Seq(Small) /\ Fields \subseteq DOMAIN job /\ job.op # "insert" /\ About(job)
        /\ Steps(job)
    BY <1>1, <1>3 DEF Formed, Steps
  <2>3. Head(job.then) \in Small /\ Tail(job.then) \in Seq(Small)
    BY <2>2, <1>3, HeadTailProperties
  <2>4. /\ Fields \subseteq DOMAIN k /\ k.op = Head(job.then) /\ k.then = Tail(job.then)
        /\ k.who = job.who /\ k.day = job.day
    BY <2>2 DEF Fields
  <2> HIDE DEF k, job
  <2>5. Steps(k)
    BY <2>3, <2>4 DEF Steps, Small, Starts, Following, RollOps, Midway
  <2>6. About(k)
    <3>1. job.day \in Days /\ \E w \in Workers : job.who = {w}
      BY <2>2, <1>3 DEF About, job
    <3> QED
      BY <3>1, <2>3, <2>4 DEF About, Small, RollOps
  <2>7. Writes(k, request')
    BY <2>3, <2>4 DEF Writes, Small
  <2> QED
    BY <2>1, <2>3, <2>4, <2>5, <2>6, <2>7 DEF Goes, Formed, job
<1> QED
  BY <1>2, <1>3

LEMMA Committed ==
  ASSUME AttendanceInv, NEW c \in Calls, Running(c), Done(c), call[c].op \notin RollOps \cup {"claim"},
         Grown(request, request'), Relogged(log, log', DOMAIN request', 0), Recredited, Excusing,
         UNCHANGED Clock
  PROVE  Plain(c)
<1>1. PICK k : Goes(c, k) /\ k.op \in Small \cup {"IDLE"}
  BY DoneGoes
<1>2. k.op \notin {"findLog", "fullDay", "useCredit", "rollSkip", "rollAbsent"} \cup RollOps
  BY <1>1 DEF Small, RollOps
<1>3. Turn(c) /\ Calendar'
  BY CalendarKept DEF Done, Continue, Turn, Clock, AttendanceInv, ShapeInv
<1> QED
  BY <1>1, <1>2, <1>3 DEF Plain

LEMMA Ended ==
  ASSUME AttendanceInv, NEW c \in Calls, Running(c), Finish(c) \/ Abandon(c),
         Grown(request, request'), Relogged(log, log', DOMAIN request', 0), Recredited, Excusing,
         UNCHANGED Clock
  PROVE  Plain(c)
<1>1. Goes(c, Idle)
  BY DEF Goes, Finish, Continue, Abandon
<1>2. Idle.op \notin {"findLog", "fullDay", "useCredit", "rollSkip", "rollAbsent"} \cup RollOps
  BY IdleOp DEF RollOps
<1>3. Turn(c) /\ Calendar'
  BY CalendarKept DEF Finish, Continue, Abandon, Turn, Clock, AttendanceInv, ShapeInv
<1> QED
  BY <1>1, <1>2, <1>3 DEF Plain

LEMMA SameCredits ==
  ASSUME Rows, UNCHANGED credit, DOMAIN request \subseteq DOMAIN request'
  PROVE  Recredited
<1>1. CreditRow(DOMAIN request) \subseteq CreditRow(DOMAIN request')
  BY DEF CreditRow
<1> QED
  BY <1>1 DEF Rows, Recredited

LEMMA SameStanding == ASSUME Rows, UNCHANGED standing PROVE Excusing
  BY DEF Rows, Excusing

\* Only requests are written ...
LEMMA RequestsWritten ==
  ASSUME AttendanceInv, Grown(request, request'), UNCHANGED <<log, credit, standing>>
  PROVE  Relogged(log, log', DOMAIN request', 0) /\ Recredited /\ Excusing
<1>1. DOMAIN request \subseteq DOMAIN request'
  BY DEF Grown
<1> QED
  BY <1>1, SameLogs, SameCredits, SameStanding DEF AttendanceInv, ShapeInv

\* ... or only the log.
LEMMA LogWritten ==
  ASSUME AttendanceInv, UNCHANGED <<request, credit, standing>>
  PROVE  Grown(request, request') /\ Recredited /\ Excusing
  BY SameRequests, SameCredits, SameStanding DEF AttendanceInv, ShapeInv

LEMMA NothingWritten ==
  ASSUME AttendanceInv, UNCHANGED <<request, log, credit, standing>>
  PROVE  Grown(request, request') /\ Relogged(log, log', DOMAIN request', 0) /\ Recredited /\ Excusing
  BY LogWritten, RequestsWritten

\* Whom and which day a handler of a single employee is about.
LEMMA WhoAndDay ==
  ASSUME AttendanceInv, NEW c \in Calls, Running(c),
         call[c].op \notin RollOps \cup {"insert", "recheck"}
  PROVE  /\ Formed(call[c], request) /\ call[c].who = {Who(call[c])}
         /\ Who(call[c]) \in Workers /\ call[c].day \in Days
<1>1. Formed(call[c], request)
  BY DEF AttendanceInv, ShapeInv, Jobs
<1>2. PICK w \in Workers : call[c].who = {w}
  BY <1>1 DEF Formed, About
<1>3. Who(call[c]) = w
  BY <1>2 DEF Who
<1> QED
  BY <1>1, <1>2, <1>3 DEF Formed, About

LEMMA RequestCommits ==
  ASSUME AttendanceInv, NEW c \in Calls, Running(c), insert(c) \/ siblings(c) \/ openDuty(c)
  PROVE  Plain(c)
<1> USE DEF AttendanceInv, ShapeInv
<1>1. CASE insert(c)
  <2>1. call[c].op = "insert" /\ request' = request \o Stamped(call[c].rows) /\ Done(c)
        /\ UNCHANGED <<Clock, log, credit, standing>>
    BY <1>1 DEF insert
  <2>2. call[c].rows \in Seq(RequestRow({0}))
    BY <2>1 DEF Jobs, Formed, Writes
  <2>3. Grown(request, request')
    BY <2>1, <2>2, MoreRequests
  <2> QED
    BY <2>1, <2>3, RequestsWritten, Committed DEF RollOps
<1>2. CASE siblings(c)
  <2> DEFINE job == call[c]
             i == Head(job.rows)
             them == {j \in DOMAIN request : /\ request[j].who = request[i].who
                                             /\ request[j].batch = request[i].batch
                                             /\ request[j].type = "LEAVE" /\ request[j].status = "PENDING"}
  <2>1. job.op = "siblings" /\ Done(c) /\ UNCHANGED <<Clock, log, credit, standing>>
    BY <1>2 DEF siblings
  <2>2. job.to \in {"APPROVED", "REJECTED"}
    BY <2>1 DEF Jobs, Formed, Writes
  <2>3. request' = [j \in DOMAIN request |->
                      IF j \in them THEN [request[j] EXCEPT !.status = job.to] ELSE request[j]]
    BY <1>2 DEF siblings
  <2>4. \A j \in DOMAIN request : j \in them => request[j].status = "PENDING"
    OBVIOUS
  <2> HIDE DEF them
  <2>5. Grown(request, request')
    BY <2>2, <2>3, <2>4, DecidedRequests
  <2> QED
    BY <2>1, <2>5, RequestsWritten, Committed DEF RollOps
<1>3. CASE openDuty(c)
  <2> DEFINE w == Who(call[c])
             d == call[c].day
  <2>1. call[c].op = "openDuty" /\ Done(c) /\ UNCHANGED <<Clock, log, credit, standing>>
    BY <1>3 DEF openDuty
  <2>2. w \in Workers /\ d \in Days
    BY <2>1, WhoAndDay DEF RollOps
  <2>3. \/ request' = request
        \/ request' = request \o Stamped(<<Row(w, DUTY_DAY, d, "PENDING")>>)
    BY <1>3 DEF openDuty
  <2>4. Grown(request, request')
    BY <2>2, <2>3, OneRow, RequestTypes, MoreRequests, SameRequests
  <2> QED
    BY <2>1, <2>4, RequestsWritten, Committed DEF RollOps
<1> QED
  BY <1>1, <1>2, <1>3

LEMMA DeskCommits ==
  ASSUME AttendanceInv, NEW c \in Calls, Running(c), earn(c) \/ recheck(c) \/ loseCredit(c)
  PROVE  Plain(c)
<1> USE DEF AttendanceInv, ShapeInv
<1>1. CASE earn(c)
  <2> DEFINE w == Who(call[c])
             d == call[c].day
             more == [NoCredit EXCEPT !.state = "AVAILABLE"]
  <2>1. call[c].op = "earn" /\ Done(c) /\ UNCHANGED <<Clock, request, log, standing>>
    BY <1>1 DEF earn
  <2>2. w \in Workers /\ d \in Days
    BY <2>1, WhoAndDay DEF RollOps
  <2>3. credit' = credit \/ (credit[w][d] = NoCredit /\ credit' = [credit EXCEPT ![w][d] = more])
    BY <1>1 DEF earn, creditCompOffIfEarned
  <2>4. /\ more \in CreditRow(DOMAIN request) /\ more.for = 0 /\ more.state # "USED"
        /\ NoCredit.for = 0 /\ NoCredit.state # "USED"
    BY DEF NoCredit, CreditRow
  <2> HIDE DEF w, d, more
  <2>5. CASE credit' = credit
    BY <2>1, <2>5, NothingWritten, Committed DEF RollOps
  <2>6. CASE credit[w][d] = NoCredit /\ credit' = [credit EXCEPT ![w][d] = more]
    <3>1. credit \in [Workers -> [Days -> CreditRow(DOMAIN request)]]
      BY DEF Rows
    <3>2. /\ credit' \in [Workers -> [Days -> CreditRow(DOMAIN request)]]
          /\ \A v \in Workers : \A e \in Days :
               credit'[v][e] = IF v = w /\ e = d THEN more ELSE credit[v][e]
      BY <3>1, <2>2, <2>4, <2>6
    <3>3. Recredited
      BY <3>2, <2>1, <2>4, <2>6 DEF Recredited
    <3> QED
      BY <2>1, <3>3, SameRequests, SameLogs, SameStanding, Committed DEF RollOps
  <2> QED
    BY <2>3, <2>5, <2>6
<1>2. CASE recheck(c)
  <2>1. /\ call[c].op \in {"recheck", "recheckAll"} /\ Done(c)
        /\ UNCHANGED <<Clock, request, log, credit>>
        /\ \E days : recheckAbsences(call[c].who, days)
    BY <1>2 DEF recheck
  <2>2. Excusing
    BY <2>1 DEF Rows, Excusing, recheckAbsences
  <2> QED
    BY <2>1, <2>2, SameRequests, SameLogs, SameCredits, Committed DEF RollOps
<1>3. CASE loseCredit(c)
  <2> DEFINE w == Who(call[c])
             d == call[c].day
  <2>1. call[c].op = "loseCredit" /\ Done(c) /\ UNCHANGED <<Clock, request, log, standing>>
    BY <1>3 DEF loseCredit
  <2>2. w \in Workers /\ d \in Days
    BY <2>1, WhoAndDay DEF RollOps
  <2>3. \/ credit' = credit
        \/ credit[w][d].state = "AVAILABLE" /\ credit' = [credit EXCEPT ![w][d].state = "EXPIRED"]
    BY <1>3 DEF loseCredit
  <2> HIDE DEF w, d
  <2>4. CASE credit' = credit
    BY <2>1, <2>4, NothingWritten, Committed DEF RollOps
  <2>5. CASE credit[w][d].state = "AVAILABLE" /\ credit' = [credit EXCEPT ![w][d].state = "EXPIRED"]
    <3>1. credit \in [Workers -> [Days -> CreditRow(DOMAIN request)]]
      BY DEF Rows
    <3> DEFINE gone == [credit[w][d] EXCEPT !.state = "EXPIRED"]
    <3>2. gone \in CreditRow(DOMAIN request) /\ gone.for = credit[w][d].for /\ gone.state # "USED"
      <4>1. \A row \in CreditRow(DOMAIN request) :
              LET new == [row EXCEPT !.state = "EXPIRED"]
              IN  new \in CreditRow(DOMAIN request) /\ new.for = row.for /\ new.state # "USED"
        BY DEF CreditRow
      <4>2. credit[w][d] \in CreditRow(DOMAIN request)
        BY <3>1, <2>2
      <4> QED
        BY <4>1, <4>2
    <3>3. credit' = [credit EXCEPT ![w][d] = gone]
      BY <2>5
    <3> HIDE DEF gone
    <3>4. /\ credit' \in [Workers -> [Days -> CreditRow(DOMAIN request)]]
          /\ \A v \in Workers : \A e \in Days :
               credit'[v][e] = IF v = w /\ e = d THEN gone ELSE credit[v][e]
      BY <3>1, <3>2, <3>3, <2>2
    <3>5. Recredited
      BY <3>2, <3>4, <2>1, <2>5 DEF Recredited
    <3> QED
      BY <2>1, <3>5, SameRequests, SameLogs, SameStanding, Committed DEF RollOps
  <2> QED
    BY <2>3, <2>4, <2>5
<1> QED
  BY <1>1, <1>2, <1>3

LEMMA LogCommitted ==
  ASSUME AttendanceInv, NEW c \in Calls, Running(c), Done(c), call[c].op \notin RollOps \cup {"claim"},
         UNCHANGED <<Clock, request, credit, standing>>, Relogged(log, log', DOMAIN request, 0)
  PROVE  Plain(c)
  BY LogWritten, Committed

\* Some rows are corrected.
LEMMA SomeFixed ==
  ASSUME AttendanceInv, NEW new, DOMAIN new = DOMAIN log, new = [i \in DOMAIN log |-> new[i]],
         \A i \in DOMAIN log : Fixed(log[i], new[i], DOMAIN request)
  PROVE  Relogged(log, new, DOMAIN request, 0)
<1>1. log \in Seq(LogRow(DOMAIN request))
  BY DEF AttendanceInv, ShapeInv, Rows
<1> QED
  BY <1>1, FixedLogs

LEMMA Closing ==
  ASSUME AttendanceInv, NEW i, NEW out \in {"OPEN", "SAME_DAY", "MIDNIGHT", "EDITED"}
  PROVE  Relogged(log, [log EXCEPT ![i].out = out], DOMAIN request, 0)
<1>1. i \in DOMAIN log => Fixed(log[i], [log[i] EXCEPT !.out = out], DOMAIN request)
  BY LogTyped, Corrections
<1>2. [log EXCEPT ![i].out = out] = [log EXCEPT ![i] = [log[i] EXCEPT !.out = out]]
  OBVIOUS
<1> QED
  BY <1>1, <1>2, OneFixed

LEMMA Unlogged == ASSUME AttendanceInv PROVE Relogged(log, log, DOMAIN request, 0)
  BY SameLogs DEF AttendanceInv, ShapeInv

LEMMA MarkCommits ==
  ASSUME AttendanceInv, NEW c \in Calls, Running(c), correctLog(c) \/ remark(c) \/ review(c)
  PROVE  Plain(c)
<1> DEFINE ids == DOMAIN request
<1>1. CASE correctLog(c)
  <2> DEFINE new == [i \in DOMAIN log |->
                       IF call[c].op = "present" /\ i = Min(call[c].at) THEN [log[i] EXCEPT !.absent = FALSE]
                       ELSE log[i]]
  <2>1. /\ call[c].op \in {"present", "skip"} /\ Done(c) /\ UNCHANGED <<Clock, request, credit, standing>>
        /\ log' = new
    BY <1>1 DEF correctLog
  <2>2. \A i \in DOMAIN log : /\ Fixed(log[i], log[i], ids)
                              /\ Fixed(log[i], [log[i] EXCEPT !.absent = FALSE], ids)
    BY LogTyped, Corrections
  <2>3. \A i \in DOMAIN log : Fixed(log[i], new[i], ids)
    BY <2>2
  <2>4. DOMAIN new = DOMAIN log /\ new = [i \in DOMAIN log |-> new[i]]
    OBVIOUS
  <2> HIDE DEF new
  <2>5. Relogged(log, log', ids, 0)
    BY <2>1, <2>3, <2>4, SomeFixed
  <2> QED
    BY <2>1, <2>5, LogCommitted DEF RollOps
<1>2. CASE remark(c)
  <2> DEFINE seen == LogsOn(Who(call[c]), call[c].day)
             new == [i \in DOMAIN log |->
                       IF seen # {} /\ i = Min(seen) THEN [log[i] EXCEPT !.absent = log[i].late] ELSE log[i]]
  <2>1. /\ call[c].op = "remark" /\ Done(c) /\ UNCHANGED <<Clock, request, credit, standing>>
        /\ log' = new
    BY <1>2 DEF remark
  <2>2. \A i \in DOMAIN log : /\ Fixed(log[i], log[i], ids)
                              /\ Fixed(log[i], [log[i] EXCEPT !.absent = log[i].late], ids)
    <3> SUFFICES ASSUME NEW i \in DOMAIN log
                 PROVE  /\ Fixed(log[i], log[i], ids)
                        /\ Fixed(log[i], [log[i] EXCEPT !.absent = log[i].late], ids)
      OBVIOUS
    <3>1. log[i] \in LogRow(ids)
      BY LogTyped
    <3>2. \A row \in LogRow(ids) : Fixed(row, [row EXCEPT !.absent = row.late], ids)
      BY DEF LogRow, Fixed
    <3> QED
      BY <3>1, <3>2, Corrections
  <2>3. \A i \in DOMAIN log : Fixed(log[i], new[i], ids)
    BY <2>2
  <2>4. DOMAIN new = DOMAIN log /\ new = [i \in DOMAIN log |-> new[i]]
    OBVIOUS
  <2> HIDE DEF new
  <2>5. Relogged(log, log', ids, 0)
    BY <2>1, <2>3, <2>4, SomeFixed
  <2> QED
    BY <2>1, <2>5, LogCommitted DEF RollOps
<1>3. CASE review(c)
  <2> DEFINE i == At(call[c])
             to == call[c].to
  <2>1. call[c].op \in {"review", "markAbsent"} /\ Done(c) /\ UNCHANGED <<Clock, request, credit, standing>>
    BY <1>3 DEF review
  <2>2. \/ call[c].op = "review" /\ log' = [log EXCEPT ![i] = [log[i] EXCEPT !.proof = to]]
        \/ log' = [log EXCEPT ![i] = [log[i] EXCEPT !.absent = TRUE]]
    BY <1>3 DEF review
  <2>3. call[c].op = "review" => to \in {"ACCEPTED", "REJECTED"}
    BY DEF AttendanceInv, ShapeInv, Jobs, Formed, Writes
  <2>4. i \in DOMAIN log => /\ to \in {"ACCEPTED", "REJECTED"} => Fixed(log[i], [log[i] EXCEPT !.proof = to], ids)
                            /\ Fixed(log[i], [log[i] EXCEPT !.absent = TRUE], ids)
    BY LogTyped, Corrections
  <2> HIDE DEF i, to
  <2>5. Relogged(log, log', ids, 0)
    <3>1. CASE call[c].op = "review" /\ log' = [log EXCEPT ![i] = [log[i] EXCEPT !.proof = to]]
      <4>1. PICK new : new = [log[i] EXCEPT !.proof = to]
        OBVIOUS
      <4> QED
        BY <3>1, <4>1, <2>3, <2>4, OneFixed
    <3>2. CASE log' = [log EXCEPT ![i] = [log[i] EXCEPT !.absent = TRUE]]
      <4>1. PICK new : new = [log[i] EXCEPT !.absent = TRUE]
        OBVIOUS
      <4> QED
        BY <3>2, <4>1, <2>4, OneFixed
    <3> QED
      BY <2>2, <3>1, <3>2
  <2> QED
    BY <2>1, <2>5, LogCommitted DEF RollOps
<1> QED
  BY <1>1, <1>2, <1>3

LEMMA CheckCommits ==
  ASSUME AttendanceInv, NEW c \in Calls, Running(c), stampIn(c) \/ stampOut(c) \/ kioskOut(c)
  PROVE  Plain(c)
<1>1. CASE stampIn(c)
  <2> DEFINE job == call[c]
             row == [Log(Who(job), job.day, job.to, job.from = 1) EXCEPT !.proof = job.proof]
  <2>1. /\ job.op = "stampIn" /\ Done(c) /\ UNCHANGED <<Clock, request, credit, standing>>
        /\ log' = Append(log, row)
    BY <1>1 DEF stampIn
  <2>2. Who(job) \in Workers /\ job.day \in Days /\ Formed(job, request)
    BY <2>1, WhoAndDay DEF RollOps
  <2>3. job.to \in {"APP_SELFIE", "REMOTE"} /\ job.proof \in {"NONE", "PENDING", "OK"}
    BY <2>1, <2>2 DEF Formed, Writes
  <2>4. /\ row \in LogRow(DOMAIN request) /\ row.by = 0 /\ row.source # "QR_SCAN"
    BY <2>2, <2>3 DEF Log, LogRow
  <2> HIDE DEF row, job
  <2>5. Relogged(log, log', DOMAIN request, 0)
    BY <2>1, <2>4, OneAdded
  <2> QED
    BY <2>1, <2>5, LogCommitted DEF RollOps, job
<1>2. CASE stampOut(c)
  <2>1. /\ call[c].op = "stampOut" /\ Done(c) /\ UNCHANGED <<Clock, request, credit, standing>>
        /\ log' = log \/ \E i : log' = [log EXCEPT ![i].out = "SAME_DAY"]
    BY <1>2 DEF stampOut
  <2>2. Relogged(log, log', DOMAIN request, 0)
    BY <2>1, Unlogged, Closing
  <2> QED
    BY <2>1, <2>2, LogCommitted DEF RollOps
<1>3. CASE kioskOut(c)
  <2> DEFINE job == call[c]
  <2>1. /\ job.op = "kioskOut" /\ Done(c) /\ UNCHANGED <<Clock, request, credit, standing>>
        /\ \/ log' = log
           \/ \E i \in Latest(OpenLogs(Who(job))) :
                log' = [log EXCEPT ![i].out = IF Stale(i, job.day) THEN "MIDNIGHT" ELSE "SAME_DAY"]
    BY <1>3 DEF kioskOut
  <2>2. \A i : (IF Stale(i, job.day) THEN "MIDNIGHT" ELSE "SAME_DAY")
                 \in {"MIDNIGHT", "SAME_DAY"}
    BY DEF Stale
  <2>3. Relogged(log, log', DOMAIN request, 0)
    <3>1. CASE log' = log
      BY <3>1, Unlogged
    <3>2. CASE log' # log
      <4>1. PICK i, out : out \in {"MIDNIGHT", "SAME_DAY"} /\ log' = [log EXCEPT ![i].out = out]
        BY <2>1, <2>2, <3>2
      <4> QED
        BY <4>1, Closing
    <3> QED
      BY <3>1, <3>2
  <2> QED
    BY <2>1, <2>3, LogCommitted DEF RollOps
<1> QED
  BY <1>1, <1>2, <1>3

LEMMA KioskCommits ==
  ASSUME AttendanceInv, NEW c \in Calls, Running(c), kioskIn(c)
  PROVE  Plain(c)
<1> DEFINE job == call[c]
           w   == Who(job)
           ids == DOMAIN request
<1>1. job.op = "kioskIn" /\ UNCHANGED <<Clock, request, credit, standing>>
  BY DEF kioskIn
<1>2. w \in Workers /\ job.day \in Days
  BY <1>1, WhoAndDay DEF RollOps
<1>3. PICK stale, closed :
        /\ closed = [i \in DOMAIN log |-> IF i \in stale THEN [log[i] EXCEPT !.out = "MIDNIGHT"] ELSE log[i]]
        /\ \/ log' = closed /\ Finish(c)
           \/ /\ ~HasRecord(w, job.day)
              /\ log' = Append(closed, Log(w, job.day, "QR_SCAN", job.from = 1)) /\ Done(c)
  <2>1. PICK open : LET stale == {i \in open : Stale(i, job.day)}
                        closed == [i \in DOMAIN log |-> IF i \in stale THEN [log[i] EXCEPT !.out = "MIDNIGHT"]
                                                        ELSE log[i]]
                    IN  IF open \ stale # {} \/ HasRecord(w, job.day)
                        THEN log' = closed /\ Finish(c)
                        ELSE /\ log' = Append(closed, Log(w, job.day, "QR_SCAN", job.from = 1))
                             /\ Done(c)
    BY DEF kioskIn
  <2> QED
    BY <2>1
<1>4. Relogged(log, closed, ids, 0) /\ DOMAIN closed = DOMAIN log
  <2>1. \A i \in DOMAIN log : /\ Fixed(log[i], log[i], ids)
                              /\ Fixed(log[i], [log[i] EXCEPT !.out = "MIDNIGHT"], ids)
    BY LogTyped, Corrections
  <2>2. \A i \in DOMAIN log : Fixed(log[i], closed[i], ids)
    BY <1>3, <2>1
  <2>3. DOMAIN closed = DOMAIN log /\ closed = [i \in DOMAIN log |-> closed[i]]
    BY <1>3
  <2> QED
    BY <2>2, <2>3, SomeFixed
<1>5. CASE log' = closed /\ Finish(c)
  BY <1>1, <1>4, <1>5, LogWritten, Ended
<1>6. CASE /\ ~HasRecord(w, job.day)
           /\ log' = Append(closed, Log(w, job.day, "QR_SCAN", job.from = 1)) /\ Done(c)
  <2> DEFINE row == Log(w, job.day, "QR_SCAN", job.from = 1)
  <2>1. /\ row \in LogRow(ids) /\ row.by = 0
        /\ row.who = w /\ row.day = job.day
    BY <1>2 DEF Log, LogRow
  <2>2. \A j \in DOMAIN log : log[j].who = row.who /\ log[j].day = row.day => log[j].source # "QR_SCAN"
    BY <1>6, <2>1 DEF HasRecord, LogsOn
  <2>3. log \in Seq(LogRow(ids)) /\ log' = Append(closed, row)
    BY <1>6 DEF AttendanceInv, ShapeInv, Rows
  <2> HIDE DEF row
  <2>4. Relogged(log, log', ids, 0)
    BY <1>4, <2>1, <2>2, <2>3, AddedLog
  <2> QED
    BY <1>1, <1>6, <2>4, LogCommitted DEF RollOps
<1> QED
  BY <1>3, <1>5, <1>6


-----------------------------------------------------------------------------
(* Carrying a request out: it was decided, and is `h' from here on.         *)

LEMMA LogsFollowed ==
  ASSUME Rows, Jobs, LogsInv, NEW c \in Calls, NEW k, Goes(c, k), Grown(request, request'),
         NEW h \in DOMAIN request, NEW by \in {0, h}, Relogged(log, log', DOMAIN request', by),
         request'[h].status # "PENDING", \A i \in DOMAIN log : log[i].by # h,
         \A d \in Calls : d # c /\ Logging(d) => Head(call[d].rows) # h,
         k.op \in {"findLog", "fullDay"} => by = 0 /\ Head(k.rows) = h
  PROVE  LogsInv'
<1>0. h # 0
  BY DEF Rows
<1>1. ASSUME NEW i \in DOMAIN log', log'[i].by # 0
      PROVE  \/ i \in DOMAIN log /\ log'[i].by = log[i].by
             \/ i \notin DOMAIN log /\ i = Len(log) + 1 /\ log'[i].by = h /\ by = h
  BY <1>1 DEF Relogged
<1>2. ASSUME NEW i \in DOMAIN log', NEW j \in DOMAIN log', i # j, log'[i].by # 0
      PROVE  log'[i].by # log'[j].by
  <2>1. CASE i \in DOMAIN log /\ j \in DOMAIN log
    BY <2>1, <1>2 DEF LogsInv, CarriedOutOnce, Relogged
  <2>2. CASE i \in DOMAIN log /\ j \notin DOMAIN log
    BY <2>2, <1>1, <1>2
  <2>3. CASE i \notin DOMAIN log
    <3>1. j \in DOMAIN log
      BY <2>3, <1>2 DEF Relogged
    <3> QED
      BY <3>1, <2>3, <1>1, <1>2 DEF Relogged
  <2> QED
    BY <2>1, <2>2, <2>3
<1>3. ASSUME NEW i \in DOMAIN log', log'[i].by # 0
      PROVE  request'[log'[i].by].status # "PENDING"
  <2>1. CASE i \in DOMAIN log /\ log'[i].by = log[i].by
    <3>1. log[i].by \in DOMAIN request
      BY <2>1, <1>3, LogRows DEF Rows
    <3> QED
      BY <3>1, <2>1, <1>3 DEF LogsInv, Grown
  <2> QED
    BY <2>1, <1>1, <1>3
<1>4. ASSUME NEW d \in Calls, Logging(d)'
      PROVE  \/ d = c /\ Head(call'[d].rows) = h /\ by = 0
             \/ d # c /\ Logging(d) /\ call'[d] = call[d]
  BY <1>4, OthersKeep DEF Logging, Running
<1>5. ASSUME NEW d \in Calls, Logging(d)
      PROVE  Head(call[d].rows) \in DOMAIN request
  BY <1>5 DEF Logging, Jobs, Formed, Writes
<1>6. ASSUME NEW d \in Calls, Logging(d)'
      PROVE  /\ request'[Head(call'[d].rows)].status # "PENDING"
             /\ \A i \in DOMAIN log' : log'[i].by # Head(call'[d].rows)
             /\ \A e \in Calls : e # d /\ Logging(e)' => Head(call'[e].rows) # Head(call'[d].rows)
  <2>1. CASE d = c
    <3>1. Head(call'[d].rows) = h /\ by = 0
      BY <2>1, <1>4, <1>6
    <3>2. \A i \in DOMAIN log' : log'[i].by # h
      BY <3>1, <1>0, <1>1
    <3>3. \A e \in Calls : e # d /\ Logging(e)' => Head(call'[e].rows) # h
      BY <2>1, <1>4
    <3> QED
      BY <3>1, <3>2, <3>3
  <2>2. CASE d # c
    <3>1. Logging(d) /\ call'[d] = call[d] /\ Head(call[d].rows) \in DOMAIN request /\ Head(call[d].rows) # h
      BY <2>2, <1>4, <1>5, <1>6
    <3>2. request'[Head(call[d].rows)].status # "PENDING"
      BY <3>1 DEF LogsInv, Grown
    <3>3. ASSUME NEW i \in DOMAIN log' PROVE log'[i].by # Head(call[d].rows)
      <4>1. Head(call[d].rows) # 0
        BY <3>1 DEF Rows
      <4> QED
        BY <4>1, <3>1, <3>3, <1>1 DEF LogsInv
    <3>4. ASSUME NEW e \in Calls, e # d, Logging(e)'
          PROVE  Head(call'[e].rows) # Head(call'[d].rows)
      BY <2>2, <3>1, <3>4, <1>4 DEF LogsInv
    <3> QED
      BY <3>1, <3>2, <3>3, <3>4
  <2> QED
    BY <2>1, <2>2
<1> QED
  BY <1>2, <1>3, <1>6 DEF LogsInv, CarriedOutOnce

\* The credit of v's day at is used for `by'; all others keep theirs.
Spent(v, at, by) ==
    /\ credit' \in [Workers -> [Days -> CreditRow(DOMAIN request')]]
    /\ \A w \in Workers : \A d \in Days :
          IF by # 0 /\ w = v /\ d = at THEN credit'[w][d] = [state |-> "USED", for |-> by]
          ELSE /\ credit'[w][d].for = credit[w][d].for
               /\ credit'[w][d].state = "USED" <=> credit[w][d].state = "USED"

LEMMA CreditsFollowed ==
  ASSUME Rows, Jobs, CreditsInv, NEW c \in Calls, NEW k, Goes(c, k), Grown(request, request'),
         NEW h \in DOMAIN request, NEW by \in {0, h}, NEW v, NEW at, Spent(v, at, by),
         request'[h].status = "APPROVED", request'[h].type = COMP_OFF,
         \A w \in Workers : \A d \in Days : credit[w][d].for # h,
         \A d \in Calls : d # c /\ Spending(d) => Head(call[d].rows) # h,
         k.op = "useCredit" => by = 0 /\ Head(k.rows) = h
  PROVE  CreditsInv'
<1>0. h # 0
  BY DEF Rows
<1>1. ASSUME NEW w \in Workers, NEW d \in Days
      PROVE  /\ credit'[w][d].state = "USED" <=> credit'[w][d].for # 0
             /\ credit'[w][d].for \in {credit[w][d].for, by}
             /\ credit'[w][d].for = h => by # 0 /\ w = v /\ d = at
             /\ credit'[w][d].for # h => credit'[w][d].for = credit[w][d].for
  <2>1. CASE by # 0 /\ w = v /\ d = at
    BY <2>1, <1>0 DEF Spent
  <2>2. CASE ~(by # 0 /\ w = v /\ d = at)
    BY <2>2 DEF Spent, CreditsInv
  <2> QED
    BY <2>1, <2>2
<1>2. ASSUME NEW w \in Workers, NEW d \in Days, credit'[w][d].for # 0
      PROVE  /\ request'[credit'[w][d].for].type = COMP_OFF
             /\ request'[credit'[w][d].for].status = "APPROVED"
             /\ \A e \in Days \ {d} : credit'[w][e].for # credit'[w][d].for
  <2>1. CASE credit'[w][d].for = h
    BY <2>1, <1>1
  <2>2. CASE credit'[w][d].for # h
    <3>1. credit'[w][d].for = credit[w][d].for
      BY <2>2, <1>1
    <3>2. credit[w][d].for \in DOMAIN request
      BY <3>1, <1>2 DEF Rows, CreditRow
    <3>3. /\ request'[credit[w][d].for].type = COMP_OFF
          /\ request'[credit[w][d].for].status = "APPROVED"
      BY <3>1, <3>2, <1>2 DEF CreditsInv, Grown
    <3>4. ASSUME NEW e \in Days, e # d PROVE credit'[w][e].for # credit[w][d].for
      BY <3>1, <3>4, <2>2, <1>1, <1>2 DEF CreditsInv
    <3> QED
      BY <3>1, <3>3, <3>4
  <2> QED
    BY <2>1, <2>2
<1>3. ASSUME NEW d \in Calls, Spending(d)'
      PROVE  \/ d = c /\ Head(call'[d].rows) = h /\ by = 0
             \/ d # c /\ Spending(d) /\ call'[d] = call[d]
  BY <1>3, OthersKeep DEF Spending, Running
<1>4. ASSUME NEW d \in Calls, Spending(d)
      PROVE  Head(call[d].rows) \in DOMAIN request
  BY <1>4 DEF Spending, Jobs, Formed, Writes
<1>5. ASSUME NEW d \in Calls, Spending(d)'
      PROVE  /\ request'[Head(call'[d].rows)].status = "APPROVED"
             /\ \A w \in Workers : \A e \in Days : credit'[w][e].for # Head(call'[d].rows)
             /\ \A e \in Calls : e # d /\ Spending(e)' => Head(call'[e].rows) # Head(call'[d].rows)
  <2>1. CASE d = c
    <3>1. Head(call'[d].rows) = h /\ by = 0
      BY <2>1, <1>3, <1>5
    <3>2. \A w \in Workers : \A e \in Days : credit'[w][e].for # h
      BY <3>1, <1>1
    <3>3. \A e \in Calls : e # d /\ Spending(e)' => Head(call'[e].rows) # h
      BY <2>1, <1>3
    <3> QED
      BY <3>1, <3>2, <3>3
  <2>2. CASE d # c
    <3>1. Spending(d) /\ call'[d] = call[d] /\ Head(call[d].rows) \in DOMAIN request /\ Head(call[d].rows) # h
      BY <2>2, <1>3, <1>4, <1>5
    <3>2. request'[Head(call[d].rows)].status = "APPROVED"
      BY <3>1 DEF CreditsInv, Grown
    <3>3. ASSUME NEW w \in Workers, NEW e \in Days PROVE credit'[w][e].for # Head(call[d].rows)
      BY <3>1, <3>3, <1>1 DEF CreditsInv
    <3>4. ASSUME NEW e \in Calls, e # d, Spending(e)'
          PROVE  Head(call'[e].rows) # Head(call'[d].rows)
      BY <2>2, <3>1, <3>4, <1>3 DEF CreditsInv
    <3> QED
      BY <3>1, <3>2, <3>3, <3>4
  <2> QED
    BY <2>1, <2>2
<1> QED
  BY <1>1, <1>2, <1>5 DEF CreditsInv

\* What a request that is decided sets in motion.
LEMMA ClaimGoes ==
  ASSUME AttendanceInv, NEW c \in Calls, Running(c), call[c].op = "claim", Done(c), Grown(request, request')
  PROVE  \E k : /\ Goes(c, k)
                /\ \/ k = Idle
                   \/ /\ call[c].then # <<>> /\ k.op = Head(call[c].then) /\ k.op \in AllSteps
                      /\ k.rows = call[c].rows
<1> DEFINE job == call[c]
           k == [job EXCEPT !.op = Head(job.then), !.then = Tail(job.then)]
<1>1. Formed(job, request)
  BY DEF AttendanceInv, ShapeInv, Jobs
<1>2. CASE job.then = <<>>
  <2>1. call' = [call EXCEPT ![c] = Idle]
    BY <1>2 DEF Done, Continue
  <2> QED
    BY <2>1 DEF Goes
<1>3. CASE job.then # <<>>
  <2>1. call' = [call EXCEPT ![c] = k]
    BY <1>3 DEF Done, Continue
  <2>2. /\ Head(job.then) \in AllSteps /\ Tail(job.then) \in Seq(Small) /\ Fields \subseteq DOMAIN job
        /\ About(job) /\ Writes(job, request)
    BY <1>1, <1>3 DEF Formed, Steps, AllSteps
  <2>3. /\ Fields \subseteq DOMAIN k /\ k.op = Head(job.then) /\ k.then = Tail(job.then)
        /\ k.who = job.who /\ k.day = job.day /\ k.rows = job.rows /\ k.to = job.to /\ k.from = job.from
    BY <2>2 DEF Fields
  <2>4. job.day \in Days /\ \E w \in Workers : job.who = {w}
    BY <2>2 DEF About, RollOps
  <2>5. /\ job.to \in {"APPROVED", "REJECTED"} /\ Head(job.rows) \in DOMAIN request
        /\ Head(job.then) = "useCredit" => request[Head(job.rows)].type = COMP_OFF /\ job.from \in Days
    BY <2>2, <1>3 DEF Writes
  <2>6. k.op \in AllSteps
    BY <2>2, <2>3
  <2> HIDE DEF k
  <2>7. Steps(k)
    BY <2>2, <2>3, <2>6 DEF Steps, AllSteps, Small, Starts, Following, RollOps, Midway
  <2>8. About(k)
    BY <2>3, <2>4, <2>6 DEF About, AllSteps, Small, Following, RollOps
  <2>9. Writes(k, request')
    BY <2>3, <2>5, <2>6 DEF Writes, AllSteps, Small, Following, Grown
  <2> QED
    BY <1>3, <2>1, <2>3, <2>6, <2>7, <2>8, <2>9 DEF Goes, Formed
<1> QED
  BY <1>2, <1>3

LEMMA ClaimKeeps ==
  ASSUME AttendanceInv, NEW c \in Calls, Running(c), claim(c)
  PROVE  AttendanceInv'
<1> USE DEF AttendanceInv, ShapeInv
<1> DEFINE job == call[c]
           h == Head(job.rows)
           mine == StillPending(job.at)
<1>1. /\ job.op = "claim" /\ UNCHANGED <<Clock, log, credit, standing>>
      /\ request' = [i \in DOMAIN request |->
                       IF i \in mine THEN [request[i] EXCEPT !.status = job.to] ELSE request[i]]
      /\ IF mine = {} THEN Finish(c) ELSE Done(c)
  BY DEF claim
<1>2. Formed(job, request)
  BY DEF Jobs
<1>3. job.to \in {"APPROVED", "REJECTED"} /\ h \in DOMAIN request
  BY <1>1, <1>2 DEF Formed, Writes
<1>4. \A i \in DOMAIN request : i \in mine => request[i].status = "PENDING"
  BY DEF StillPending
<1> HIDE DEF mine
<1>5. Grown(request, request') /\ \A i \in DOMAIN request : i \in mine => request'[i].status = job.to
  BY <1>1, <1>3, <1>4, DecidedRequests
<1>6. Relogged(log, log', DOMAIN request', 0) /\ Recredited /\ Excusing
  BY <1>1, <1>5, RequestsWritten
<1>7. CASE mine = {}
  BY <1>1, <1>5, <1>6, <1>7, Ended, PlainKeeps
<1>8. CASE mine # {}
  <2>1. PICK k : /\ Goes(c, k)
                 /\ \/ k = Idle
                    \/ /\ job.then # <<>> /\ k.op = Head(job.then) /\ k.op \in AllSteps
                       /\ k.rows = job.rows
    BY <1>1, <1>5, <1>8, ClaimGoes
  <2>2. k.op \notin {"fullDay", "rollSkip", "rollAbsent"} \cup RollOps
    BY <2>1, IdleOp DEF AllSteps, Following, Small, RollOps
  <2>3. Turn(c) /\ Calendar'
    BY <1>1, <1>8, CalendarKept DEF Done, Continue, Turn, Clock
  <2>4. CASE k.op \notin {"findLog", "useCredit"}
    <3>1. Plain(c)
      BY <2>1, <2>2, <2>3, <2>4, <1>5, <1>6 DEF Plain
    <3> QED
      BY <3>1, PlainKeeps
  <2>5. CASE k.op \in {"findLog", "useCredit"}
    <3>1. job.then # <<>> /\ Head(job.then) = k.op /\ Head(k.rows) = h
      BY <2>1, <2>5, IdleOp
    <3>2. job.at = {h} /\ job.to = "APPROVED" /\ (k.op = "useCredit" => request[h].type = COMP_OFF)
      BY <3>1, <2>5, <1>1, <1>2 DEF Formed, Writes
    <3>3. request[h].status = "PENDING" /\ request'[h].status = "APPROVED" /\ request'[h].type = request[h].type
      BY <3>2, <1>3, <1>4, <1>5, <1>8 DEF Grown, mine, StillPending
    <3>4. \A i \in DOMAIN log : log[i].by # h
      <4>1. h # 0
        BY <1>3 DEF Rows
      <4> QED
        BY <4>1, <3>3 DEF LogsInv
    <3>5. \A d \in Calls : d # c /\ Logging(d) => Head(call[d].rows) # h
      BY <3>3 DEF LogsInv
    <3>6. \A w \in Workers : \A d \in Days : credit[w][d].for # h
      <4>1. h # 0
        BY <1>3 DEF Rows
      <4> QED
        BY <4>1, <3>3 DEF CreditsInv
    <3>7. \A d \in Calls : d # c /\ Spending(d) => Head(call[d].rows) # h
      BY <3>3 DEF CreditsInv
    <3>8. Rows' /\ Jobs' /\ ScansInv' /\ RollsInv' /\ CreditedInv'
      <4>1. Rows'
        BY <1>5, <1>6, RowsStep DEF Recredited, Excusing
      <4>2. Jobs'
        BY <2>1, <1>5, JobsStep
      <4>3. ScansInv'
        BY <1>6, ScansKept
      <4>4. RollsInv'
        BY <2>1, <2>2, <1>6, RollsKept
      <4>5. CreditedInv'
        BY <2>1, <2>2, <2>3, CreditedKept
      <4> QED
        BY <4>1, <4>2, <4>3, <4>4, <4>5
    <3>9. LogsInv'
      BY <2>1, <3>1, <3>3, <3>4, <3>5, <1>3, <1>5, <1>6, LogsFollowed
    <3>10. CreditsInv'
      <4>1. CASE k.op # "useCredit"
        BY <4>1, <2>1, <1>5, <1>6, CreditsKept
      <4>2. CASE k.op = "useCredit"
        <5>1. \A v, at : Spent(v, at, 0)
          BY <1>6 DEF Spent, Recredited
        <5> QED
          BY <4>2, <5>1, <2>1, <3>1, <3>2, <3>3, <3>6, <3>7, <1>3, <1>5, CreditsFollowed
      <4> QED
        BY <4>1, <4>2
    <3> QED
      BY <2>3, <3>8, <3>9, <3>10
  <2> QED
    BY <2>4, <2>5
<1> QED
  BY <1>7, <1>8

LEMMA FindKeeps ==
  ASSUME AttendanceInv, NEW c \in Calls, Running(c), findLog(c)
  PROVE  AttendanceInv'
<1> USE DEF AttendanceInv, ShapeInv
<1> DEFINE job == call[c]
           h == Head(job.rows)
           seen == LogsOn(Who(job), job.day)
           next == IF seen = {} THEN "fullDay"
                   ELSE IF request[Head(job.rows)].type = "FIELD_WORK" THEN "present" ELSE "skip"
           k == [job EXCEPT !.op = next, !.at = seen]
<1>1. job.op = "findLog" /\ Continue(c, k) /\ UNCHANGED attendance
  BY DEF findLog, ReadOnly
<1>2. Formed(job, request)
  BY DEF Jobs
<1>3. next \in Midway
  BY DEF Midway
<1>4. /\ Fields \subseteq DOMAIN k /\ k.op = next /\ k.who = job.who /\ k.day = job.day
      /\ k.rows = job.rows /\ k.then = job.then
  BY <1>2 DEF Formed, Fields
<1>5. /\ h \in DOMAIN request /\ job.then \in Seq(Small) /\ job.day \in Days
      /\ \E w \in Workers : job.who = {w}
  BY <1>1, <1>2 DEF Formed, Writes, Steps, About, RollOps
<1> HIDE DEF next, k
<1>6. Formed(k, request)
  <2>1. Steps(k)
    BY <1>3, <1>4, <1>5 DEF Steps, Midway, RollOps
  <2>2. About(k)
    BY <1>3, <1>4, <1>5 DEF About, Midway, RollOps
  <2>3. Writes(k, request)
    BY <1>3, <1>4, <1>5 DEF Writes, Midway
  <2> QED
    BY <1>4, <2>1, <2>2, <2>3 DEF Formed
<1>7. Goes(c, k) /\ Turn(c) /\ Calendar'
  BY <1>1, <1>6, CalendarKept DEF Goes, Continue, Turn, attendance
<1>8. /\ Grown(request, request') /\ Relogged(log, log', DOMAIN request', 0) /\ Recredited /\ Excusing
  BY <1>1, NothingWritten DEF attendance
<1>9. k.op \notin {"useCredit", "rollSkip", "rollAbsent"} \cup RollOps
  BY <1>3, <1>4 DEF Midway, RollOps
<1>10. LogsInv'
  <2>1. Logging(c)
    BY <1>1 DEF Logging
  <2>2. /\ request[h].status # "PENDING" /\ \A i \in DOMAIN log : log[i].by # h
        /\ \A d \in Calls : d # c /\ Logging(d) => Head(call[d].rows) # h
    BY <2>1 DEF LogsInv
  <2>3. request'[h].status # "PENDING" /\ Head(k.rows) = h
    BY <2>2, <1>1, <1>4 DEF attendance
  <2> QED
    BY <1>5, <1>7, <1>8, <2>2, <2>3, LogsFollowed
<1>11. Rows'
  BY <1>8, RowsStep DEF Recredited, Excusing
<1>12. Jobs'
  BY <1>7, <1>8, JobsStep
<1>13. CreditsInv' /\ ScansInv' /\ RollsInv' /\ CreditedInv'
  BY <1>7, <1>8, <1>9, CreditsKept, ScansKept, RollsKept, CreditedKept
<1> QED
  BY <1>7, <1>10, <1>11, <1>12, <1>13

LEMMA FullDayKeeps ==
  ASSUME AttendanceInv, NEW c \in Calls, Running(c), fullDay(c)
  PROVE  AttendanceInv'
<1> USE DEF AttendanceInv, ShapeInv
<1> DEFINE job == call[c]
           h == Head(job.rows)
           ids == DOMAIN request
           row == [Log(Who(job), job.day, "PROPOSAL", FALSE) EXCEPT !.out = "SAME_DAY", !.by = Head(job.rows)]
<1>1. /\ job.op = "fullDay" /\ Done(c) /\ UNCHANGED <<Clock, request, credit, standing>>
      /\ log' = Append(log, row)
  BY DEF fullDay
<1>2. Formed(job, request) /\ Who(job) \in Workers /\ job.day \in Days
  BY <1>1, WhoAndDay DEF RollOps
<1>3. h \in ids
  BY <1>1, <1>2 DEF Formed, Writes
<1>4. row \in LogRow(ids) /\ row.by = h /\ row.source # "QR_SCAN"
  BY <1>2, <1>3 DEF Log, LogRow
<1> HIDE DEF row
<1>5. Grown(request, request') /\ Recredited /\ Excusing
  BY <1>1, LogWritten
<1>6. Relogged(log, log', DOMAIN request', h)
  BY <1>1, <1>4, OneAdded
<1>7. PICK k : Goes(c, k) /\ k.op \in Small \cup {"IDLE"}
  BY <1>1, <1>5, DoneGoes DEF RollOps
<1>8. k.op \notin {"findLog", "fullDay", "useCredit", "rollSkip", "rollAbsent"} \cup RollOps
  BY <1>7 DEF Small, RollOps
<1>9. Turn(c) /\ Calendar'
  BY <1>1, CalendarKept DEF Done, Continue, Turn, Clock
<1>10. LogsInv'
  <2>1. Logging(c)
    BY <1>1 DEF Logging
  <2>2. /\ request[h].status # "PENDING" /\ \A i \in DOMAIN log : log[i].by # h
        /\ \A d \in Calls : d # c /\ Logging(d) => Head(call[d].rows) # h
    BY <2>1 DEF LogsInv
  <2>3. request'[h].status # "PENDING"
    BY <2>2, <1>1
  <2> QED
    BY <1>3, <1>5, <1>6, <1>7, <1>8, <2>2, <2>3, LogsFollowed
<1>11. Rows'
  BY <1>5, <1>6, RowsStep DEF Recredited, Excusing
<1>12. Jobs'
  BY <1>7, <1>5, JobsStep
<1>13. ScansInv'
  BY <1>6, ScansKept
<1>14. CreditsInv' /\ RollsInv' /\ CreditedInv'
  BY <1>5, <1>7, <1>8, <1>9, CreditsKept, RollsKept, CreditedKept
<1> QED
  BY <1>9, <1>10, <1>11, <1>12, <1>13, <1>14

LEMMA CreditKeeps ==
  ASSUME AttendanceInv, NEW c \in Calls, Running(c), useCredit(c)
  PROVE  AttendanceInv'
<1> USE DEF AttendanceInv, ShapeInv
<1> DEFINE job == call[c]
           h == Head(job.rows)
           w == Who(job)
           used == [state |-> "USED", for |-> h]
<1>1. /\ job.op = "useCredit" /\ Done(c) /\ UNCHANGED <<Clock, request, log, standing>>
      /\ credit' = [credit EXCEPT ![w][job.from] = used]
  BY DEF useCredit
<1>2. Formed(job, request) /\ w \in Workers
  BY <1>1, WhoAndDay DEF RollOps
<1>3. h \in DOMAIN request /\ request[h].type = COMP_OFF /\ job.from \in Days
  BY <1>1, <1>2 DEF Formed, Writes
<1>4. used \in CreditRow(DOMAIN request)
  BY <1>3 DEF CreditRow
<1>5. h # 0
  BY <1>3 DEF Rows
<1>6. Spent(w, job.from, h)
  <2> DEFINE d == job.from
  <2>1. credit \in [Workers -> [Days -> CreditRow(DOMAIN request)]] /\ d \in Days
    BY <1>3 DEF Rows
  <2> HIDE DEF used, d
  <2>2. credit' = [credit EXCEPT ![w][d] = used]
    BY <1>1 DEF d
  <2> HIDE DEF w
  <2>3. /\ credit' \in [Workers -> [Days -> CreditRow(DOMAIN request)]]
        /\ \A v \in Workers : \A e \in Days :
             credit'[v][e] = IF v = w /\ e = d THEN used ELSE credit[v][e]
    BY <2>1, <2>2, <1>2, <1>4
  <2> QED
    BY <2>3, <1>1, <1>5 DEF Spent, used, d
<1>7. Grown(request, request') /\ Excusing /\ Relogged(log, log', DOMAIN request', 0)
  BY <1>1, SameRequests, SameStanding, Unlogged
<1>8. PICK k : Goes(c, k) /\ k.op \in Small \cup {"IDLE"}
  BY <1>1, <1>7, DoneGoes DEF RollOps
<1>9. k.op \notin {"findLog", "fullDay", "useCredit", "rollSkip", "rollAbsent"} \cup RollOps
  BY <1>8 DEF Small, RollOps
<1>10. Turn(c) /\ Calendar'
  BY <1>1, CalendarKept DEF Done, Continue, Turn, Clock
<1>11. CreditsInv'
  <2>1. Spending(c)
    BY <1>1 DEF Spending
  <2>2. /\ request[h].status = "APPROVED" /\ \A v \in Workers : \A d \in Days : credit[v][d].for # h
        /\ \A d \in Calls : d # c /\ Spending(d) => Head(call[d].rows) # h
    BY <2>1 DEF CreditsInv
  <2>3. request'[h].status = "APPROVED" /\ request'[h].type = COMP_OFF
    BY <2>2, <1>1, <1>3
  <2> HIDE DEF w, h
  <2> QED
    BY <1>3, <1>6, <1>7, <1>8, <1>9, <2>2, <2>3, CreditsFollowed
<1>12. Rows'
  BY <1>6, <1>7, RowsStep DEF Spent, Excusing
<1>13. Jobs'
  BY <1>8, <1>7, JobsStep
<1>14. LogsInv' /\ ScansInv' /\ RollsInv' /\ CreditedInv'
  BY <1>7, <1>8, <1>9, <1>10, LogsKept, ScansKept, RollsKept, CreditedKept
<1> QED
  BY <1>10, <1>11, <1>12, <1>13, <1>14

-----------------------------------------------------------------------------
(* The rollup of a day.                                                     *)

LEMMA RollsAlone ==
  ASSUME Rows, Jobs, RollsInv, NEW c \in Calls, NEW k, Goes(c, k), AbsentOnce',
         \A d \in Calls : d # c /\ Running(d) => call[d].op \notin RollOps,
         k.op = "rollAbsent" => \A w \in k.who : standing'[w][k.day] = 0
  PROVE  RollsInv'
<1>1. ASSUME NEW d \in Calls, Running(d)', call'[d].op \in RollOps
      PROVE  d = c /\ call'[d] = k
  BY <1>1, OthersKeep
<1>2. "rollAbsent" \in RollOps
  BY DEF RollOps
<1> QED
  BY <1>1, <1>2 DEF RollsInv

LEMMA CreditedRolls ==
  ASSUME Jobs, CreditedInv, NEW c \in Calls, NEW k, Goes(c, k), Turn(c),
         ~disturbed /\ k.op \in {"rollSkip", "rollAbsent"} => Credited(k.day)'
  PROVE  CreditedInv'
<1> SUFFICES ASSUME ~disturbed'
             PROVE  (\A d \in Calls : d # c => ~Running(d)') /\ ~disturbed
  BY OthersKeep DEF CreditedInv, Running
<1> QED
  BY OthersKeep DEF CreditedInv, Turn

\* A handler of the rollup goes on with another part of it.
LEMMA RollGoes ==
  ASSUME AttendanceInv, NEW c \in Calls, Running(c), call[c].op \in RollOps,
         NEW k, Continue(c, k), Fields \subseteq DOMAIN k, k.op \in RollOps \ {"rollClose"}, k.day = call[c].day,
         k.op \in {"rollSkip", "rollAbsent"} => k.who \subseteq Workers
  PROVE  /\ Goes(c, k) /\ Turn(c) /\ k.day \in Days
         /\ \A d \in Calls : d # c /\ Running(d) => call[d].op \notin RollOps
<1> USE DEF AttendanceInv, ShapeInv
<1>1. Formed(call[c], request)
  BY DEF Jobs
<1>2. k.day \in Days
  BY <1>1 DEF Formed, About, RollOps
<1>3. Steps(k) /\ About(k) /\ Writes(k, request')
  BY <1>2 DEF Steps, About, Writes, RollOps
<1>4. Goes(c, k) /\ Turn(c)
  BY <1>3 DEF Goes, Formed, Continue, Turn
<1>5. \A d \in Calls : d # c /\ Running(d) => call[d].op \notin RollOps
  BY DEF RollsInv
<1> QED
  BY <1>2, <1>4, <1>5

LEMMA RollupKeeps ==
  ASSUME AttendanceInv, NEW c \in Idling, NEW d \in Days, rollup(c, d)
  PROVE  AttendanceInv'
<1> USE DEF AttendanceInv, ShapeInv
<1>1. PICK at :
        /\ call' = [call EXCEPT ![c] =
                      [Job("rollClose", "", d, <<"rollStaff", "rollSkip", "rollAbsent">>) EXCEPT !.at = at]]
        /\ disturbed' = (disturbed \/ ~AtRest) /\ UNCHANGED attendance
  BY DEF rollup
<1> DEFINE k == [Job("rollClose", "", d, <<"rollStaff", "rollSkip", "rollAbsent">>) EXCEPT !.at = at]
<1>2. /\ Fields \subseteq DOMAIN k /\ k.op = "rollClose" /\ k.day = d
      /\ k.then = <<"rollStaff", "rollSkip", "rollAbsent">>
  BY DEF Job, Fields
<1>3. k.then # <<>> /\ Head(k.then) = "rollStaff"
  <2>1. \A a, b, e : <<a, b, e>> # <<>> /\ Head(<<a, b, e>>) = a
    OBVIOUS
  <2> HIDE DEF k
  <2> QED
    BY <1>2, <2>1
<1>4. c \in Calls /\ ~Running(c)
  BY DEF Idling, Running
<1> HIDE DEF k
<1>5. Formed(k, request')
  BY <1>2, <1>3 DEF Formed, Steps, About, Writes, RollOps
<1>6. Goes(c, k) /\ Turn(c) /\ Calendar'
  BY <1>1, <1>5, CalendarKept DEF Goes, Turn, AtRest, Idling, Running, attendance, k
<1>7. Grown(request, request') /\ Relogged(log, log', DOMAIN request', 0) /\ Recredited /\ Excusing
  BY <1>1, NothingWritten DEF attendance
<1>8. \A e \in Calls : e # c /\ Running(e) => call[e].op \notin RollOps
  BY DEF rollup, Rolling, RollOps, Running
<1>9. Rows'
  BY <1>7, RowsStep DEF Recredited, Excusing
<1>10. Jobs'
  BY <1>4, <1>6, <1>7, JobsStep
<1>11. LogsInv' /\ CreditsInv' /\ ScansInv' /\ CreditedInv'
  BY <1>2, <1>4, <1>6, <1>7, LogsKept, CreditsKept, ScansKept, CreditedKept
<1>12. RollsInv'
  <2>1. AbsentOnce'
    BY <1>7 DEF RollsInv, AbsentOnce, Excusing
  <2> QED
    BY <2>1, <1>2, <1>4, <1>6, <1>8, RollsAlone
<1> QED
  BY <1>6, <1>9, <1>10, <1>11, <1>12

LEMMA RollCloses ==
  ASSUME AttendanceInv, NEW c \in Calls, Running(c), rollClose(c)
  PROVE  Plain(c)
<1> USE DEF AttendanceInv, ShapeInv
<1> DEFINE job == call[c]
           k == [job EXCEPT !.op = Head(job.then), !.then = Tail(job.then)]
           new == [i \in DOMAIN log |-> IF i \in job.at /\ log[i].source # "DELETED"
                                        THEN [log[i] EXCEPT !.out = "MIDNIGHT"] ELSE log[i]]
<1>1. job.op = "rollClose" /\ log' = new /\ Done(c) /\ UNCHANGED <<Clock, request, credit, standing>>
  BY DEF rollClose
<1>2. Formed(job, request)
  BY DEF Jobs
<1>3. job.then # <<>> /\ Head(job.then) = "rollStaff" /\ Fields \subseteq DOMAIN job
  BY <1>1, <1>2 DEF Formed, Steps
<1>4. Continue(c, k)
  BY <1>1, <1>3 DEF Done
<1>5. Fields \subseteq DOMAIN k /\ k.op = "rollStaff" /\ k.day = job.day
  BY <1>3 DEF Fields
<1> HIDE DEF k
<1>6. Goes(c, k) /\ Turn(c)
  BY <1>1, <1>4, <1>5, RollGoes DEF RollOps
<1>7. Relogged(log, log', DOMAIN request, 0)
  <2>1. \A i \in DOMAIN log : /\ Fixed(log[i], log[i], DOMAIN request)
                              /\ Fixed(log[i], [log[i] EXCEPT !.out = "MIDNIGHT"], DOMAIN request)
    BY LogTyped, Corrections
  <2>2. \A i \in DOMAIN log : Fixed(log[i], new[i], DOMAIN request)
    BY <2>1
  <2>3. DOMAIN new = DOMAIN log /\ new = [i \in DOMAIN log |-> new[i]]
    OBVIOUS
  <2> HIDE DEF new
  <2> QED
    BY <2>2, <2>3, <1>1, SomeFixed
<1>8. Grown(request, request') /\ Recredited /\ Excusing /\ Calendar'
  BY <1>1, LogWritten, CalendarKept DEF Clock
<1> QED
  BY <1>1, <1>5, <1>6, <1>7, <1>8 DEF Plain, RollOps

LEMMA SkipKeeps ==
  ASSUME AttendanceInv, NEW c \in Calls, Running(c), rollSkip(c)
  PROVE  AttendanceInv'
<1> USE DEF AttendanceInv, ShapeInv
<1> DEFINE job == call[c]
<1>0. PICK k : k = [job EXCEPT !.op = "rollAbsent", !.then = <<>>, !.who = job.who \ AlreadyRecorded(job.day)]
  OBVIOUS
<1>1. job.op = "rollSkip" /\ Continue(c, k) /\ UNCHANGED attendance
  BY <1>0 DEF rollSkip, ReadOnly
<1>2. Fields \subseteq DOMAIN job /\ job.who \subseteq Workers /\ job.day \in Days
  BY <1>1 DEF Jobs, Formed, About, RollOps
<1>3. /\ Fields \subseteq DOMAIN k /\ k.op = "rollAbsent" /\ k.day = job.day
      /\ k.who = job.who \ AlreadyRecorded(job.day)
  BY <1>0, <1>2 DEF Fields
<1>4. /\ Goes(c, k) /\ Turn(c)
      /\ \A d \in Calls : d # c /\ Running(d) => call[d].op \notin RollOps
  BY <1>1, <1>2, <1>3, RollGoes DEF RollOps
<1>5. Grown(request, request') /\ Relogged(log, log', DOMAIN request', 0) /\ Recredited /\ Excusing
  BY <1>1, NothingWritten DEF attendance
<1>6. Calendar' /\ Rows'
  BY <1>1, <1>5, CalendarKept, RowsStep DEF Recredited, Excusing, attendance
<1>7. Jobs'
  BY <1>4, <1>5, JobsStep
<1>8. LogsInv' /\ CreditsInv' /\ ScansInv'
  BY <1>3, <1>4, <1>5, LogsKept, CreditsKept, ScansKept
<1>9. RollsInv'
  <2>1. AbsentOnce'
    BY <1>1 DEF RollsInv, AbsentOnce, attendance
  <2>2. \A w \in k.who : standing'[w][k.day] = 0
    <3> SUFFICES ASSUME NEW w \in k.who PROVE standing[w][k.day] = 0
      BY <1>1 DEF attendance
    <3>1. w \in Workers /\ ~(standing[w][k.day] > 0) /\ standing[w][k.day] \in Nat
      BY <1>2, <1>3 DEF AlreadyRecorded, Rows
    <3> QED
      BY <3>1
  <2> QED
    BY <2>1, <2>2, <1>4, RollsAlone
<1>10. CreditedInv'
  <2>1. ~disturbed => Credited(job.day)
    BY <1>1 DEF CreditedInv
  <2>2. ~disturbed => Credited(k.day)'
    BY <2>1, <1>1, <1>3 DEF Credited, Approved, Asked, Attended, LogsOn, attendance
  <2> QED
    BY <2>2, <1>4, CreditedRolls
<1> QED
  BY <1>6, <1>7, <1>8, <1>9, <1>10

LEMMA AbsentKeeps ==
  ASSUME AttendanceInv, NEW c \in Calls, Running(c), rollAbsent(c)
  PROVE  AttendanceInv'
<1> USE DEF AttendanceInv, ShapeInv
<1> DEFINE job == call[c]
           day == job.day
<1>1. job.op = "rollAbsent" /\ UNCHANGED <<today, hour, weeklyOff, holidays, request, log, credit>>
  BY DEF rollAbsent
<1>2. Fields \subseteq DOMAIN job /\ job.who \subseteq Workers /\ day \in Days
  BY <1>1 DEF Jobs, Formed, About, RollOps
<1>3. Grown(request, request') /\ Relogged(log, log', DOMAIN request', 0) /\ Recredited
  BY <1>1, SameRequests, Unlogged, SameCredits
<1>4. CASE job.who = {}
  <2>1. rolled' = rolled \cup {day} /\ Finish(c) /\ UNCHANGED standing
    BY <1>4 DEF rollAbsent
  <2>2. Goes(c, Idle) /\ Turn(c)
    BY <2>1 DEF Goes, Finish, Continue, Turn
  <2>3. Calendar' /\ Excusing
    BY <2>1, <1>1, <1>2, SameStanding DEF Calendar
  <2>4. Plain(c)
    BY <1>3, <2>2, <2>3, IdleOp DEF Plain, RollOps
  <2> QED
    BY <2>4, PlainKeeps
<1>5. CASE job.who # {}
  <2>1. PICK w \in job.who : /\ standing' = [standing EXCEPT ![w][day] = @ + 1]
                             /\ Continue(c, [job EXCEPT !.who = job.who \ {w}]) /\ UNCHANGED rolled
    BY <1>5 DEF rollAbsent
  <2>0. PICK k : k = [job EXCEPT !.who = job.who \ {w}]
    OBVIOUS
  <2>2. Fields \subseteq DOMAIN k /\ k.op = "rollAbsent" /\ k.day = day /\ k.who = job.who \ {w}
    BY <2>0, <1>1, <1>2 DEF Fields
  <2>3. Continue(c, k)
    BY <2>0, <2>1
  <2>4. /\ Goes(c, k) /\ Turn(c)
        /\ \A d \in Calls : d # c /\ Running(d) => call[d].op \notin RollOps
    BY <1>1, <1>2, <2>2, <2>3, RollGoes DEF RollOps
  <2>5. \A v \in job.who : standing[v][day] = 0
    BY <1>1 DEF RollsInv
  <2>6. /\ standing' \in [Workers -> [Days -> Nat]]
        /\ \A v \in Workers : \A d \in Days :
             standing'[v][d] = IF v = w /\ d = day THEN 1 ELSE standing[v][d]
    <3>1. standing \in [Workers -> [Days -> Nat]] /\ w \in Workers
      BY <1>2 DEF Rows
    <3>2. standing[w][day] = 0
      BY <2>5
    <3> HIDE DEF day
    <3> QED
      BY <3>1, <3>2, <1>2, <2>1
  <2>7. Calendar' /\ Rows'
    BY <1>1, <1>3, <2>1, <2>6, CalendarKept, RowsStep DEF Recredited
  <2>8. Jobs'
    BY <1>3, <2>4, JobsStep
  <2>9. LogsInv' /\ CreditsInv' /\ ScansInv'
    BY <1>3, <2>2, <2>4, LogsKept, CreditsKept, ScansKept
  <2>10. RollsInv'
    <3>1. AbsentOnce'
      BY <2>6 DEF RollsInv, AbsentOnce
    <3>2. \A v \in k.who : standing'[v][k.day] = 0
      BY <1>2, <2>2, <2>5, <2>6
    <3> QED
      BY <3>1, <3>2, <2>4, RollsAlone
  <2>11. CreditedInv'
    <3>1. ~disturbed => Credited(day)
      BY <1>1 DEF CreditedInv
    <3>2. ~disturbed => Credited(k.day)'
      BY <3>1, <1>1, <2>2 DEF Credited, Approved, Asked, Attended, LogsOn
    <3> QED
      BY <3>2, <2>4, CreditedRolls
  <2> QED
    BY <2>7, <2>8, <2>9, <2>10, <2>11
<1> QED
  BY <1>4, <1>5

LEMMA ListOf ==
  ASSUME NEW S, IsFiniteSet(S)
  PROVE  SetToSeq(S) \in [1..Cardinality(S) -> S] /\ Cardinality(S) \in Nat
<1>1. Cardinality(S) \in Nat /\ ExistsBijection(1..Cardinality(S), S)
  BY FS_CardinalityType
<1>2. PICK f \in Bijection(1..Cardinality(S), S) : TRUE
  BY <1>1 DEF ExistsBijection
<1>3. f \in [1..Cardinality(S) -> S] /\ IsInjective(f)
  BY <1>2 DEF Bijection, Injection, IsInjective
<1> QED
  BY <1>1, <1>3 DEF SetToSeq

LEMMA NightCredits ==
  ASSUME Rows, NEW day \in Days, DOMAIN request \subseteq DOMAIN request',
         credit' = [w \in Workers |-> [e \in Days |-> RolledCredit(w, day, e)]]
  PROVE  /\ Recredited
         /\ \A w \in Workers : Approved(w, day, {DUTY_DAY}) /\ Attended(w, day) => credit'[w][day] # NoCredit
<1>1. ASSUME NEW w \in Workers, NEW e \in Days
      PROVE  /\ RolledCredit(w, day, e) \in CreditRow(DOMAIN request')
             /\ RolledCredit(w, day, e).for = credit[w][e].for
             /\ RolledCredit(w, day, e).state = "USED" <=> credit[w][e].state = "USED"
  <2>1. credit[w][e] \in CreditRow(DOMAIN request)
    BY DEF Rows
  <2>2. \A row \in CreditRow(DOMAIN request) :
          /\ row \in CreditRow(DOMAIN request')
          /\ [row EXCEPT !.state = "EXPIRED"] \in CreditRow(DOMAIN request')
          /\ [row EXCEPT !.state = "EXPIRED"].for = row.for
          /\ [row EXCEPT !.state = "EXPIRED"].state = "EXPIRED"
    BY DEF CreditRow
  <2>3. /\ [NoCredit EXCEPT !.state = "AVAILABLE"] \in CreditRow(DOMAIN request')
        /\ [NoCredit EXCEPT !.state = "AVAILABLE"].for = 0 /\ NoCredit.for = 0
        /\ [NoCredit EXCEPT !.state = "AVAILABLE"].state = "AVAILABLE" /\ NoCredit.state = "NONE"
    BY DEF CreditRow, NoCredit
  <2>4. \/ credit[w][e].state = "AVAILABLE" /\ RolledCredit(w, day, e) = [credit[w][e] EXCEPT !.state = "EXPIRED"]
        \/ credit[w][e] = NoCredit /\ RolledCredit(w, day, e) = [NoCredit EXCEPT !.state = "AVAILABLE"]
        \/ RolledCredit(w, day, e) = credit[w][e]
    BY DEF RolledCredit
  <2> QED
    BY <2>1, <2>2, <2>3, <2>4
<1>2. ASSUME NEW w \in Workers, Approved(w, day, {DUTY_DAY}), Attended(w, day)
      PROVE  RolledCredit(w, day, day) # NoCredit
  <2>1. NoCredit.state = "NONE" /\ [NoCredit EXCEPT !.state = "AVAILABLE"].state = "AVAILABLE"
    BY DEF NoCredit
  <2>2. credit[w][day] \in CreditRow(DOMAIN request)
    BY DEF Rows
  <2>3. \A row \in CreditRow(DOMAIN request) : [row EXCEPT !.state = "EXPIRED"].state = "EXPIRED"
    BY DEF CreditRow
  <2>4. \/ RolledCredit(w, day, day) = [credit[w][day] EXCEPT !.state = "EXPIRED"]
        \/ RolledCredit(w, day, day) = [NoCredit EXCEPT !.state = "AVAILABLE"]
        \/ credit[w][day] # NoCredit /\ RolledCredit(w, day, day) = credit[w][day]
    BY <1>2 DEF RolledCredit
  <2> QED
    BY <2>1, <2>2, <2>3, <2>4
<1> HIDE DEF RolledCredit
<1>3. Recredited
  BY <1>1 DEF Recredited
<1> QED
  BY <1>2, <1>3

LEMMA StaffRolls ==
  ASSUME AttendanceInv, NEW c \in Calls, Running(c), rollStaff(c)
  PROVE  AttendanceInv'
<1> USE DEF AttendanceInv, ShapeInv
<1> DEFINE job == call[c]
           d == job.day
<1>1. /\ job.op = "rollStaff" /\ UNCHANGED <<Clock, log, standing>>
      /\ credit' = [w \in Workers |-> [e \in Days |-> RolledCredit(w, d, e)]]
  BY DEF rollStaff
<1>2. Fields \subseteq DOMAIN job /\ d \in Days
  BY <1>1 DEF Jobs, Formed, About, RollOps
<1>3. PICK people, who :
        /\ people \subseteq Workers /\ who \subseteq Workers
        /\ request' = request \o Stamped([i \in DOMAIN SetToSeq(people) |->
                                            Row(SetToSeq(people)[i], CLAIM, d, "PENDING")])
        /\ Continue(c, [job EXCEPT !.op = "rollSkip", !.then = <<"rollAbsent">>, !.who = who])
  <2>1. PICK busy \in SUBSET {w \in Workers : dayInfo(w, d).duty /\ LogsOn(w, d) = {}} :
          LET asked == SetToSeq({w \in busy : ~Asked(w, d, {CLAIM}, {"PENDING", "APPROVED", "REJECTED"})}) IN
          /\ request' = request \o Stamped([i \in DOMAIN asked |-> Row(asked[i], CLAIM, d, "PENDING")])
          /\ Continue(c, [job EXCEPT !.op = "rollSkip", !.then = <<"rollAbsent">>,
                            !.who = {w \in Workers \ busy : ~ExcusedAtNight(w, d)}])
    BY DEF rollStaff
  <2>2. PICK people : people = {w \in busy : ~Asked(w, d, {CLAIM}, {"PENDING", "APPROVED", "REJECTED"})}
    OBVIOUS
  <2>3. PICK who : who = {w \in Workers \ busy : ~ExcusedAtNight(w, d)}
    OBVIOUS
  <2> QED
    BY <2>1, <2>2, <2>3
<1>4. PICK rows \in Seq(RequestRow({0})) :
        request' = request \o Stamped(rows) /\ \A i \in DOMAIN rows : rows[i].type = CLAIM
  <2> DEFINE rows == [i \in DOMAIN SetToSeq(people) |-> Row(SetToSeq(people)[i], CLAIM, d, "PENDING")]
  <2>1. IsFiniteSet(people)
    BY <1>3, StartDesksAssumption, FS_Subset
  <2>2. SetToSeq(people) \in [1..Cardinality(people) -> people] /\ Cardinality(people) \in Nat
    BY <2>1, ListOf
  <2>3. \A w \in Workers : Row(w, CLAIM, d, "PENDING") \in RequestRow({0}) /\ Row(w, CLAIM, d, "PENDING").type = CLAIM
    BY <1>2, OneRow, RequestTypes DEF Row
  <2>4. rows \in [1..Cardinality(people) -> RequestRow({0})] /\ \A i \in DOMAIN rows : rows[i].type = CLAIM
    BY <2>2, <2>3, <1>3
  <2>5. request' = request \o Stamped(rows)
    BY <1>3
  <2> HIDE DEF rows
  <2>6. rows \in Seq(RequestRow({0}))
    BY <2>2, <2>4
  <2> QED
    BY <2>4, <2>5, <2>6
<1>5. /\ Grown(request, request')
      /\ \A i \in DOMAIN request' :
           \/ i \in DOMAIN request /\ request'[i] = request[i]
           \/ request'[i].type = CLAIM
  <2>1. Rows
    OBVIOUS
  <2>2. request' = request \o Stamped(rows)
    BY <1>4
  <2>3. /\ Grown(request, request')
        /\ \A i \in DOMAIN request' :
             \/ i \in DOMAIN request /\ request'[i] = request[i]
             \/ \E k \in DOMAIN rows : request'[i].type = rows[k].type
    BY <2>1, <2>2, <1>4, MoreRequests, ZenonT(60)
  <2> QED
    BY <2>3, <1>4
<1>6. PICK k : k = [job EXCEPT !.op = "rollSkip", !.then = <<"rollAbsent">>, !.who = who]
  OBVIOUS
<1>7. Fields \subseteq DOMAIN k /\ k.op = "rollSkip" /\ k.day = d /\ k.who = who
  BY <1>2, <1>6 DEF Fields
<1>8. Goes(c, k) /\ Turn(c) /\ \A e \in Calls : e # c /\ Running(e) => call[e].op \notin RollOps
  <2>1. Continue(c, k)
    BY <1>3, <1>6
  <2> QED
    BY <2>1, <1>1, <1>3, <1>7, RollGoes DEF RollOps
<1>9. Relogged(log, log', DOMAIN request', 0) /\ Excusing /\ Calendar'
  BY <1>1, <1>5, SameLogs, SameStanding, CalendarKept DEF Grown, Clock
<1>10. /\ Recredited
       /\ \A w \in Workers : Approved(w, d, {DUTY_DAY}) /\ Attended(w, d) => credit'[w][d] # NoCredit
  BY <1>1, <1>2, <1>5, NightCredits DEF Grown
<1>11. Rows'
  BY <1>5, <1>9, <1>10, RowsStep DEF Recredited, Excusing
<1>12. Jobs'
  BY <1>5, <1>8, JobsStep
<1>13. LogsInv' /\ CreditsInv' /\ ScansInv'
  BY <1>5, <1>7, <1>8, <1>9, <1>10, LogsKept, CreditsKept, ScansKept
<1>14. RollsInv'
  <2>1. AbsentOnce'
    BY <1>9 DEF RollsInv, AbsentOnce, Excusing
  <2> QED
    BY <2>1, <1>7, <1>8, RollsAlone
<1>15. CreditedInv'
  <2>1. ASSUME NEW w \in Workers, Approved(w, k.day, {DUTY_DAY})' PROVE Approved(w, d, {DUTY_DAY})
    BY <2>1, <1>5, <1>7 DEF Approved, Asked, DUTY_DAY, CLAIM
  <2>2. ASSUME NEW w \in Workers, Attended(w, k.day)' PROVE Attended(w, d)
    BY <2>2, <1>1, <1>7 DEF Attended, LogsOn
  <2>3. Credited(k.day)'
    BY <2>1, <2>2, <1>7, <1>10 DEF Credited
  <2> QED
    BY <2>3, <1>8, CreditedRolls
<1> QED
  BY <1>9, <1>11, <1>12, <1>13, <1>14, <1>15

-----------------------------------------------------------------------------
(* All steps.                                                               *)

LEMMA CommitKeeps ==
  ASSUME AttendanceInv, NEW c \in Calls, Running(c), Commits(c)
  PROVE  AttendanceInv'
<1>1. CASE insert(c) \/ siblings(c) \/ openDuty(c)
  BY <1>1, RequestCommits, PlainKeeps
<1>2. CASE claim(c)
  BY <1>2, ClaimKeeps
<1>3. CASE findLog(c)
  BY <1>3, FindKeeps
<1>4. CASE fullDay(c)
  BY <1>4, FullDayKeeps
<1>5. CASE useCredit(c)
  BY <1>5, CreditKeeps
<1>6. CASE correctLog(c) \/ remark(c) \/ review(c)
  BY <1>6, MarkCommits, PlainKeeps
<1>7. CASE earn(c) \/ recheck(c) \/ loseCredit(c)
  BY <1>7, DeskCommits, PlainKeeps
<1>8. CASE stampIn(c) \/ stampOut(c) \/ kioskOut(c)
  BY <1>8, CheckCommits, PlainKeeps
<1>9. CASE kioskIn(c)
  BY <1>9, KioskCommits, PlainKeeps
<1>10. CASE rollClose(c)
  BY <1>10, RollCloses, PlainKeeps
<1>11. CASE rollStaff(c)
  BY <1>11, StaffRolls
<1>12. CASE rollSkip(c)
  BY <1>12, SkipKeeps
<1>13. CASE rollAbsent(c)
  BY <1>13, AbsentKeeps
<1>14. CASE Abandon(c) /\ UNCHANGED attendance
  <2>1. UNCHANGED <<request, log, credit, standing>> /\ UNCHANGED Clock
    BY <1>14 DEF attendance, Clock
  <2> QED
    BY <1>14, <2>1, NothingWritten, Ended, PlainKeeps
<1> QED
  BY <1>1, <1>2, <1>3, <1>4, <1>5, <1>6, <1>7, <1>8, <1>9, <1>10, <1>11, <1>12, <1>13, <1>14 DEF Commits

\* The night, the clock, and nothing at all.
LEMMA QuietKeeps ==
  ASSUME AttendanceInv, UNCHANGED <<running, request, log, credit>>, Calendar', Excusing
  PROVE  AttendanceInv'
<1> USE DEF AttendanceInv, ShapeInv, running
<1>1. Rows'
  BY DEF Rows, Excusing
<1>2. Jobs'
  BY DEF Jobs, Running
<1>3. LogsInv'
  BY DEF LogsInv, CarriedOutOnce, Logging, Running
<1>4. CreditsInv'
  BY DEF CreditsInv, Spending, Running
<1>5. ScansInv'
  BY DEF ScansInv, OneScanADay
<1>6. RollsInv'
  <2>1. AbsentOnce'
    BY DEF RollsInv, AbsentOnce, Excusing
  <2>2. ASSUME NEW c \in Calls, Running(c), call[c].op = "rollAbsent"
        PROVE  \A w \in call[c].who : standing'[w][call[c].day] = 0
    <3>1. call[c].who \subseteq Workers /\ call[c].day \in Days
      BY <2>2 DEF Jobs, Formed, About
    <3> QED
      BY <3>1, <2>2 DEF RollsInv, Excusing
  <2> QED
    BY <2>1, <2>2 DEF RollsInv, Running
<1>7. CreditedInv'
  BY DEF CreditedInv, Running, Credited, Approved, Asked, Attended, LogsOn
<1> QED
  BY <1>1, <1>2, <1>3, <1>4, <1>5, <1>6, <1>7

LEMMA NextKeeps ==
  ASSUME AttendanceInv, [Next]_vars
  PROVE  AttendanceInv'
<1> USE DEF AttendanceInv, ShapeInv
<1>1. ASSUME NEW c \in Idling, (\E w \in Workers : Requests(c, w)) \/ (\E h \in HR : Management(c, h))
      PROVE  AttendanceInv'
  <2>1. c \in Calls /\ Plain(c)
    BY <1>1, StaffRequests, ManagementRequests DEF Idling
  <2> QED
    BY <2>1, PlainKeeps
<1>2. ASSUME NEW c \in Calls, call[c] # Idle, Commits(c)
      PROVE  AttendanceInv'
  BY <1>2, CommitKeeps DEF Running
<1>3. ASSUME NEW c \in Idling, dailyAttendanceRollupJob(c) \/ runMissedDailyRollup(c)
      PROVE  AttendanceInv'
  <2>1. today \in Days /\ (today > 1 => today - 1 \in Days)
    BY AttendanceAssumption DEF Calendar, Days
  <2> QED
    BY <1>3, <2>1, RollupKeeps DEF dailyAttendanceRollupJob, runMissedDailyRollup
<1>4. CASE nightlyRecheck
  <2>1. UNCHANGED <<running, request, log, credit>> /\ UNCHANGED <<today, hour, weeklyOff, holidays, rolled>>
    BY <1>4 DEF nightlyRecheck, Clock
  <2>2. Excusing
    BY <1>4 DEF nightlyRecheck, recheckAbsences, Rows, Excusing
  <2> QED
    BY <2>1, <2>2, CalendarKept, QuietKeeps
<1>5. CASE Tick
  <2>1. UNCHANGED <<running, request, log, credit, standing>>
    BY <1>5 DEF Tick, desk
  <2>2. Calendar'
    BY <1>5, AttendanceAssumption DEF Tick, Calendar, Days, desk
  <2> QED
    BY <2>1, <2>2, SameStanding, QuietKeeps
<1>6. CASE UNCHANGED vars
  BY <1>6, CalendarKept, SameStanding, QuietKeeps DEF vars, attendance
<1> QED
  BY <1>1, <1>2, <1>3, <1>4, <1>5, <1>6 DEF Next

LEMMA StartsWell ==
  ASSUME Init
  PROVE  AttendanceInv
<1>1. PICK s \in StartDesks :
        /\ today = s.today /\ weeklyOff = s.off /\ holidays = s.holidays
        /\ request = s.request /\ log = s.log /\ credit = s.credit
  BY DEF Init, AttendanceInit
<1>2. /\ call = [c \in Calls |-> Idle] /\ disturbed = FALSE /\ hour = "MORNING"
      /\ standing = [w \in Workers |-> [d \in Days |-> 0]] /\ rolled = {}
  BY DEF Init, HandlersInit, AttendanceInit
<1>3. /\ today \in Days /\ weeklyOff \in [Workers -> Days \cup {0}] /\ holidays \subseteq Days
      /\ request \in Seq(RequestRow(Nat)) /\ \A i \in DOMAIN request : request[i].batch \in 1..i
      /\ log \in Seq(LogRow({})) /\ credit \in [Workers -> [Days -> CreditRow({})]]
  BY <1>1, StartDesksAssumption
<1>4. /\ \A i, j \in DOMAIN log :
          
           /\ i # j /\ log[i].source = "QR_SCAN" /\ log[j].source = "QR_SCAN"
              => log[i].who # log[j].who \/ log[i].day # log[j].day
      /\ \A w \in Workers, d \in Days : credit[w][d].state # "USED"
  BY <1>1, StartDesksAssumption
<1>5. \A i \in DOMAIN log : log[i] \in LogRow({}) /\ log[i].by = 0
  BY <1>3, LogRows
<1>6. \A w \in Workers : \A d \in Days : credit[w][d] \in CreditRow({}) /\ credit[w][d].for = 0
  <2>1. \A row \in CreditRow({}) : row.for = 0
    BY DEF CreditRow
  <2> QED
    BY <2>1, <1>3
<1>7. \A c \in Calls : ~Running(c)
  BY <1>2 DEF Running
<1>8. Rows
  <2>1. log \in Seq(LogRow(DOMAIN request))
    <3>1. \A i \in DOMAIN log : log[i] \in LogRow(DOMAIN request)
      BY <1>5, LogGrows
    <3>2. log \in [1..Len(log) -> LogRow(DOMAIN request)] /\ Len(log) \in Nat
      BY <3>1, <1>3
    <3> QED
      BY <3>2
  <2>2. credit \in [Workers -> [Days -> CreditRow(DOMAIN request)]]
    <3>1. CreditRow({}) \subseteq CreditRow(DOMAIN request)
      BY DEF CreditRow
    <3> QED
      BY <3>1, <1>3
  <2> QED
    BY <2>1, <2>2, <1>2, <1>3 DEF Rows
<1>9. Calendar /\ Jobs
  BY <1>2, <1>3, <1>7 DEF Calendar, Jobs
<1>10. LogsInv
  BY <1>5, <1>7 DEF LogsInv, CarriedOutOnce, Logging
<1>11. CreditsInv
  BY <1>4, <1>6, <1>7 DEF CreditsInv, Spending
<1>12. ScansInv
  BY <1>4 DEF ScansInv, OneScanADay
<1>13. RollsInv /\ CreditedInv
  BY <1>2, <1>7 DEF RollsInv, AbsentOnce, CreditedInv
<1> QED
  BY <1>8, <1>9, <1>10, <1>11, <1>12, <1>13 DEF AttendanceInv, ShapeInv

-----------------------------------------------------------------------------
(* The theorems.                                                            *)

\* The inductive invariant: every handler has a job its code could have left it with, what a
\* handler carries out was decided and is carried out by nobody else, and one rollup runs at
\* a time, which has credited the day's duty before it holds anybody absent.
THEOREM AttendanceInvariant == Spec => []AttendanceInv
<1>1. Init => AttendanceInv
  BY StartsWell
<1>2. AttendanceInv /\ [Next]_vars => AttendanceInv'
  BY NextKeeps
<1> QED
  BY <1>1, <1>2, PTL DEF Spec


\* Every row and every date stays what the database and the code let it be.
THEOREM TypeCorrect == Spec => []TypeOK
<1>1. AttendanceInv => TypeOK
  <2> SUFFICES ASSUME AttendanceInv PROVE TypeOK
    OBVIOUS
  <2> USE DEF AttendanceInv, ShapeInv
  <2>1. ASSUME NEW i \in DOMAIN request PROVE request[i] \in RequestRow(1..i)
    <3>1. request[i] \in RequestRow(Nat) /\ request[i].batch \in 1..i
      BY RequestRows DEF Rows
    <3> QED
      BY <3>1 DEF RequestRow
  <2>2. \A i \in DOMAIN log : log[i] \in LogRow(DOMAIN request)
    BY LogRows DEF Rows
  <2> QED
    BY <2>1, <2>2 DEF TypeOK, Rows, Calendar
<1> QED
  BY <1>1, AttendanceInvariant, PTL

\* A request makes one attendance row at most and uses up one comp-off day at most, however
\* many people decide it at the same moment and whichever of the two desks they sit at (the
\* conditional updates of routes/attendance/duty.ts and proposals.ts).
THEOREM RequestsCorrect == Spec => []RequestsCarriedOutOnce
<1>1. AttendanceInv => RequestsCarriedOutOnce
  <2> SUFFICES ASSUME AttendanceInv PROVE CarriedOutOnce /\ OneCreditPerCompOff
    BY DEF RequestsCarriedOutOnce
  <2>1. CarriedOutOnce
    BY DEF AttendanceInv, LogsInv
  <2>2. OneCreditPerCompOff
    BY DEF AttendanceInv, CreditsInv, OneCreditPerCompOff
  <2> QED
    BY <2>1, <2>2
<1> QED
  BY <1>1, AttendanceInvariant, PTL

\* One scanned record for an employee and day, and one absence: also when two kiosks scan the
\* same badge, and when a rollup that stopped half-way is run again on the next start.
THEOREM RecordsCorrect == Spec => []OneRecordADay
<1>1. AttendanceInv => OneRecordADay
  BY DEF AttendanceInv, ScansInv, RollsInv, OneRecordADay
<1> QED
  BY <1>1, AttendanceInvariant, PTL

\* A check-out forgotten on an earlier day costs its employee nothing: the kiosk records the
\* day of the scan whatever was left open, and a later check-out leaves the forgotten record
\* to its own midnight (POST /scan and /checkout of routes/attendance/qr.ts).
THEOREM CheckOutsCorrect == Spec => ForgottenCostsNothing
<1>1. ASSUME AttendanceInv, NEW c \in Calls, kioskIn(c)
      PROVE  \E i \in DOMAIN log' : /\ log'[i].who = Who(call[c]) /\ log'[i].day >= call[c].day
                                    /\ log'[i].source # "DELETED"
  <2> DEFINE w == Who(call[c])
             d == call[c].day
  <2>1. Running(c) /\ call[c].op = "kioskIn"
    BY <1>1, IdleOp DEF kioskIn, Running
  <2>2. w \in Workers /\ d \in Days /\ Days \subseteq Nat
    BY <1>1, <2>1, WhoAndDay, DaysAreNat DEF RollOps
  <2>3. log \in Seq(LogRow(DOMAIN request))
    BY <1>1 DEF AttendanceInv, ShapeInv, Rows
  <2>0. PICK open :
          /\ open \in IF OpenLogs(w) = {} THEN {{}} ELSE {{i} : i \in Latest(OpenLogs(w))}
          /\ LET stale == {i \in open : Stale(i, d)}
                 closed == [i \in DOMAIN log |-> IF i \in stale THEN [log[i] EXCEPT !.out = "MIDNIGHT"] ELSE log[i]]
             IN IF open \ stale # {} \/ HasRecord(w, d)
                THEN log' = closed /\ Finish(c)
                ELSE /\ log' = Append(closed, Log(w, d, "QR_SCAN", call[c].from = 1))
                     /\ Done(c)
    BY <1>1 DEF kioskIn
  <2> DEFINE stale  == {i \in open : Stale(i, d)}
             closed == [i \in DOMAIN log |-> IF i \in stale THEN [log[i] EXCEPT !.out = "MIDNIGHT"] ELSE log[i]]
  <2>4. IF open \ stale # {} \/ HasRecord(w, d)
        THEN log' = closed ELSE log' = Append(closed, Log(w, d, "QR_SCAN", call[c].from = 1))
    BY <2>0
  <2>5. /\ closed \in Seq(LogRow(DOMAIN request)) /\ DOMAIN closed = DOMAIN log
        /\ \A i \in DOMAIN log : /\ closed[i].who = log[i].who /\ closed[i].day = log[i].day
                                 /\ closed[i].source = log[i].source
    <3>1. \A i \in DOMAIN log : log[i] \in LogRow(DOMAIN request)
      BY <2>3, LogRows
    <3>2. ASSUME NEW i \in DOMAIN log
          PROVE  /\ closed[i] \in LogRow(DOMAIN request)
                 /\ closed[i].who = log[i].who /\ closed[i].day = log[i].day
                 /\ closed[i].source = log[i].source
      BY <3>1 DEF LogRow
    <3>3. DOMAIN closed = DOMAIN log /\ DOMAIN log = 1..Len(log) /\ Len(log) \in Nat
      BY <2>3
    <3> HIDE DEF closed
    <3>4. closed \in [1..Len(log) -> LogRow(DOMAIN request)]
      <4>1. closed = [i \in DOMAIN log |-> closed[i]]
        BY DEF closed
      <4> QED
        BY <3>2, <3>3, <4>1
    <3> QED
      BY <3>2, <3>3, <3>4
  <2> HIDE DEF closed
  <2>6. ASSUME NEW i \in open, i \notin stale
        PROVE  i \in DOMAIN log /\ log[i].who = w /\ log[i].day >= d /\ log[i].source # "DELETED"
    <3>1. i \in OpenLogs(w)
      BY <2>0, <2>6 DEF Latest
    <3>2. i \in DOMAIN log /\ log[i].who = w /\ log[i].source # "DELETED" /\ log[i].day \in Nat
      BY <2>2, <2>3, <3>1, LogRows DEF OpenLogs
    <3>3. d \in Nat /\ ~(log[i].day < d)
      BY <2>2, <2>6 DEF Stale
    <3> QED
      BY <3>2, <3>3
  <2>7. CASE open \ stale # {}
    BY <2>4, <2>5, <2>6, <2>7
  <2>8. CASE HasRecord(w, d)
    <3>1. PICK i \in DOMAIN log : log[i].who = w /\ log[i].day = d /\ log[i].source # "DELETED"
      BY <2>8 DEF HasRecord, LogsOn
    <3>2. log' = closed /\ d \in Nat
      BY <2>2, <2>4, <2>8
    <3> QED
      BY <2>5, <3>1, <3>2
  <2>9. CASE log' = Append(closed, Log(w, d, "QR_SCAN", call[c].from = 1))
    <3> DEFINE row == Log(w, d, "QR_SCAN", call[c].from = 1)
    <3>1. row.who = w /\ row.day = d /\ row.source # "DELETED"
      BY DEF Log
    <3>2. log' = Append(closed, row)
      BY <2>9
    <3> HIDE DEF row
    <3>3. Len(closed) + 1 \in DOMAIN log' /\ log'[Len(closed) + 1] = row
      BY <2>5, <3>2
    <3>4. d \in Nat
      BY <2>2
    <3> QED
      BY <3>1, <3>3, <3>4
  <2> QED
    BY <2>4, <2>7, <2>8, <2>9
<1>2. ASSUME AttendanceInv, NEW c \in Calls, kioskOut(c), NEW i \in DOMAIN log,
             log[i].out = "OPEN", log'[i].out = "SAME_DAY"
      PROVE  log[i].day >= call[c].day
  <2>1. Running(c) /\ call[c].op = "kioskOut"
    BY <1>2, IdleOp DEF kioskOut, Running
  <2>2. call[c].day \in Nat /\ log[i].day \in Nat
    BY <1>2, <2>1, WhoAndDay, DaysAreNat, LogRows DEF RollOps, AttendanceInv, ShapeInv, Rows
  <2>3. PICK j : log' = [log EXCEPT ![j].out = IF Stale(j, call[c].day) THEN "MIDNIGHT" ELSE "SAME_DAY"]
    BY <1>2 DEF kioskOut
  <2>4. log \in Seq(LogRow(DOMAIN request)) /\ log[i] \in LogRow(DOMAIN request)
    BY <1>2, LogRows DEF AttendanceInv, ShapeInv, Rows
  <2>5. i = j /\ ~Stale(i, call[c].day)
    BY <1>2, <2>3, <2>4 DEF LogRow
  <2> QED
    BY <2>2, <2>5 DEF Stale
<1>3. AttendanceInv /\ [Next]_vars =>
        \A c \in Calls :
          /\ kioskIn(c) => \E i \in DOMAIN log' : /\ log'[i].who = Who(call[c]) /\ log'[i].day >= call[c].day
                                                /\ log'[i].source # "DELETED"
          /\ kioskOut(c) => \A i \in DOMAIN log : log[i].out = "OPEN" /\ log'[i].out = "SAME_DAY"
                                                 => log[i].day >= call[c].day
  BY <1>1, <1>2
<1> QED
  BY <1>3, AttendanceInvariant, PTL DEF Spec, ForgottenCostsNothing

\* Only the end of a rollup writes its DONE event.
LEMMA DoneLast ==
  ASSUME [Next]_vars, rolled' # rolled
  PROVE  \E c \in Calls : /\ Running(c) /\ call[c].op = "rollAbsent"
                          /\ rolled' = rolled \cup {call[c].day} /\ UNCHANGED <<request, log, credit>>
<1>1. ASSUME NEW c, NEW w, Requests(c, w) PROVE FALSE
  BY <1>1 DEF Requests, dutyRequest, compOffRequest, claimRequest, lateProposal, fieldWorkProposal,
              earlyLogoutProposal, wfhProposal, swapRequest, leaveProposal, selfieCheckIn, wfhCheckIn,
              wfhCheckOut, scan, checkout, Ask, ReadOnly, attendance
<1>2. ASSUME NEW c, NEW h, Management(c, h) PROVE FALSE
  BY <1>2 DEF Management, decide, approveProposal, rejectProposal, decideProposal, assignDuty, setWeeklyOff,
              wfhGrant, reviewProof, adminEdit, adminDelete, adminCreate, addHoliday, deleteHoliday,
              Ask, ReadOnly, attendance, Clock
<1>3. ASSUME NEW c, Commits(c) PROVE rollAbsent(c)
  BY <1>3 DEF Commits, insert, claim, siblings, useCredit, findLog, fullDay, correctLog, remark, earn,
              recheck, stampIn, stampOut, review, loseCredit, kioskIn, openDuty, kioskOut, rollClose,
              rollStaff, rollSkip, ReadOnly, attendance, Clock
<1>4. ~(\E c \in Idling : dailyAttendanceRollupJob(c) \/ runMissedDailyRollup(c))
  BY DEF dailyAttendanceRollupJob, runMissedDailyRollup, rollup, attendance
<1>5. ~nightlyRecheck /\ ~Tick /\ ~UNCHANGED vars
  BY DEF nightlyRecheck, Tick, vars, Clock, attendance
<1>6. PICK c \in Calls : call[c] # Idle /\ rollAbsent(c)
  BY <1>1, <1>2, <1>3, <1>4, <1>5 DEF Next
<1> QED
  BY <1>6 DEF rollAbsent, Running

\* When nothing overlapped with a rollup and nothing stopped half-way, its DONE event says
\* that every approved duty day that was worked has its comp-off credit
\* (dailyAttendanceRollupJob, creditCompOffIfEarned).
THEOREM DutyCorrect == Spec => RollupCreditsDuty
<1>1. AttendanceInv /\ [Next]_vars =>
        \A d \in rolled' \ rolled : ~disturbed =>
          \A w \in Workers : Approved(w, d, {DUTY_DAY}) /\ Attended(w, d) => credit'[w][d] # NoCredit
  <2> SUFFICES ASSUME AttendanceInv, [Next]_vars, NEW d \in rolled' \ rolled, ~disturbed,
                      NEW w \in Workers, Approved(w, d, {DUTY_DAY}), Attended(w, d)
               PROVE  credit'[w][d] # NoCredit
    OBVIOUS
  <2>1. PICK c \in Calls : /\ Running(c) /\ call[c].op = "rollAbsent"
                           /\ rolled' = rolled \cup {call[c].day} /\ UNCHANGED <<request, log, credit>>
    BY DoneLast
  <2>2. d = call[c].day
    BY <2>1
  <2>3. Credited(d)
    BY <2>1, <2>2 DEF AttendanceInv, CreditedInv
  <2> QED
    BY <2>1, <2>3 DEF Credited
<1> QED
  BY <1>1, AttendanceInvariant, PTL DEF Spec, RollupCreditsDuty
=============================================================================
