# RS-CRMS: a TLA+ model of a real-estate CRM

RS-CRMS is the CRM of a real-estate group: an Express / Prisma server over MySQL
in which leads become site visits, opportunities and bookings of a unit or a
property, bookings are paid for and approved, and what happens to them is
reported to a customer portal. Around that it keeps the listings and projects
that are for sale, and the working days, tasks, expenses and sign-ins of the
staff. This directory models the parts of it that keep state worth being wrong
about, checks them with TLC and proves the most important facts with TLAPS.

Contents: 1 inventory of the system; 2 plan; 3 how the modules correspond to the
code; 4 the runs; 5 bounds; 6 fairness; 7 what is proved; 8 where the code and
its comments disagree; 9 what is not modelled.

## 1. The system

### How it runs

- One Node process serves every request. A handler is a chain of `await`s, so two
  requests interleave between any two database calls, and nowhere else.
- MySQL InnoDB at REPEATABLE READ (only two routes, both in
  `routes/attendance/qr.ts`, ask for SERIALIZABLE). A transaction's plain SELECTs
  see the snapshot of its first read; `UPDATE ... WHERE id = ?` writes the newest
  row whatever the snapshot said; `updateMany` with more conditions is a compare
  and set; `SELECT ... FOR UPDATE` reads and locks the newest row. Most hazards of
  this system come from the difference between these four.
- `node-cron` jobs (`jobs/scheduler.ts`) run in the same process, without a guard
  against a run overlapping the previous one or a second server.
- The portal worker (`services/portalWorker.ts`) is a loop in the same process,
  off by default, one event at a time.
- The repository has no tests. Its comments, error messages and schema comments
  are the only statement of what is intended, and section 8 quotes them.

### Components

| Component | Module | State it keeps | Operations | What makes it correct |
|---|---|---|---|---|
| Bookings and locks | `Bookings`, `Sales` | booking rows; state, owner and expiry of unit and property rows | create, initiate, form, token, confirm, approve, reject, cancel, complete; sweep; unit status and edit; archive | one owner per item, rows agree, a lock that ran out ends, a confirmed booking is handed over once |
| Payments | `Payments` | payment and instalment rows, booking balance | record, verify, refund, cancel | ledger sums, no lost or double collection, refunds final and told |
| Portal outbox | `PortalOutbox` | events, mappings, `sync_status` | emit, find, claim, send, retry, give up, callbacks | one loop per event, order, bounded retries, one activation, progress |
| Lead workflow | `LeadWorkflow`, `Leads` | lead rows, call-backs, call days | claim, assign, status, log a call, transfer, batch, upload, enquiry, three recoveries | a free lead is claimed once, a dropped one returns at most once, call-backs go with the lead |
| Site visits | `SiteVisits` | visits and their properties, reassignments, escalations, feedback, attendance | book, accept, route, reconfirm, reschedule, start, complete, hold, cancel, direct, walk-in, escalate | a visit happens once, no deal without a visit, a visit nobody runs is escalated |
| Listings | `Listings` | property rows, photos, publication | enter, verify, locate, polish, approve, reject, publish, reassign, delete, photos | only located property is past the PM, one primary photo |
| Projects and units | `Projects`, `ProjectFiles` | project and unit rows, rules, amenities, updates, change log; site plans and their pins, media, documents | life cycle, units, bulk creation, rules, amenities, updates; upload, pin, cover, visibility, deletion of files | units shown with their project, every change on record, no news twice; one cover, no pin without its plan |
| Stored prices | `Pricing` | price lines of an item | recalculate, persist, manual lines | never stale |
| Opportunities and demos | `Deals` | opportunities, demos, the lead's stage, bookings | create, edit, convert; accept, reassign, complete, cancel a demo | converted once |
| Attendance | `Attendance` | logs, requests, comp-off credits, absences, rollup marks | scan, work from home, request, decide, correct, roll up, recheck | a request is carried out once, one record a day, duty days credited |
| Expense refunds | `Expenses` | refund rows and their audit | claim, review, approve, pay | paid only on two approvals, neither the claimant's |
| Complaints, tasks | `Complaints`, `WorkTasks` | rows, notices, points | open, assign, resolve, close, reopen; finish, review, overdue | closed once resolved, one point per task |
| Leavers | `Employees` | employee rows, who owns the open work | notice, withdraw, resign, terminate, last day, hand over, status | work handed on or management told |
| Sign-ins | `SignIns` | refresh keys | log in, refresh, sign out, revoke, clean up | a key is used once |
| Master data | `MasterLeads` | uploaded numbers, daily leads | upload in slices, assign, take back | the counters are those of the rows |

Interactions: a booking takes the lock of an item in its own transaction;
cancelling a booking releases the lock and flags its payments; confirming it
writes the outbox event and the mapping; verifying a payment changes instalments,
balance and the outbox together; the worker and the portal's callbacks move the
mapping and `sync_status`; the sweep cancels bookings and frees items behind
everyone's back; admins edit the same unit rows. Opportunities convert into
bookings and move the lead; so do demos, visits and calls. A unit's edit changes its
stored price; a project's approval publishes its units. Leaving the company revokes
sign-ins and moves leads.

`PROJECT.json` lists every component with its sources and status, and the hazards
of the code at the line where each bites.

### What is hard here

- State read before a transaction and written by id inside it. This is how almost
  every handler is written, so almost every check can be stale when it counts.
- Locks that expire while somebody still decides on the booking that owns them.
- Two transactions in one operation (approve then confirm; event then mapping;
  form then lock), and what is left when the second one fails.
- An outbox whose receiver answers late, twice, or not at all.

## 2. Plan

Done, in this order: `Sales` and `Bookings`; `Payments`; `PortalOutbox`; the lead's
workflow and `Leads`; `SiteVisits` on the same workflow; `Catalogue` (listings,
projects, their files, prices); `Attendance`; `Office` (deals, expenses, complaints,
tasks, leavers, sign-ins, master data). Then the proofs, which by now cover every safety and
action property that a run checks, and the refinement of `Sales` (section 7).

Left to prove: only liveness, which the prover does not reach. Left to model: the
composition of `Leads` with `SiteVisits`, which now share only the transition engine;
customers' KYC; two-factor and kiosk sign-in; the day plan.

## 3. Modules and code

Every module says in its header which files it models. A handler is split
exactly where it awaits a database call whose result it uses later:

- *read*: the handler's checks on rows it read outside a transaction (its guard is
  all its early returns), leaving in `proc` what it will act on;
- *begin*: the transaction's first read, which fixes what its plain reads see;
- *commit*: every write of the transaction, decided on what was read, applied to
  the rows as they are now.

A refusal that depends on data the model leaves out (permission, KYC, 404, a
project on hold) is the possibility to stop there. Operators called `X_Y` are
mutants of `X`, used only to show that a property notices the mistake `Y`.

### Bookings, Sales

| Model | Code |
|---|---|
| `item` | `property.status` / `project_units.sales_status`, `locked_until`, `hold_until`, `locked_by_booking_id`. Names are the unit's; of a property LIVE is AVAILABLE, LOCKED is RESERVED, ARCHIVED is WITHDRAWN |
| `booking`, `money` | `booking.status`, `form_status`, its item; whether it has a payment that is not FAILED |
| `mapped`, `handoffs` | the BookingPortalMapping row, the number of BOOKING_PORTAL_HANDOFF events |
| `CreateBooking`, `InitiateBooking` | `claimAndCreate` and `initiateBooking`; atomic because they read the item FOR UPDATE |
| `ReadTokenReceived`, `ReadCompleted`, `WriteStatus` | `updateBookingStatus` |
| `ReadForm`, `SubmitForm`, `ExtendLock` | `submitBookingForm`, whose two updates are separate |
| `ReadForConfirm`, `BeginTx`, `CommitConfirm`, `RollbackTx` | `confirmBooking` with `markInventoryBooked` and the handoff |
| `ReadForApprove`, `ApproveForm`, `ReadForApprovedConfirm`, `RevertForm` | `mdApproveBooking`: the form, then the whole confirmation, then the revert |
| `ReadForCancel`, `ReadForReject`, `CommitCancel` | `cancelBooking`, `mdRejectBooking`, with `releaseInventoryLock` |
| `ReadForPayment`, `RecordPayment`, `PaymentFailed` | what payments mean to a booking: the sweep spares one that has money |
| `SetStatus`, `EditUnit`, `Archive` | `changeStatus`, `updateUnit`, `archiveProperty` |
| `SweepList` ... `SweepReleaseHolds` | `inventoryLockAndHoldExpirySweepJob`, one transaction per row |
| `LockExpires`, `HoldExpires`, `Crash` | time and the death of the process |

All interleavings are behaviours of `Bookings`. Several of the properties one would want fail when
a request, or the sweep, acts on what it read before somebody else's write (section 8). The history
`overtaken` records exactly that: an item is in it once a step has changed its row, one of its
bookings or their money while a reader of it, which has not acted yet, was waiting (`Waits`,
`Undisturbed`). It is not read by any action. The properties in question are stated of the other items (`Intact`): there
requests may be in flight together as long as nobody writes under another's read.

`Sales` is what the component promises: an item is sold to one open booking at a
time and comes back only when that booking is closed. `Bookings` implements it
under the mapping at the end of the module.

### Payments

One booking's money: `payment`, `inst`, `balance`, `cancelled`; `told` is the
status the last outbox event reported for a payment or an instalment, `successes`
counts a payment's SUCCESS events. `ReadForRecord`/`RecordPayment` are
`recordPayment`; `ReadPayment` (the payment), `ReadBooking` (the booking its
`include` fetches, then the checks), `BeginVerify` and `CommitVerify` are
`verifyPayment`, whose four cases are the four disjuncts of `CommitVerify`:
`Collect` and `GiveBack` for a payment on an instalment, `MoveBalance` for a
direct one, `NoMoneyMoves` for the rest. `overlapped` records that two requests have
been in flight at once, `undercut` the instalments on which a refund has run together with another
verification, whose collection it may erase (section 8); the properties that need neither to
happen say so. `ReadForCancel`/`BeginCancel`/
`CommitCancel` are the payment part of cancelling.

### PortalOutbox

`events` are the IntegrationEvent rows in the order of `created_at`. An event can
be seen once its transaction commits; events about one payment, or about one
instalment (their transactions conflict on its row), are committed in that order,
so the model appends them as they are written. `Find`, `Claim`, `Send` and what
follows the answer (`Complete`, `Refuse`, `RetryOrGiveUp`, `UpdateMapping`) are
`processNextEvent` and the handlers of the four event types, which differ in the
rows they touch afterwards: a handoff moves its mapping, the others touch none, and
KYC and instalment events are one kind, STATUS. `ReadMapping`/`Activate`,
`PaymentSynced` and `CallbackFailed` are the callbacks. The portal is outside
`src/`: `Send` lets it accept, refuse, lose the request or the answer, or answer with something
that cannot be read, which the worker takes for a refusal (`unreadable` remembers those events for the properties); and it
may call back about anything it has received at any time, any number of times.

### LeadWorkflow, Leads

`LeadWorkflow` is `workflows/lead.workflow.ts`: `transitionMatrix`, and the guards of
`StageGuard` on what the engine may be shown of the other tables (`Contexts`). `Leads`
is `services/lead/`: `call[c]` is what a running handler has read and still has to
write; `X(c, ...)` is the read half of handler `X` and `XTx(c)` (or `XUpdate`) its
transaction; `Abandon` a handler that fails or is refused. The routes' permission
checks are guards (`PostLead` ... `PatchStatus`). `claims` and `inventory` only count, for the
properties.

### SiteVisits

All of `services/siteVisit/` and its routes, the escalation job and the feedback. Names
are the services' own; `Tx` marks the write half. The visit's cascade on the lead
(`updateLeadStatus`) goes through `LeadWorkflow`. `Permitted` is the seeded role table.
`completions` remembers, for the properties, each completion and whether it asked the customer for feedback.

### Handlers, Pricing, Listings, Projects, Catalogue

`Handlers` is how the remaining modules run a request: `Begin` (read, check), `Continue`
and `Done` (the next await), `Serve` (everything in one statement or transaction),
`Abandon` (it stops half-way). `disturbed` remembers whether two handlers ever
overlapped or one stopped: a property that is promised only for handlers one after the
other says `Undisturbed`.

`Listings` is `property.service.ts`, `routes/properties/`; `Projects` is
`project.service.ts`, `projectUnit.service.ts`, `amenity.service.ts`,
`pricing/rules.service.ts`, `projectUpdate.service.ts`, `projectChangeLog.ts` and
`routes/projects/`; `ProjectFiles` is a project's site plans, media and
documents (`routes/projects/`, `project.service.ts`); `Pricing` the recalculation they both call. A stored amount is the version of the fields it was computed from, so a
forgotten or overtaken recalculation shows as a difference of versions. `Catalogue`
composes them: `part` says which of them a behaviour is about, since they share no
row.

### Attendance

`routes/attendance/`, `routes/admin/attendance.ts`, the kiosk's scans, `services/absenceRecheck.ts` and the
rollup of `jobs/tasks.ts`. A day has a morning and an evening; `today` and `hour` move on by
themselves. `request` are the AttendanceProposal rows, whose types share one table of
decisions; `standing[w][d]` counts the absences held against `w` for day `d`.

### Office

`Deals` (`opportunity.service.ts`, `demo.service.ts`), `Expenses`, `Complaints`,
`WorkTasks`, `Employees` (`employeeOffboard.service.ts`, `routes/employees/`), `SignIns`
(`routes/auth.ts`) and `MasterLeads` (`services/lead/masterLeads.ts`, with its client,
which repeats a slice after a timeout). They share the way handlers run and no row;
`Office` composes them by `part`, as `Catalogue` does, and `Share` gives each part the
number of requests its longest story needs.

## 4. Runs

| Run | Question |
|---|---|
| `booking_intact` | do item rows and booking rows agree after any sequence of operations, two of them in flight on one item or on two, until a reader of an item is overtaken (`ConfirmedOwnsItem`, `RowsAgree`), is no decision undone (`DecisionsStay`: a cancelled booking stays so, the sweep spares a committed one, a lock passes on only when it ran out, only the MD cancels a confirmed one), and is every behaviour one of `Sales` (`ImplementsSales`)? |
| `booking_races` | overlapping decisions and submissions, with a crash: is the handoff written exactly once per confirmed booking, and is an approved form's booking confirmed? |
| `booking_sweep` | does the sweep resolve every expired lock and hold, although its row transactions may fail (`ExpiredLocksResolved`)? |
| `payment_ledger` | however verifications overlap, is an instalment never over-collected, and has it received at least what its payments add up to unless a refund overlapped another verification on it (`InstalmentsSound`, `NoCollectionLost`); while none overlap, do instalments and balance sum up (`LedgerExact`), is the portal told what was decided (`OutcomeTold`), is a refund final (`RefundedIsFinal`) and nothing pending on a cancelled booking (`NothingPendingAfterCancel`)? |
| `outbox_loops` | two loops and two callbacks, with faults: is an event held by one loop, a booking announced once (`ClaimedAndToldOnce`)? |
| `outbox_delivery` | are events delivered in order and at most `max_retries` times (`DeliveriesSound`), and does every event, and every handoff's mapping, settle? |
| `lead_desk` | two people on one lead: is a free lead claimed once, brought back at most once per drop (`RecoveredOnce`), and does no call-back stay with the former owner (`HandedOver`)? |
| `visits` | two handlers and the escalation job over two visits: are visits and walk-ins completed once (`VisitsHappenOnce`), does the lead's stage follow a visit that took place (`NoDealWithoutVisit`), and do the directors learn, once, of every visit nobody runs (`DirectorsTold`)? |
| `catalogue` | does what is stored follow what it is derived from: prices (`PricesFresh`), publication (`ListedWasLocated`), galleries (`OnePrimaryPhoto`), units shown, history, notices, covers and pins (`ProjectRecordsAgree`)? |
| `attendance` | is a request carried out once and a comp-off day spent once (`RequestsCarriedOutOnce`), is there one record and one absence a day also when the rollup runs again (`OneRecordADay`), does a forgotten check-out neither block a later scan nor take a later day's stamp (`ForgottenCostsNothing`), and is a worked duty day credited (`RollupCreditsDuty`)? |
| `office` | conversions (`ConvertedOnce`), refunds (`PaidAfterBothApprovals`), reopened tasks and complaints (`ReopeningsSound`), leavers' work (`WorkHandedOnOrTold`), refresh keys (`KeyUsedOnce`), the telecallers' numbers (`UnassignedExact`) |
| `double_sale` | violated, against a comment of the code: see section 8 |

Each property of a passing run has a mutant in `PROJECT.json`: a plausible mistake in
one definition, written beside it as `X_Y`, under which TLC finds the property violated.
Each of the named parts of a bundled property is an operator of its module and can be
named in a cfg by itself.

To run one: `tlc -config booking_races.cfg MCBookings.tla`.

## 5. Bounds

- `Items`, `BookingIds`: a unit and a property with two bookings, or one unit that
  two bookings compete for. Rows of different items are related only through a
  booking, and a booking has one item, so a third item adds nothing.
- `Procs`: two. Every hazard found is a pair of requests, or a request and the
  sweep, which is an actor of its own.
- `Ops`: the kinds of request an instance makes; each run takes those that can
  touch what its properties are about. `booking_intact` takes all but recording payments, which
  `booking_sweep` has and the proofs cover.
- `NothingOvertaken` is the constraint of `booking_intact`: a behaviour is followed until a reader is
  overtaken, after which nothing is promised of that item. That another item stays as it should is
  proved, not run.
- `MaxCrashes` 0 or 1. A crash only forgets requests; a second one adds nothing
  after the first. `ApprovedFormIsConfirmed` is stated for a process that has not
  died: a crash between approving a form and confirming its booking does leave the
  form approved, which nothing in the code says cannot happen. `booking_intact`
  has none so that its state space stays small.
- `Amounts` {1}, an instalment of 2, a price of 2: one payment fills half an
  instalment, two fill it, a repeated collection is too much; direct payments meet
  the price exactly. Amounts are whole numbers; the code's are floats.
- `MaxEvents` 2 or 3, `MaxRetries` 2 or 3 (the schema's default is 5): order needs
  a third event, retries need two attempts and a last one.
- `MaxFaults` 0 or 1: `outbox_delivery` has none, since an event in PROCESSING when
  its handler fails stays there for ever; no comment says otherwise.
- `CHECK_DEADLOCK FALSE` where a bounded instance stops legitimately: all ids used
  and every booking cancelled, or the outbox full and settled.
- `Calls`: two running handlers everywhere else. The hazards of these parts are a
  stale read of one handler and a write of another.
- `MaxRequests`, `Share`: handlers started in a behaviour. `lead_desk` and `office` have
  up to five, which is what closing a complaint twice or paying a refund takes; `visits`,
  `attendance` and `catalogue` start instead in the middle of a story (`StartRows`,
  `StartDesks`, `StartListings`, `StartProjects`: rows the program reaches), so that two
  or three handlers meet where the handlers part.
- `Plans`, `Media` 2 and `Documents` 1 in `catalogue`: two plans of a project compete for the one
  active place, two media rows for the one cover; three requests suffice for a read that another
  request outdates and a third that shows it.
- `Days` 2 in `visits` (a reschedule needs another day), `LastDay` 3 in `attendance` (yesterday,
  today, and a day to swap with; all are weekdays). `UnreachableDays` 1 stands for the code's 5.
- `MaxKeys` 4: a key, the two a repeat is given, and one after them. `MaxTimeouts` 1 (a lost answer or a stop of
  the server), `MaxLeads` 2,
  `MaxCount` 1 (a number is handed out after the other either way), two servers and two uploads of at most two slices, one of which repeats a number and
  has a row without a phone.
- The bounds on requests also stop the run, hence `CHECK_DEADLOCK FALSE`.

## 6. Fairness

`Bookings.FairSpec`: the sweep is started again for ever (a cron job every fifteen
minutes), goes on through its list (its queries return), and a row's transaction
does not fail every time it is tried (strong fairness of `SweepCommitRow`). Nothing
is assumed of users: no request need ever come, and nothing they do may starve the
sweep. `PortalOutbox.FairSpec`: a loop's next step is eventually taken, because the
loop polls for ever and every call in it returns, HTTP requests through their
timeout. Nothing is assumed of the portal: it may refuse or lose everything.

## 7. Proofs

Eight modules hold the proofs, each for every value of the constants that satisfies the
named ASSUMEs of the modules it extends. Every theorem's invariant is proved in the three
usual steps (it holds at first, every step keeps it, it implies the property); what the
lemmas about each action share is stated once.

### Bookings

`BookingsProofs`, for every set of items, bookings and concurrent requests, however they
interleave, and any number of crashes:

- `TypeCorrect`: `Spec => []TypeOK`;
- `HandoffCorrect`: `Spec => []HandoffExactlyOnce`;
- `ApprovalCorrect`: `Spec => []ApprovedFormIsConfirmed`.

`TypeOK` alone is not inductive: a transaction's snapshot reads the row of its item, so a
request in flight must have one. `WellFormed` adds that existing bookings have an item, that
a request is about an existing booking and its item, and that the sweep cancels an
existing booking. The argument is by what a step may do to a request (`Moves`) and
to a booking row (`BookingsGrow`), each shown once for all actions, so that each
invariant needs only those two facts. The handoff needs `SeenMapped` as well: a
request that saw a mapping is right for ever, because mappings are never removed, so
the confirming transaction writes event and mapping together exactly when there was
none, and the unique key of the mapping makes the second of two racing ones fail.

and, as the properties say, of the items no reader of which was overtaken:

- `OwnershipCorrect`: `Spec => []ConfirmedOwnsItem`; `RowsCorrect`: `Spec => []RowsAgree`;
- `DecisionsCorrect`: `Spec => DecisionsStay`;
- `SalesCorrect`: `Spec => ImplementsSales`, the refinement of `Sales`, action by action.

These have no hypothesis: the specification is the one with every interleaving, and the exception is part of
the property, because of an overtaken item all four are false (section 8). The invariant
`IntactInv` says of each intact item that whoever has read something of it has read what is still
true, up to what time does to a lock (`RequestsFresh`, `SweepFresh`), and that its row agrees with its bookings
in more detail than `RowsAgree` says (`Sound`). Of the overtaken ones nothing may be assumed, so a
step on one of those must be shown to leave every other item alone (`Elsewhere`), which rests on
what holds of all of them: a lock names a booking of its own item (`OwnersFounded`).

### Payments

`PaymentsProofs` proves, for every set of payments, instalments, amounts and
requests, from `PaymentsAssumption` (amounts and instalments are positive, payments finitely many):

- `TypeCorrect`: `Spec => []TypeOK`, in which no balance or received amount goes
  below zero;
- `InstalmentsCorrect`: `Spec => []InstalmentsSound`, however requests overlap;
- `CollectionsCorrect`: `Spec => []NoCollectionLost`, however requests overlap;
- `CancellationCorrect`: `Spec => []NothingPendingAfterCancel`, and `RefundsCorrect`:
  `Spec => RefundedIsFinal`, both as long as no two requests have overlapped;
- `ReportsCorrect`: `Spec => []OutcomeTold`, and `LedgerCorrect`: `Spec => []LedgerExact`, both
  as long as no two requests have overlapped.

`InstalmentsSound` is not inductive: a refund writes back a snapshot that may be
stale by then, so what keeps the limit is that every snapshot respected it when it
was read and that amounts are positive. `RequestsFounded` and `PaymentsHaveAmounts`
say so. The collection needs no snapshot to be fresh: its update compares. `NoCollectionLost` needs
more, since a refund does not compare: of an instalment that is not undercut, a refund under way is
the only verification there, and what it has read covers the other payments (`KeptInv`,
`Covered`). For the theorems about requests one after the other `SoloInv` adds that without overlap at most one
request is in flight (`OneAtATime`), and so what it has read is still so when it writes
(`ReadsCurrent`).

`LedgerExact` compares rows with sums. The lemmas say that a sum over finitely many payments
grows by the amount of a payment that joins those counted and changes by nothing else; a sum
is a recursive function on sets, and the lemmas are proved of the smallest set that would be a
counterexample. `LedgerInv` adds to `SoloInv` that the balance and the instalment a request has
read are still the rows' (`MoneyRead`) and that a payment not yet recorded has no amount.

### The outbox

`PortalOutboxProofs` proves, for every set of bookings, payments, delivery loops and
callbacks, any number of retries and faults, from `OutboxAssumption`:

- `TypeCorrect`: `Spec => []TypeOK`;
- `ClaimsCorrect`: `Spec => []ClaimedByOne`;
- `ActivationCorrect`: `Spec => []ActivatedOnce`;
- `OnceCorrect`: `Spec => []ClaimedAndToldOnce`, the two together;
- `DeliveriesCorrect`: `Spec => []DeliveriesSound`, from `OneLoop`.

The worker overwrites a mapping whatever it holds. That this never undoes an
activation is the invariant: a booking has one handoff event, its mapping waits
(`CREATED`) until that event has an outcome (`HandoffsSound`), the loop that is about
to write the mapping holds an event with an outcome whose mapping still waits
(`JobsSound`), and it is the only one to hold it (`HeldByOne`). `LoopStep` shows once,
for all steps of a loop, what they may write (`Moved`), and the rest follows from it.

`OneLoop` is the deployment the order is meant for: one server process (its loop awaits each
event before it looks for the next) that is not stopped inside an event. An event whose loop
died stays in PROCESSING for ever and is overtaken, which the run with faults
therefore does not ask about. Then the event in hand is the oldest unsettled one, and the
attempt it counts is the next.

### Leads

`LeadsProofs` proves, for every set of customers, leads, employees, permissions and
handlers: `TypeCorrect` (`[]TypeOK`), `ClaimsCorrect` (`[]ClaimedOnce`), `RecoveriesCorrect`
(`[]RecoveredOnce`) and `HandOverCorrect` (`HandedOver`).
None of them needs handlers to be alone. A lead without an owner has not been claimed since it
was given up, and one that still waits for inventory has been dropped for it once more than
it came back (`LeadsCounted`); the conditional updates compare exactly that. `CallsFormed` says
what a handler has established before it writes. The attempts corrected the model twice: a
recovery that writes no owner begins a new claim, and a second drop of a lead that waits
for inventory is no second drop.

### Site visits

`SiteVisitsProofs` proves, for every set of visits, items, employees, permissions and handlers,
from `SiteVisitsAssumption` and `StartRowsAssumption` (a behaviour starts with visits that are open
and, unless direct, somebody's): `VisitsCorrect` (`[]VisitsHappenOnce`), `StagesCorrect`
(`[]NoDealWithoutVisit`) and `DirectorsCorrect` (`[]DirectorsTold`). A visit's handlers write by id what
they decided on an older row, so the invariant says what such a write may do to *any* row
(`Writes`): it completes no visit, and takes the PM away only from one that becomes direct; a
walk-in is `Plain`, nothing pending on it touches its day or status. The rest is what no
step takes back (`Steady`): a completion, an escalation, a visit's being there.

Here an attempt failed for a reason in the code. `VisitsHappenOnce` used to say that a visit
with a feedback row was completed once. That holds with two requests, as the run has, and not with
three: the MD starts and completes a direct visit (`lifecycle.ts:470` and `:513` do not ask for
the type) while the telecaller's outcome (`direct.ts:142`) is under way. Nobody is assigned to it, so
the MD's completion asks for no feedback (`lifecycle.ts:681-682`), the unique row does not tell the
second one off, and both are committed. The same goes for a visit that was never given to a PM. The property
now says what the unique row does guarantee: of all completions of a visit one asks for feedback.

### The office

`OfficeProofs` proves, of `Office`, for every set of people, rows and handlers:

- `TypeCorrect`: `Spec => []TypeOK`;
- `PaymentCorrect`: `Spec => []PaidAfterBothApprovals`;
- `ReopeningsCorrect`: `Spec => []ReopeningsSound`;
- `LeaversCorrect`: `Spec => []WorkHandedOnOrTold`;
- `ConversionsCorrect`: `Spec => []ConvertedOnce`;
- `KeyCorrect`: `Spec => []KeyUsedOnce`;
- `UnassignedCorrect`: `Spec => []UnassignedExact`.

A decision on a claim is checked on a row that may have changed when it is written, so the status
alone is worth nothing: two decisions may overwrite each other. What lasts is the trail.
A handler in flight was begun by somebody allowed to (`DecisionsFounded`), a row that has
reached a status has the trail of the approvals before it (`StatusFounded`), and the trail
only grows; the claimant
is in no trail of an own claim, since every guard compares the two and `by` never changes.

Reopenings and leavers are promised for handlers one after the other. `InTurn` is what
`~disturbed` gives: at most one handler is running, so what it read is still so, and each part adds
what its handler knows at each of its steps (`ComplaintsInv`, `TasksInv`, `PeopleInv`). Conversions
overlap freely: every booking is linked to one opportunity or is still in the hands of the
one handler that made it (`Linked`, `Held`), which compares before it links and undoes the
booking together with its lock when it loses (`Going`).

Sign-ins: the consume is a conditional update, but the next key is written later, by another
statement, and other handlers run in between. A handler that has won its key and not yet
written the next one *owes* it (`Owes`). The invariant `OneEach` says that each key has at
most one next key or one handler that owes it, `UsedUp` that in both cases it is marked as
used, so nobody can win it again; marking rows (`KeyMarkStep`) preserves both whatever the
reason, and only `consume` and `nextKey` need an argument of their own.

Leavers: a query of the hand-over may fail at any step, and only the customers of the leaver's
company are moved (`Foreign` are the others'). The property says that nothing else stays unsaid.

Master data: the counters of an upload are increments beside the rows they count, so each step
must change both by the same number (`Counters`; rows a slice has inserted and not yet
counted are `InFlight`). Inserting, counting and assigning do so by their guards. Taking back reads
leads, then numbers, and then writes by id, on any number of servers at once. Of an upload in order (`InOrder`)
every number agrees with its lead and with every take-back that has read one of
them (`Agree`): a lead that is about to be removed has its number handed out, and a number
about to be returned still has that lead. The step that breaks this is a second return of the same number, which
puts its upload into `amiss`, as a stop between insert and count does; no two numbers share a lead (`LeadsApart`),
so no other upload is touched.

Types: a part's rows keep their types because a running handler carries only what its checks
admitted (`ExpensesTyped`: who decides is one who may decide *that*; `DealsTyped`, `TasksTyped`),
because there are never more key families than keys (`KeysTyped`), and because a slice has created no
more rows than it has valid numbers, so that `duplicates` only grows (`MasterTyped`). An upload's
`assigned` is an integer and no more: two overlapping take-backs bring it below zero.

### The catalogue

`CatalogueProofs` proves, for every set of listings, photos, units, plans, media, employees and
handlers:

- `CatalogueInvariant`: `Spec => []CatalogueInv`, from which the others follow;
- `LocationCorrect`: `Spec => []ListedWasLocated`, however handlers overlap;
- `PhotosCorrect`: `Spec => []OnePrimaryPhoto`, `PricesCorrect`: `Spec => []PricesFresh`, and
  `RecordsCorrect`: `Spec => []ProjectRecordsAgree`, for handlers one after the other where the
  property says so.

A handler carries the steps it has still to take, and a row that is not as it should be is one
that a handler owes: a price that is not fresh has a recalculation ahead (`PricesInv`), a
change without its history row has the handler that will record it (`HistoryInv`), a cover
whose medium is gone has the handler that clears it (`FilesInv`). `Formed` says which steps may be
ahead of which, and `EveryStep` once, for all actions of the three parts, what a step does to a
handler: it begins, takes its next step, or ends. Of a handler that runs alone what it has
read is still so (`ShowsAsRead`, `FilesAsRead`, `DeletesKnowing`). `ListedWasLocated` needs none of
that: a move past the PM's desk carries the location that was checked (`MovesLocated`), and no
step takes a location back (`Kind`).

### Attendance

`AttendanceProofs` proves, for every finite staff, any number of days, requests and handlers:

- `AttendanceInvariant`: `Spec => []AttendanceInv`, from which the others follow;
- `TypeCorrect` (`[]TypeOK`), `RequestsCorrect` (`[]RequestsCarriedOutOnce`), `RecordsCorrect`
  (`[]OneRecordADay`) and `CheckOutsCorrect` (`ForgottenCostsNothing`), however handlers overlap
  or stop;
- `DutyCorrect`: `Spec => RollupCreditsDuty`, when nothing was disturbed.

A request that has been carried out, or that a handler is carrying out, is decided, and that
handler is the only one (`LogsInv` for attendance rows, `CreditsInv` for comp-off days): the
conditional update that decides it lets one handler pass, and no decision is taken back
(`Grown`). One rollup runs at a time, and those it will hold absent are not held absent yet
(`RollsInv`), which makes an absence unique although the rollup may stop and run again.
`CreditedInv` says that an undisturbed rollup past its duty days has credited them, before it
counts absences. Most steps do none of this; `Plain` says so once for all of them.

### Assumptions and limits

The ASSUMEs say that bounds are numbers, amounts positive, `None` and `Nobody` no member of
the sets beside them, and that a behaviour starts with rows of the right shape
(`StartDealsAssumption`: a lead and its demos with statuses of theirs, opportunities not yet
converted; `StartPeopleAssumption`: employee rows; `StartRowsAssumption`: open visits;
`StartListingsAssumption`: a listing past the PM's desk is located, a gallery has one primary photo;
`StartProjectsAssumption`: units shown with a project that is; `StartDesksAssumption`: finite
staff, records that no request has made yet, one scan a day, no comp-off used). `MasterAssumption` says that
a file is slices of rows and that numbers and servers are finitely many, `FilesAssumption` that
the names of states are none of the files', `SignInsAssumption` that there is room for a key.
TLC evaluates them in every run. One theorem has a hypothesis of its own, named in it: `OneLoop`
(`DeliveriesCorrect`).

Model-checked only: the three liveness properties (`ExpiredLocksResolved`, `EventsSettle`,
`OutcomeReachesMapping`), since fairness and ENABLED are beyond the prover. What a recursive
definition computes is beyond it too where the library's induction theorems would be needed, which take an
operator as a parameter; the two sums and counts that the properties are about
(`LedgerExact`, `UnassignedExact`) are finite, and proved without them. `RowsBefore`, a fold, is used
by the guards of an upload only, and no theorem depends on what it computes.

## 8. Where the code and its comments disagree

`double_sale` is the one run that is meant to fail. `markInventoryBooked`
(`services/inventory/reference.ts:212-238`) says that it refuses an item held by another
booking; it decides on a row its transaction read without a lock and updates it by id, so
two confirmations that overlap both commit.

The models show more. Each line names a property that is defined beside the model, is true
to a sentence of the repository and does not hold; to see its counterexample put it alone
into the cfg named, with the constants given.

| Property | Instance | The sentence, and what happens |
|---|---|---|
| `Bookings!CancelledLocksNothing` | `booking_races`, `Procs <- OneProc`, `Ops <- HoldOps` | "Cancel the booking first": a unit marked SOLD stays locked by its booking after that is cancelled. No race |
| `Payments!NoSecondEvent` | `payment_ledger` | "no second event can be emitted": two verifications of one payment pass the guard |
| `Payments!RefundUndoesExactly` | `payment_ledger`, `Targets <- OnlyBooking`, `Price = 1`, `Amounts <- OneOrTwo` | "undo exactly what the SUCCESS step added": the balance was clipped at zero. No race |
| `PortalOutbox!FailedCallbackRetried` (PROPERTY) | `outbox_delivery` | "worker will retry" (`integration.service.ts:304`): the event stays COMPLETED |
| `Employees!ResignedHasLeft` (PROPERTY) | `office` | "Otherwise both happen now" (`lifecycle.ts:55-58`): somebody taken back has `offboarded_at` still set, and the next resignation does nothing (`employeeOffboard.service.ts:318`). No race |
| `Employees!MovesHandedOnOrTold` | `office` | "`moves` is what a handover moves to one person" (`employeeOffboard.service.ts:53-57`) counts customers of any company; `:252-257` moves those of the leaver's own, others (a customer may be given to anybody, `customer.service.ts:108-126`) stay and nobody is told. No race |
| `SignIns!TabsStaySignedIn` | `office` | "Two tabs ... send the same key" (`auth.ts:498-503`): the session is read beside the consume, may be seen unused, and the family is revoked |
| `Deals!OnlyWorkflowMovesLead` (PROPERTY) | `office` | "the only authority allowed to write Lead.status" (`opportunity.service.ts:117-119`): `demo.service.ts:314-317` writes it too |
| `WorkTasks!PointOnce` | `office` | "once per task" (`task.service.ts:27-28`): two completions both count no earlier award |
| `Expenses!RefusedOrPaid` | `office` | a rejection and a payment that overlap both happen |
| `Attendance!SwapDecidedTogether` | `attendance`, `StartDesks <- SomeSwaps` | "approved or rejected together" (`duty.ts:273`): one half at a time can be decided |
| `Projects!CancelledSellsNothing` | `catalogue` | "Hard block cancellation while any unit ... is still active inventory" (`project.service.ts:631-636`): a unit of a cancelled project can be put on sale again |
| `Leads!DroppedHasReason` | `lead_desk` | a drop requires an exit reason (`lead.workflow.ts:298`): a stale write of the reason undoes it |
| `Leads!BroughtBackByManagement` (PROPERTY) | `lead_desk` | "may be brought back only by management" (`recovery.ts:10`, `:20`): a telecaller's change of status to RECOVERED_TO_POOL is not asked about it, and a transfer, an upload or an enquiry that read the lead before it was marked brings it back |
| `MasterLeads!CountersNotNegative` | `office` | "The counters are kept here" for what a count of the rows would give (`schema.prisma:2972-2973`): two take-backs of one telecaller both read the leads (`masterLeads.ts:403-411`), and both lower it (`:426-433`) |
| `MasterLeads!SliceCountedOnce` | `office` | "A slice sent twice is never counted twice" (`masterLeads.ts:63-67`): two servers both find it expected |
| `MasterLeads!CalledIsKept` (PROPERTY) | `office` | "Anything with a call stays with the person" (`masterLeads.ts:398-401`): the calls are read before the transaction that removes the leads |
| `SiteVisits!OutcomePerItem` | `visits` | one outcome row per linked item: a refused reschedule has already replaced the rows (`lifecycle.ts:259`) |

For a PROPERTY leave `SYMMETRY` out. The same reading shows others that the models contain
and no property singles out:

- a confirmation and a cancellation of one booking that overlap undo each other; the sweep cancels by
  id a booking whose form was submitted since its snapshot, against the rule above `decide()`, and
  frees a unit confirmed since it listed its lock; a unit edit (`projectUnit.service.ts:434`) writes
  back the sales status it read before a claim;
- a refund writes a received amount it read earlier, by id (`payment.service.ts:249-259`): a
  collection, or another refund, of the same instalment that committed in between is erased;
- a 200 of the portal whose body is cut or no JSON is `null` (`portalClient.ts:50-57`) and fails the
  event, and a handoff's mapping, for good after one attempt (`portalWorker.ts:167-168`, `229-231`,
  `293-295`, `459-460`), although the portal has taken it in;
- what `getHandoverSummary` lists as to be settled by hand (`manual`) is left with a leaver and
  nobody is told of it;
- a stop between `createMany` (`masterLeads.ts:113`) and the counter's update (`:115`) leaves rows that
  are never counted, because the repeated slice finds them there already; a take-back that read a lead
  before it was called or given to somebody else deletes it nevertheless (`:434`);
- a verification and a cancellation that overlap overwrite each other's status, and two
  direct payments verified together lose one balance update;
- a refund lowers an instalment the portal was told about, and tells only of the payment
  (`payment.service.ts:253`); `OutcomeTold` leaves out the instalments of refunded payments;
- a payment that failed before its booking was cancelled can be verified to SUCCESS
  afterwards and is not flagged for refund (`payment.service.ts:192`);
- a callback that arrives before the worker updated the mapping is refused
  (`portalWorker.ts:570`); a late one about a payment's first event marks the payment
  SYNCED although its second was written (`integration.service.ts:327`);
- a crash between locking a leaver out and handing the work over is never repaired, and a
  withdrawal that races the leavers' job comes too late;
- `/proposals/:id/approve` approves a COMP_OFF without spending a credit;
- a visit that has nobody to rate may be completed twice (section 7);
- handlers that overlap leave stored prices of older fields until the next edit.

## 9. Not modelled

- Analytics, reports, targets, performance and day plans: they aggregate or log what
  others write.
- The website, share links, search, matching: single-row writes and queries.
- Notifications, messages, media: output only.
- KYC's recomputed customer status, customer records, hiring and the employees' contact
  data, badges, two-factor, WebAuthn and kiosk challenges (all end in the same session
  row), the customers' tokens.
- The arithmetic of `computePrice`, and what a permission table contains; the policies of
  the modelled parts are guards of their actions.
- A property's HOLD: the sweep ends an expired one (`jobs/tasks.ts:1193-1196`), but nothing in the code
  sets `hold_until` of a property (only `projectUnit.service.ts:527`, of a unit).
- Which price basis a calculation uses: `bulkCreateUnits` prices a unit as it was stored, the others
  resolve the project's default first. That a manager of a task's assignee may act on it as
  the MD may (`task.policy.ts:52`): such a manager is one of `Chiefs`.
- Migrations and seeds. The schema's defaults and unique keys are in the models.

Within the modelled parts: companies, texts, audit rows unless a property is about them,
the generation of codes, rows from before `locked_by_booking_id` existed, and the
deadlocks MySQL resolves by rolling one transaction back, which is the same as a failed
request. Reads of one handler that follow each other without a write of its own are one
read, except where the module's header says otherwise. `PROJECT.json` gives the reason for
each component.
