# CourseBoard: TLA+ models, checks and proofs

CourseBoard runs a golf club's front desk. It is a Rust service (`src/`) with a
desktop application in front (`desktop/`) and *Field*, an external ERP, behind. Most
of what the desk sees lives in Field (bookings, caddie assignments, staff, shifts,
customers, invoices). CourseBoard keeps in its own MySQL tables what Field has no place
for (confirmed caddie months, other work, cancellation records, report figures,
summaries, rank fees, settings). No transaction spans the two, and a use case is a
sequence of awaited calls with other requests running in between. That is where this
program is hard, and what the modules below are about.

Source paths are given relative to the repository; `usecase/`, `domain/` and
`infrastructure/` stand for directories of `src/course/`.

## 1. Inventory

| Component | State | Operations | Hard part | What makes it correct | Module |
|---|---|---|---|---|---|
| Caddie shift mirror: `update_caddie_shift`, `mirror_shift_to_field`, `sync_caddie_shifts_to_field`, push loop of `ShiftBoardPage.tsx` | `golf_caddie_shifts`, Field's staff shifts | edit a day, confirm a month, push a batch, re-send a month | Field and table written one after the other; lost answers; overlapping requests; the loop's end | a stamped day is what Field holds; every Field shift can still be named; pinned days survive; the loop ends and drains | `ShiftMirror` |
| Month planner: `generate_caddie_shifts`, `domain/caddie_shift.rs` | the month being planned, rest counts shared by the roster | read back the run, place rest days, top up, write, report | month boundaries, pins against requests, windows with no free day | only pinned days exceed the limit; the report is exact; the promised rest is given | `RestDays` |
| Caddie dispatch: `auto_assign_caddies`, `create_`/`reassign_`/`update_caddie_assignment`, `release_day_caddie_assignments`; other work: `caddie_duties` | Field's assignment rows, duty windows | name, move, close, plan a day, clear a day; file, correct, clear other work | check-then-act over remote rows, rows closed from an old screen, partial runs, two stores that check each other | one caddie per group, nobody in two places, limits kept | `CaddieDispatch` |
| Reservation cancellation: `cancel_reservation` | Field booking, `golf_reservation_cancellations` | cancel, record, release caddies | best-effort steps after the point of no return; retries | nobody left on the group; the booking's detail never lost | `CaddieDispatch` |
| Cancellation fees: `settle_cancellation_fees`, `CancellationsPage.tsx` | fee columns, Field's invoices, requests kept in the tab | bill per payer, waive, record, retry | a POST that lands after it was given up, reloads, submissions that outlive their sheet, recording that fails | a booking is charged for once; a row marked invoiced points at its invoice | `FeeBilling`, `FeeLedger` |
| Report import and migration, common import owner | report rows, legacy copy in Field, job snapshots | import, seed, migrate, verify, delete; validate, ready, stage, finish | two stores during the move, relinked facilities, repeated finish | history stays on the board; the last file stands; a commit replaces only what was previewed | `ReportImport` |
| Course schedule and slots: `course_schedule`, Field's rolling window | horizon, watermark per course, Field's weeks and tee times | save a week, move the horizon, top up on a ledger read, sync the window, build by hand | no scheduler, work from old readings, whole-schedule writes that may land late, builds that fail | the watermark never runs ahead; what it claims is the current week; the book fills; a saved week stands | `TeeInventory` |
| Booking creation and changes, start-ledger import, slot marks | Field bookings and inventory, marks | sell a tee time, send a paper sheet, shut times, cancel, correct | checks long before the POST, lost answers, resent sheets | not oversold, not booked twice, seats fit, every group answered | `TeeBooking` |
| Customer summaries and visits, reception check-in | bookings, check-ins, stored summaries, run records | sweep by pages, store figures, check in, relink | paging by offset while the desk books, the caps of sweep and page | the sweep stores what the customer's page shows, and says when it stopped short | `CustomerVisits` |
| Authorisation and feature delivery: `course_authz`, `feature_delivery`, members proxy | cache of allowances, sampler table | gate, evaluate the plan, sample, invalidate | stale allowances, outages, missing answers, full tables | a revocation bites within its bound; enforcement fails closed | `AccessGate` |
| Rank fees and alignment: `caddie_rank_fees`, `caddie_fee_alignment`, its sheet | rank table and history, log of moves, Field's profiles | save the table, move a batch of caddies onto it | log, write, confirm across two stores; stale sheets | listed moves happened; only agreed amounts move; everybody is answered | `RankFees` |
| Payroll, settlement, pricing, tax, ranking, supply figures, shift hours | none | compute | arithmetic | totals agree with the rows | none |
| Legacy cancellation fees, courses, roster, customers, memberships | Field | single calls | none of their own | | none |
| HTTP adapters, proxies, agent, admin pages, configuration, exports | none | decode, forward, render | none of their own | | none |

Requests reach the use cases through `src/course/interfaces`, behind the gates of
`AccessGate`. Dispatch, duties and cancellation meet in Field's assignment rows, so they
are one module. The planner and the mirror meet in `golf_caddie_shifts`. A cancellation
recorded in `CaddieDispatch` is the row billed in `FeeBilling`. `TeeInventory` builds the
tee times `TeeBooking` sells. `PROJECT.json` lists every component with its status, and
the hazards at the lines where they bite.

## 2. Plan

Done: the modules above, their runs, and the proofs of section 5, in the order in which
the components matter: mirror and planner, dispatch, money (`FeeBilling`, `RankFees`),
access, the report move, the tee inventory, tee bookings, the paging of the visits. Left:

1. `SweepIsExact`: the figures of a sweep are filters over sequences, so this needs facts
   about `SelectSeq` for every sequence, which are inductions over data.
2. What `FeeLedger` still promises once sheets have crossed: which bookings neither of
   them reached.
3. An abstract mirror (a set of days owed to Field) that `ShiftMirror` implements while
   no day is disturbed.

## 3. Modules

### ShiftMirror

A *day* is one (caddie, date) pair. The variables are the columns of
`golf_caddie_shifts` (`plan`, `origin`, `link`, `behind`), what Field holds (`field`,
`issued`, and the roster in `profile` and `gone`), the deployment switch `writeBack`,
and per request a program counter, a work entry for each day and the loop's last count.
Each request is an edit (Field first, then the row, then the id), a confirmation of the
month (table only, after which the board pushes), or a push (read a batch, call Field
for each day, bank the outcomes, count, repeat). Every database transaction and every
Field call is a step.

* `behind` is the truth of `BEHIND_FIELD`, `field_synced_at IS NULL OR field_synced_at
  < updated_at`. Under a database clock that advances between writes it is exact: a save
  makes it true, a stamp false.
* The roster and the club's hours are read in the same step as the link or the batch.
  Calls of one batch, which the code makes in chunks of `CONCURRENCY`, may complete in
  any order.
* Field is external: PATCH and DELETE find a shift by staff member and id, POST always
  files a new one, and staff and shifts may be deleted on Field's own screens.
* `mark` is a history variable used only by properties. A day is `untold` when a call's
  outcome was lost or Field was changed by somebody else, and `disturbed` when two
  requests overlapped on it, an answer with a new id was lost, or its profile moved away
  from a filed shift. It keeps the properties honest about what the code cannot repair,
  day by day.

### RestDays

One run of `plan_month_shifts` and `place_rest_days`, a step per loop iteration, for a
roster planned in order against a shared count of people off. Between runs the desk edits
and pins days and requests are filed, so every reachable table is an input. Months are
intervals of an integer calendar (`FirstOf`, `LastOf`). `Statute` is both the length of
the read-back and the clamp on the club's limit. The choice of the rest day keeps the
code's full preference order. Left out: spans and round capacities of a day, the
counts `pinned_kept` and `statutory_rest_days` of the report, placement on courses
(only who has none). The run works on one reading of the table; interleaving with edits
is `ShiftMirror`'s subject.

### CaddieDispatch

One day: Field's bookings (`booked`) and assignment rows (`rows`), CourseBoard's other
work (`duties`) and cancellation records (`ledger`), and per request a program counter,
what it was asked (`job`) and the rows it has still to write (`todo`). Reads and checks
of a use case are one step (the automatic run reads the tee sheet in an earlier one), and
each write is another. A write replaces the whole row with what was read or decided
before, as Field does.

* Groups are numbered in the planner's order (tee time, then id). A round lasts
  `RoundLength` by its plan, which is what the checks and the planner use; rows are filed
  without it and read back as `Length` (`occupied_minutes` falls back to 270). Placing by
  hand may state the plan's length or none (`Stated`).
* The assignment table closes a row by sending it back as it was loaded, and
  `update_caddie_assignment` checks nothing. So `seen` keeps the rows each of the
  `Screens` loaded (`Load`), `UpdateStatus` writes the seen row whole, and the history
  variable `stale` names the rows such a write moved or revived, until a checked move or
  a cancellation settles them.
* The planner may pick any eligible caddie. The ranking and the preference for caddies
  who asked for two rounds only narrow that choice, so what is shown holds for them.
* Availability, placement and daily limits are constants. Rows not tied to a booking and
  the status `in_progress` are left out; a dry run writes nothing and is not an action.
* `Abort` is a failed call that is not best effort, or the process dying. `WriteLost` is
  a write that lands while its answer is lost. `RecordFails` and `ReleaseFails` are the
  failures the code swallows. `job.clean` remembers whether any of these hit the request.

### FeeBilling and FeeLedger

The cancellations page bills an invoice per payer in Field and then marks the rows in
CourseBoard. A *bill* is the body of one POST. Its idempotency key consists of those
fields and Field derives the invoice number from the key, so the invoice is identified
with the bill. `wire` holds POSTs that may still arrive, `kept` the frozen requests in
a tab's session storage (`BatchRecovery`), `sheet` the steps of a submission: read
Field's invoices, check for conflicting recoveries, save and POST each group, record
what was confirmed. A sheet is a mount of the component. Closing it is refused while it
saves, but navigating inside the app takes it off the screen (`left`) with its loop
running on: it keeps posting, overwrites the storage of its tab with the requests it
holds itself, and records. A sheet opened meanwhile loads the storage as it finds it. A
reload ends all sheets and loops of a tab. Only `SourceCap`
bookings of a bill are named to Field (`cancellationFeeSources`).

`FeeLedger` is the abstract specification: a charge is raised for bookings nobody was
charged for, until the ledger is `contested`. `FeeBilling` implements it; the refinement
mapping takes Field's invoices to the charges of each booking, and the history variable
`contested` says that a sheet was opened that was not `Alone`: beside another sheet,
beside a loop left behind, or while another tab holds recoveries.

### ReportImport

The table `golf_reservation_report_rows`, the legacy copy in Field's extension config,
and their three writers: the desk's import (seed from the copy if the table is empty,
read stale keys, write), the migration (seed, verify, delete the copy), and the common
import owner (`validate`, `ready`, `stage`, `finish`, driven and repeated by Field). A
row is a half-day of a facility in a bucket, and its counts are abstracted to the file
they came from. Courses are opened and closed beside them. The history variables are
`last` (file imported last for a facility), `paused` (courses closed at some time) and
`overlapped` (two writers met).

### TeeInventory

Field stores a course's week and builds tee times from it. CourseBoard keeps the horizon
and a watermark per course. A ledger read reads the watermarks, the horizon, tops each
course up in two calls (build, mark), and then syncs Field's rolling window, a
read-modify-write of the whole schedule. Saving a week, moving the horizon, building by
hand and midnight run beside it. Days are numbers; a missing watermark is 0. `built`
holds each day with the week it was built from, so a day that was built from an empty or
an older week is told apart from one of the week Field holds (`Current`). A PUT whose
caller stopped waiting (the 5 s deadline of the ledger read, a save without an answer) is
among `strays` and may land later. Two history variables: `saved` is the week of the last
save behind which no older PUT was under way, `owing` says that the week changed without
a build of it going through.

### TeeBooking

Field's bookings and generated inventory and CourseBoard's marks. A booking request asks
for the mark, reads the slot row and the bookings side by side, decides, and POSTs. The
paper-ledger import does this per group, with the listing it began with and the times it
claimed. A POST whose request was given up is `adrift` and may land later. Older bookings
went through a manual slot Field's count does not see. The three corrections of a booking
read it, check the plan's seats and send their patch. History variables name the races
the properties exclude: `raced` (a POST landed on a reading older than another landing),
`late` (a POST landed behind the next sending) and `mixed` (overlapping corrections).

### CustomerVisits

The sweep pages through the tenant's bookings newest first, then the check-ins, computes
everybody's figures and stores them in chunks with a run record. The customer's page
computes the same from that customer's own bookings up to a cap (`OwnCap`), and from the
groups they were seen in up to a cap of lookups (`GuestCap`), of which any may fail and
then drop out silently. Some check-ins are there to begin with (`FirstCheckins`). The
desk books, cancels, settles, relinks and checks in meanwhile. A booking is named by its tee time; money and headcount
follow the rounds and are left out, and a grade is a threshold on visits.

### AccessGate

One instance of the service. A request passes the action gate with its cache of
allowances, the delivery gate (off, shadow, enforce), the token check and the check in
the use case. A call to Auth or Core is two steps, deciding and answering, so permissions
and plans change in between. Time is a counter; the TTL, the grace of an outage and the
sampling window are numbers of ticks. Auth, Core and the members screen are external.
The route table and the catalogue are constants. Every scope names a tenant and the
action gate is on.

### RankFees

The rank table with its history, the alignment sheet and the request behind it. A move is
logged as pending, sent to Field as a whole profile, and confirmed or discarded by what
came back. Profiles are edited and removed and the table repriced by other screens. A
batch may be taken in any order (the code takes the request's), a PATCH that timed out
may land later. `version` counts the writes to a profile, and each log row remembers what
its PATCH found, so the properties can say whether anything had changed in between.

`MC*` modules hold the instances for TLC.

## 4. Runs

| Run | Checks | Instance and why it is enough |
|---|---|---|
| `mirror_concurrent` | `SyncedMeansTold`, `HandleKept` | two requests on two days, batches of two, four ids; crashes, staff links coming, going and dying, the write-back switched: a damaged day beside an undamaged one |
| `push_loop` | `PinnedSurvives`, `RequestEnds`, `QueueDrains` | one request at a time, two begun, two days and batches of one, so the queue needs several calls; Field may lose, refuse or never answer any of them, and shifts are deleted in Field |
| `rest_days` | `OnlyPinsOverwork`, `OverworkedReported`, `RestPromiseKept`, `RunEnds` | two caddies who share the counts, two months of three days, limit 2 below a statute of 3, protected days at the boundary, two changes: runs across the 1st, a window of pins |
| `dispatch_serial` | `OneCaddiePerGroup`, `NobodyInTwoPlaces`, `PlanKeepsLimit`, `CancelReleases`, `DetailKept` | three groups (two of which one caddie can walk, one overlapping both) with rounds shorter than, longer than and as long as a row is read to hold, two caddies with different shifts, courses and limits, three stretches of work, a table loaded at any time, four requests of any kind, all failures |
| `fee_billing` | `InvoicedPointsAtInvoice`, `ImplementsLedger`, `SubmissionEnds` | two bookings of one payer, one of them cancelled later, two rates, two sheets of one tab, two openings: a retyped rate, a recovery for other bookings, a replay refused, a loop left behind beside a sheet that reads and writes the same storage, every reload |
| `report_import` | `HistoryStaysOnTheBoard`, `LastImportStands`, `CommitReplacesOnlyWhatWasValidated` | two facilities and one course they can take over from each other, two half-days, two imports, a common import job and its finish call, the migration, one closing or opening of the course |
| `tee_inventory` | `WatermarkIsBuilt`, `SavedWeekStands`, `WatermarkIsCurrent`, `WindowIsFilled` | one course, two ledger reads at once of which one may stall for good, a horizon of one day and a closing date, a window Field cannot keep, one save or move, a PUT that lands late, a day built by hand past the window, one midnight |
| `tee_booking` | `NotOversold`, `BookedOnce`, `SeatsFit`, `NobodyOnAShutTime`, `EveryGroupIsTold` | two tee times of two groups, one older manual-slot booking, a paper sheet that names one time twice, two desks and the import, two editors, three events, three bookings within the listing |
| `visit_sweep` | `PagesMeet`, `SweepIsExact`, `RunsEnd` | two customers, four tee times of which one is ahead, three of the four seats booked checked in, pages of two, a cap of four, a customer page of three own bookings and one lookup, three desk events: full and short last pages, the sweep's cap met exactly by bookings and passed by check-ins, each cap of the page exceeded, every set of failed lookups |
| `access_gates` | `ForgottenAtOnce`, `AdmittedIsProvided`, `RevocationBites`, `SampledOncePerWindow`, `EveryRequestEnds` | three requests one after another on six routes of every standing, a chain of three required features, TTL 1, grace 3, window 2, cache and sampler of one entry, any permissions to begin with, one change by others |
| `rank_fees` | `ListedMovesHappened`, `AgreedMovesOnly`, `EveryoneIsAnswered` | two caddies of two ranks, a table that may price a rank at nothing, two overlapping saves, one edit or removal, one request for one or both, every failure and late landings |
| `unlogged_move` | `PayChangeIsRecorded` is violated | one caddie; the PATCH lands and the read of staff names after it fails |

`unlogged_move` is a finding, quoted with its lines in `PROJECT.json`:
`caddie_fee_alignment.rs` deletes the record of a move on any error of the write, also on
one after Field applied it, while its comment says that the pay change "can never happen
without a record of it". Other places where the code and its comments disagree are in
section 6.

`TypeOK` of each module (`InventoryTypeOK`, `VisitsTypeOK`) documents the types of its
variables. It is a theorem for every module of section 5 except `RestDays`, where it is
part of the inductive invariant.

**Bounds.** Every bound is a constant. `MaxRequests`, `MaxOpens`, `MaxAsks`, `MaxRuns`
count requests begun. `MaxChanges`, `MaxEdits`, `MaxSaves`, `MaxOffice`, `MaxFlips`,
`MaxEvents` count what others do beside them, `MaxStrays` the PUTs given up on at one
time. `MaxDay` and `MaxTime` end the clock.
`ShiftIds` are the ids Field can issue, enough for every POST in the liveness run. The
limits of the code (`Batch`, `SourceCap`, `ListLimit`, `PageSize`, `MaxRows`, `OwnCap`,
`GuestCap`, `CacheCap`, `TrackedCap`, `MaxSpan`, `FieldMax`) are constants with small values so that they are
reached. Except for `rest_days`, runs do not check for deadlock: when every request is
idle and the bounds are used up the system is meant to rest. Symmetry is used in
`mirror_concurrent` only, which checks safety.

**Fairness.** Weak fairness of a started request's next step, in `ShiftMirror`,
`RestDays`, `FeeBilling`, `CustomerVisits`, `AccessGate` and `RankFees`: a task of the
server or the page goes on, and each HTTP or database call ends in an answer, an error or
its deadline. No outcome is assumed to be a success, and nobody is forced to start,
except as follows. `QueueDrains` speaks of behaviours in which no call fails unanswered.
`TeeBooking` assumes that the person at the import page sends again what has no answer;
giving up is an event and therefore bounded. `TeeInventory` assumes that one desk (`Busy`)
opens the ledger again and again on the last day and that a call it makes again and again
gets through (strong fairness of the calls that may fail), since nothing else moves the
edge of the book; the reads of other desks may stop anywhere; even so `WindowIsFilled` promises tee times of the current week only where nothing
is `owing`. `AccessGate` does not assume that Core answers a shadow read. `CaddieDispatch` and
`ReportImport` state only safety.

**Mutants.** Each property has a mutant of a mapped definition it depends on (a save that
forgets the stamp, a deadline one day late, a resend that is not recognised, ...),
defined in the module just before the definition it imitates.

## 5. Proofs

`ShiftMirrorProofs`, for any months, batch sizes, numbers of requests, faults and
meddling:

* `TypeCorrect`: `Spec => []TypeOK`.
* `StampsAreTruthful`: `Spec => []SyncedMeansTold`.
* `HandlesAreKept`: `Spec => []HandleKept`.
* `PinsAlwaysSurvive`: `Spec => PinnedSurvives`, when there is one request.

Neither of the two invariants is inductive: both are about the table and Field, while what the next
step does is decided by what a request read earlier. `MirrorInv` adds what links them.
At most one request carries an undisturbed day (`Single`); its entry is still the row's,
and Field is in the state its call has got to (`Flight`); until a told day is banked
Field holds at most the linked shift (`Reachable`), under the staff member the profile
names (`StaffOK`); ids name one day each (`IdsOK`); a program counter bounds the stages
(`StageOK`); and a clean, stamped day agrees (`Agree`). `AnswerStep` and `PushStep`
treat the Field calls, `MirrorStep` all actions.

`RestDaysProofs`, for every roster, calendar and policy:

* `LimitHolds`: `Spec => []OnlyPinsOverwork`.
* `ReportIsExact`: `Spec => []OverworkedReported`.
* `PromiseHolds`: `Spec => []RestPromiseKept`.

`PlanInv` follows the caddie being planned through the passes. The counters of both
passes are the true length of the run behind them, cut off at the limit (`BackOK`,
`PlaceOK`, `StreakOK`); rest days are never pinned days (`InsertedOK`); once a pass has
gone over a day, exceeding the limit there means a pin (`PlaceOK`, `LimitOK`); topping
up keeps that because adding a rest day only shortens runs (`OverShrinks`); the written
month is what the placing pass expected (`WriteOK`); and what holds of a caddie when
their turn ends still holds when later caddies are written (`WrittenOK`).

`TeeTimeProofs`, first part, `TeeBooking` for any tee times, capacities, desks, editors,
plans, sheets and listing limits:

* `TypeCorrect`: `Spec => []TypeOK`, which includes that Field's count of a tee time is
  the number of bookings that hold its inventory.
* `NeverOversold`: `Spec => []NotOversold`.
* `BookedAtMostOnce`: `Spec => []BookedOnce`.
* `SeatsAlwaysFit`: `Spec => []SeatsFit`.
* `NeverOntoAShutTime`: `Spec => NobodyOnAShutTime`.

A POST is decided on long before it lands, so each invariant follows what was read until
then. *Overselling*: of the bookings that were there when a request read the board, no
more stand than it counted, and once it decided to POST, fewer than the tee time takes;
the same for a POST adrift (`ReadingHolds`). Bookings only join behind the reading and
those in it only go (`Upto`), so on a tee time that is not `raced` a landing adds one to
a count below the capacity. *Booked once*: while the import's request runs, it knows
every tee time an import has booked, from its listing, from its claims or as the one just
landed, unless a POST landed there adrift, and it never has a tee time at hand that it
knows (`Known`); the listing shows them because no correction drops the course a booking
names (`CourseKept`). *Seats*: a pending correction whose booking nobody else has written
still fits (`EditFits`). *Marks*: past the check, and adrift, the tee time was seen open
(`OpenSeen`). `ToldTogether` adds to the types that the page hears of all its groups at
once.

`TeeTimeProofs`, second part, `TeeInventory` for any courses, ledger reads at once,
horizons and bounds:

* `InventoryTypeCorrect`: `InventorySpec => []InventoryTypeOK`.
* `WatermarkHonest`: `InventorySpec => []WatermarkIsBuilt`.
* `SavedWeeksStand`: `InventorySpec => []SavedWeekStands`.
* `WatermarkCurrent`: `InventorySpec => []WatermarkIsCurrent`.

A watermark is filed from what a request worked out earlier, so `InventoryInv` follows
the requests: the day each took for today is not ahead of the clock (`DaysArePast`), the
watermarks a ledger read saw still hold (`SeenIsBuilt`), and whoever is about to file one
has had its days built (`AboutToMark`). For the weeks, `WeekInv` adds that what a sync is
about to put back, or a stray PUT may, is the saved week (`ReadingIsSaved`). `CurrentInv`
repeats the argument of the watermarks for the days of the week in force, where nothing
is owed (`SeenIsCurrent`, `FilingIsCurrent`). TLC takes a few days and at most two reads;
the theorems hold for any number of reads at once.

`CaddieDispatchProofs`. For any number of requests:

* `TypeCorrect`: `Spec => []TypeOK`.
* `DetailAlwaysKept`: `Spec => DetailKept`.

For `Requests = {R}`, any day, lengths of rounds, roster, limits, stretches of other work
and screens, and all failures:

* `OneCaddieAlways`: `Spec => []OneCaddiePerGroup`.
* `NeverInTwoPlaces`: `Spec => []NobodyInTwoPlaces`.
* `PlanAlwaysKeepsLimit`: `Spec => PlanKeepsLimit`.
* `CancelAlwaysReleases`: `Spec => CancelReleases`.

The hypothesis of one request is needed: every use case checks and then writes, and
section 6 describes what two of them do to each other. The first two speak of the rows no
unchecked status update has moved or revived (`Checked`), because for all rows they are
false (section 6), and the second of the hours all checks keep free
(`HoursHeld`: the plan's length, or 270 minutes if that is less). What is written was
decided in an earlier step, so `Serial` says that every pending write, unless it is a
status update, still fits all live rows, stale ones included, the other work and the
other pending writes (`Safe`, `WritesFit`), pending other work still fits (`DutyFits`), a
cancellation still has every round of its group ahead of it (`ReleaseOK`), and the rounds
of a caddie plus those a plan still owes them are within the limit (`LimitOK`). A row a
write leaves checked was checked for that write or stays where it was (`MarkedFits`), and
a check with either length protects the hours held (`Shorter`, `ShorterBlock`). The limit
rests on the caddie's latest pick having been checked against all the earlier ones
(`PlanInLimit`).

`CustomerProofs`, first part, `FeeBilling`:

* `TypeCorrect`: `Spec => []TypeOK`.
* `InvoicedRowsHaveInvoices`: `Spec => []InvoicedPointsAtInvoice`, for any number of
  sheets in any tabs that bill, waive, retry and record, on the screen or off it.
* `SheetsInTurnAreTheLedger`: `Spec => ImplementsLedger` under `WithinCap` (finitely many
  bookings, and no payer with more of them than `SourceCap`), for any number of sheets,
  tabs and loops left behind.

`RowInv` says that what a sheet takes for billed is billed in Field. `PageInv` is the
argument of the refinement for one sheet: bills on the wire, in its tab's storage and in
Field that share a booking are the same bill, so an arriving POST either repeats an
invoice (a stutter) or charges bookings nobody was charged for (`Charge`). `InTurn` makes
it an invariant of many sheets: until the ledger is contested one sheet has the `Lead`,
all others are closed and hold nothing, and no other tab has recoveries. When a sheet is
opened alone, the lead passes to it with what the last one left in the storage
(`Handover`); no other step moves it (`TurnStep`). `WithinCap` cannot be dropped: beyond
`SourceCap` a bill names only some of its bookings to Field (section 6). TLC has one payer
and two bookings; the groups of several payers in one batch are covered by the theorem.

`CustomerProofs`, second part, `CustomerVisits` for any customers, tee times, page size,
cap and number of overlapping batches:

* `VisitsTypeCorrect`: `VisitsSpec => []VisitsTypeOK`, which includes that no seat is
  checked in twice, that a batch under way has an open run row, and that it reads at most a page
  beyond the cap.
* `PagesAlwaysMeet`: `VisitsSpec => PagesMeet`.

`VisitsInv` says of a batch among its bookings that it has read no more of them than
there are and, unless one was taken ahead of where it reads, that the i-th it read is
still there with i - 1 later ones (`ReadInOrder`). That such a tee time exists for every
place of the listing is a counting argument (`EveryPlace`: distinct tee times have
distinct numbers of later ones, so the numbers fill an interval), from which the listing
and the page that is read behind the rows already there follow (`ListingRanks`,
`PageAdds`). `RunsApart` (batches under way have runs of their own) keeps one batch from
closing another's.

`TeeTimeProofs` and `CustomerProofs` each extend two modules, so `TeeInventory` and
`CustomerVisits` carry their name in front of `Init`, `Next`, `Spec`, `TypeOK` and `vars`.

`RankFeesProofs`, for any caddies, ranks, amounts, saves and sheets at once:

* `TypeCorrect`: `Spec => []TypeOK`.
* `HistoryAlwaysChains`: `Spec => []HistoryChains`, which no run repeats: the newest entry is
  the table in force, and entries of saves that did not overlap start where the one before
  ended.
* `ListedMovesAreTrue`: `Spec => []ListedMovesHappened`.
* `OnlyAgreedMoves`: `Spec => []AgreedMovesOnly`.

`FeeInv` follows a move from the sheet to the log: what a request read of the table and
the roster is in force until someone writes (`TableOK`, `RosterOK`), the row it logged
says what it read (`RowOK`), a PATCH nobody waits for still knows its row and what it
would find (`CallOK`), an entry is listed only after its PATCH landed (`EntryOK`), and a
save no other overtook holds what payroll is reading (`SaveOK`).

`AccessGateProofs`, for any number of requests, routes, features and sizes of the caches:

* `TypeCorrect`: `Spec => []TypeOK`.
* `ForgottenStaysForgotten`: `Spec => []ForgottenAtOnce`.
* `RevocationAlwaysBites`: `Spec => RevocationBites`.
* `SampledOnce`: `Spec => SampledOncePerWindow`.
* `AdmittedAlwaysProvided`: `Spec => []AdmittedIsProvided`.

An allowance is as old as the call that fetched it, so `AgeInv` dates what is stored
(`StoredOK`), asked (`CallOK`) and answered but not yet stored (`HeldOK`) against the
moment the permission was lost. `ForgetInv` adds that no check of a forgotten permission
comes back with an allowance. `SampleInv`: a pair whose last read is not past the window
is still in the table. `CoverInv` says that what a request found provided covers all its
route stands on. The closure is a recursive
function; that it exists and reaches its fixed point for every catalog is proved by an
induction over a set of rounds (`NatSetInduction`, `ClosureIsClosed`).

`ReportImportProofs`, for any facilities, courses, half-days, imports, jobs and calls:

* `TypeCorrect`: `Spec => []TypeOK`, which includes one row per bucket and half-day.
* `CommitKeepsToThePreview`: `Spec => CommitReplacesOnlyWhatWasValidated`.
* `HistoryAlwaysStays`: `Spec => []HistoryStaysOnTheBoard`.
* `LastImportAlwaysStands`: `Spec => []LastImportStands`.

A writer reads the legacy copy and writes the table in separate transactions.
`HistoryInv` says that until the table has rows each writer past its reading holds all
legacy rows still owed to the board (`DeskHolds`, `MigrationHolds`, `CallHolds`), and that
each of them is on the board, superseded, or still in the copy (`KeptOK`). For the
commit, every facility of a validated file was filed with the rows it had (`SnapOK`).
`LastInv` says that without overlap there is one writer under way (`Solo`), which finds
the table as it read it (`Current`), and that an empty table was replaced by nobody
(`Unreplaced`).

Assumptions: the named `ASSUME`s of the modules, which TLC evaluates in every run.
`ShiftMirror`: days are a finite set of numbers, a batch is not empty, `Nothing` and
"off" differ from real values. `RestDays`: months are non-empty intervals inside the
calendar, and the limit is between one and the statute, as the policy clamps it.
`TeeInventory`: horizons are records of a mode and a number, and the cap on a horizon is
a number. `TeeBooking`: the sheet and the older bookings name real tee times, the older
ones fit the capacity to begin with (`LegacyAssumption`; the manual slot they went through
is not part of the code any more), a plan's seats are a number and a round is sold within
them. `CustomerVisits`: tee times are numbers, finitely many are booked to begin with, and
a page is not empty (`SWEEP_PAGE`); the check-ins recorded to begin with name no seat
twice (`uq_golf_visit_checkins_seat`). `FeeBilling`: there is a sheet, and every sheet is
in a tab.
`CaddieDispatch`: groups are numbered by tee time, rounds take time by their plan and as
read back, stretches of other work are not empty. `AccessGate`: the lifetime of an allowance is positive
(`CACHE_TTL` is 60 s). `ReportImport`: the legacy copy has one entry per bucket and
half-day (Field keeps an object per bucket, keyed by half-day) and comes from no import.

Each inductive invariant was checked by TLC on the instance of its run, that of
`AccessGate` also with two requests at once, before it was proved.

Only model-checked: `SweepIsExact` (what a filter over a sequence counts is an induction
over data), and the liveness properties
(`RequestEnds`, `QueueDrains`, `RunEnds`, `SubmissionEnds`, `WindowIsFilled`,
`EveryGroupIsTold`, `RunsEnd`, `EveryRequestEnds`, `EveryoneIsAnswered`), since liveness
under fairness is outside what these proofs can reach. `WindowIsFilled` is checked for one
course; two courses share nothing but the early return of a ledger read (`CheckedToday`).
`PayChangeIsRecorded` is false of the code (section 4).

## 6. Observations

Read off the code or met as counterexamples while modelling, described here and not kept
as runs. Most are the exceptions the properties above state (`mark`, `overlapped`,
`raced`, `late`, `mixed`, `shifted`, `asRead`, `stale`, `contested`, `saved`, `owing`).

*Shifts*
* Overlapping requests: `set_field_shift_links` stamps unconditionally
  (`caddie_shift_repository.rs:228`), so the later of two requests can stamp a version
  Field was never told, while `migrations/202608260003:16` reads a stamp as new as the
  row as "Field has the current version".
* An edit that dies between the POST and the table leaves a shift in Field whose id
  nobody has.
* Pins made during a run: `generate_caddie_shifts.rs:183` saves the month from one
  reading without a condition on origin, so a day pinned after the reading is
  overwritten. `PinnedSurvives` therefore holds with one request at a time.
* Edited days: only pinned days survive regeneration (`caddie_shift.rs:290`), while
  `migrations/202608090002` says a desk decision survives the next run.
* Moved staff links: a DELETE under a new staff record answers 404, is read as already
  gone, and the id is dropped while the old shift stands
  (`field_staff_shift_gateway.rs:119`).
* The batch is the first 200 days in date order (`caddie_shift_repository.rs:264`); 200
  days Field cannot answer for keep later ones waiting.
* The earlier month planned last: the run that starts in it is joined to the later
  month's without being counted, so the limit can be exceeded across the join.
* Everybody off: a protected weekday outranks the count of people off
  (`caddie_shift.rs:719`), so a window with one unprotected day gives it to the whole
  roster, although `caddie_shift.rs:522-524` says the day everybody is off never happens.

*Dispatch*
* With two requests at once the checks before the write do not exclude each other: two
  caddies can be named for one group, a caddie named or moved during a cancellation stays
  on the cancelled group, and a round completed while the day is cleared is taken back.
* `check_round_can_be_walked` looks at neither the daily limit nor the confirmed shift,
  while `create_caddie_assignment.rs:8` calls its checks the ones the planner applies.
  `PlanKeepsLimit` is a property of the planner only.
* `reassign_caddie_assignment.rs:142` falls back to the old tee time also when the group
  changes, where line 42 calls the new one required.
* A release that fails during a cancellation is logged and left; the code says so, and
  `CancelReleases` speaks of cancellations whose calls succeeded.
* Rows are filed without a duration and read back at 270 minutes (`caddie.rs:455`), while
  the checks use the length of the plan. Of a round that lasts longer, the hours past 270
  minutes are free for the next round or other work.
* A status update forwards the whole row as the table loaded it
  (`update_caddie_assignment.rs:29`, `CaddiesPage.tsx:2065`). After a move, or a
  cancellation by somebody else, it moves the row back or brings it to life again, with
  strictly one request after another: closing a row on a table loaded before the row was
  moved puts it back beside the caddie named there since. `create_caddie_assignment.rs:8-11`
  says its checks keep the desk from creating "two caddies on one group" by hand.

*Cancellation fees*
* Navigating away inside the app does not abort a submission (`CancellationsPage.tsx:902`).
  The loop goes on posting at its rate and overwrites the tab's recoveries with its own
  (`:772`), so a sheet opened meanwhile can bill a booking again at another rate, and a
  recovery it saved can be lost. The read of Field's invoices is called "the guard against
  billing somebody twice" (`models.ts:133`); a loop that has not come to a payer yet is in
  neither place that guard looks.
* The recoveries belong to one tab. Two tabs, or a tab whose session storage is lost,
  can bill a booking twice at different rates.
* A booking Field already holds an invoice for is skipped, so a bill that was created but
  not recorded leaves its rows unsettled until somebody decides about them.
* Field is told of at most 50 bookings of a bill; the others of a larger group are not
  recognised as billed when the sheet is opened afresh.
* Waiving and settling are unconditional updates: the later decision wins.

*Report figures*
* Overlapping writers: a seeder that read the copy early can put old rows over a newer
  import, the direct import deletes stale keys it read before its transaction, and the
  common import's seeding of the copy can bring back rows deleted since.
* The migration copies the rows of active courses only and then deletes the whole copy,
  so the history of a course closed at that time is gone
  (`reservation_report_migration.rs:101` says that inactive courses still own history).
* Deleting the key from the extension config is a read-modify-write of the whole config.

*Tee times*
* A sync that read a schedule before a save puts the older week back
  (`course_schedule.rs:465`).
* A saved week whose build fails stays stored (`course_schedule.rs:156`) and the watermark
  stays too. Top-ups only build past the watermark (`:226`), so the days below it keep the
  tee times of the week before, or none if that was empty, until somebody saves again,
  moves the horizon or builds by hand. A top-up that ran while the week was empty files
  its watermark all the same (`:428`).
* The deadline of the ledger read, or a save without an answer, gives up on a PUT that may
  still land and put an older week back.
* A course skipped at the edge of the horizon does not record the day it was checked, and
  shortening the horizon removes no day already built.
* Two requests that read the board before either landed can oversell a tee time that has
  an older manual-slot booking, and two corrections side by side can exceed the seats of
  the plan. A new booking is not held against the plan's seats at all.
* A mark set between the check and the POST does not stop the sale.
* After a lost answer, a POST still on its way when the sheet is sent again books its
  group twice, while `import_start_ledger_parties.rs:5` calls sending again safe.
* A correction of the party sends the whole party as it was read.

*Visits*
* Paging by offset reads a booking twice, or skips one, when the listing moves under the
  sweep. A customer whose bookings were relinked keeps the figures of the last sweep.
* The customer's page shows at most 2000 own bookings and looks up at most 100 other
  groups, which it says (`get_customer_visits.rs:91`, `:121`). A lookup that fails drops a
  guest round without saying so (`:150`), so the page may show less than the stored row.
* A sweep stops at the cap among the check-ins without marking anything
  (`refresh_customer_summaries.rs:259`), while `:41-42` says that past it "every summary
  it wrote is marked as a partial count": guest rounds and arrivals beyond the cap are
  missing from rows that are graded as complete. `SweepIsExact` says of such a run only
  that it makes up no round.
* Somebody checked in at two seats of one group is counted twice by the sweep and once on
  their page (`refresh_customer_summaries.rs:14`, `get_customer_visits.rs:112`).
* Nothing in the repository starts the sweep in production, overlapping sweeps are not
  excluded, and a process that dies leaves its run "running".

*Access*
* A check answered before a revocation that comes back after the invalidation stores the
  allowance for one more TTL; other instances are not told at all; and a members call
  whose answer is lost invalidates nothing.

*Rank fees*
* Overlapping saves give two history entries with the same previous table.
* The PATCH sends the whole profile as the request read it, so an edit made in between is
  undone. Two sheets open at once can list one move twice.
* A confirmation that fails leaves the row pending, and pending rows are never listed.

## 7. Not modelled

* *Read-only parts*: tee sheet and ledger views, exports, weather, attendance and supply
  figures, insights, rendering. They keep no state; where a model depends on one (the tee
  sheet, the customer page) it appears as the operator that computes it.
* *Single calls*: courses and resources, roster and memberships, customers, grades,
  consents, pricing settings, the older payment links. Each forwards one write, so there
  is no order of steps to get wrong; the writes that meet a modelled protocol (opening a
  course, editing a profile, relinking staff or customers) are actions there.
* *Arithmetic*: payroll, settlement, tax, ranking scores and shift hours are sums and
  orderings over what was read, covered by the unit tests beside them. Amounts appear in
  the models only where a property compares them.
* *Adapters*: HTTP decoding and encoding, the proxies, start-up, configuration,
  migrations, the agent, demo data and most of the desktop application. They make up most
  of the repository's lines, together with the inline tests, which is why the modelled
  lines are a small share of all of them although they hold most of the writes that span
  two stores.
* *Parsing*: report files, photographed ledgers, scanned forms and bearer tokens are
  abstracted to their outcome.
