# Tempica: formal models

TLA+ models of the Tempica attendance system (NestJS backend on PostgreSQL
through Prisma, Next.js frontend), checked with TLC on small instances and,
for the properties that matter most, proved with TLAPS for every instance.
`PROJECT.json` maps every definition to the lines it models; this file says how
the parts fit, what is checked and proved, under which assumptions, and what is
left out.

## 1. Inventory

| Part | State it keeps | Operations | Interacts with |
|---|---|---|---|
| Approval workflow (`approvals/`) | `approval`, `request.status/current_step` | `act`, `autoResolve`, `recordDecision`, `applyEffects`, `pendingFor` | routes, authorization, time records, leave, summaries, audit, notifications |
| Requests (`requests/`) | `request` | `create`, `cancel`, list | routes, approval workflow, monthly close (a check), leave (a warning) |
| Approval routes (`approval-routes/`) | `approval_route` | CRUD, `resolvePlan`, `candidateApprovers`, `decideStep` | departments, authorization |
| Authorization (`common/rbac.ts`, `rbac/`, `common/permissions.guard.ts`) | roles' permission lists | `resolveScope`, `isVisible`, `accessibleDeptIds`, `eligibleApproverIds`, `countAdmins`, the guard | every endpoint |
| Time records (`time-records/`) | `time_record` | `punch`, list | summaries |
| Daily summaries (`summaries/`) | `daily_summary` | `recompute`, `monthly`, the calculation | time records, work patterns, shifts |
| Monthly close (`closings/`) | `monthly_close`, `daily_summary.status` | `precheck`, `close`, `reopen` | summaries, requests |
| Leave (`leave/`) | `leave_type`, `leave_balance` | types CRUD, `grant`; consumption by the workflow | approval workflow |
| Roles and members (`roles/`, `users/`) | `role`, `app_user`, `user_role` | create, duplicate, update, remove; the last-administrator rule | authorization, audit, the connection pool |
| Departments, work patterns, shifts, organization | their tables | CRUD, assignment, bulk upsert, lists filtered by scope | authorization, summaries, routes |
| CSV export (`csv/`) | `csv_mapping` | export, the mappings' CRUD | monthly close, summaries, organization settings |
| Setup and seed (`setup/`, `seed.ts`, `docker-entrypoint.sh`) | the first organization | `setup`; the seed at every start of the container | every table |
| Notifications and jobs (`notifications/`, `jobs/`, `worker.ts`, `mail/`) | `notification`, the job queue | `notify`, `enqueue`; the worker's `work` and `send` | approval workflow |
| Audit, authentication | `audit_log`, sessions | `record`; login, `deserializeUser` | every endpoint |
| Frontend | component state: lists of some time ago, busy flags, forms | punch page, approvals page with bulk approval, route form, other pages | the API |

What makes the system hard is the same everywhere. A handler is an `async`
function: between two `await`s it runs alone, at every `await` other handlers
may run, and what it read before may be outdated when it writes. No query locks
a row, no update is conditional on what was read (`where: { id }`), and only
some groups of writes are transactions. A handler may also be lost between two
awaits: the process stops or a query fails, and nothing retries. So for every
part the questions are the same: what holds whatever overlaps or is lost, what
holds only while handlers do not overlap, and what must eventually happen.

What makes each part correct:

* Workflow: steps are decided in order, once, by whom the route says and never
  by the applicant unless the route allows it; a request ends once; its effects
  are in the database exactly when it is approved; nobody waits for nobody;
  steps without an approver are passed.
* Authorization: the walk of the department tree ends and finds the subtree.
* Time records, summaries, close: the punches of a day make sense; a summary
  counts the records of its day; a closed day is frozen (the code keeps neither
  of the three when handlers overlap, section 4); a close counts everything
  before it locks; a day is locked only while its month is.
* The figures of a summary: the worked and night minutes are those the punches
  say, rounded as the rule says, whatever sessions and breaks the day has.
* Leave: no balance is overdrawn, balances are used in the order they expire,
  what is approved is what is charged, approvals do not block each other, each
  committed approval is notified once and its mail dealt with.
* Roles and members: an administrator remains, names are unique, nobody holds a
  removed role, changes that wait for each other's connections end.
* Master data: who set an organization up can administer it, periods of work
  patterns do not overlap, nobody loses his department without being asked, what
  the code checks is what the database insists on, lists show whom a single
  read may see.
* Export: the file says of a locked day what was locked.
* Pages: a button does what the server would take, once, and a success shown is
  one that happened; a route built on the form can be walked to its end.

## 2. Modules

| Module | Models | State and actions |
|---|---|---|
| `Directory` | `common/rbac.ts`, lookups of `rbac.service.ts` | operators only, on a record of members, departments and permissions |
| `ApprovalRouting` | `approval-routing.ts`, `approval-routing.service.ts` | operators only; extends `Directory` |
| `RequestWorkflow` | `requests.service.ts`, `approvals.service.ts`, route and member administration | the tables `request`, `approval`, `audit_log`, the routes and the directory; one action per stretch of a handler between two awaits; extends `ApprovalRouting` |
| `RequestLifecycle` | the abstract life of one request | file, advance, approve, reject, cancel |
| `RouteForm` | the route page, the DTOs of `approval-routes.module.ts` | the steps on the form; add, choose, remove, create, remove a route; extends `RequestWorkflow` |
| `ApprovalsPage` | `approvals/page.tsx` | the list as queried, busy row, presses of the buttons and the answers they wait for; extends `RouteForm` |
| `DeptTree` | `accessibleDeptIds` | the stack walk, one action per department taken off the stack; extends `Directory` |
| `MasterData` | container start, seed and setup; departments, members' departments, work patterns and assignments, leave types and grants, shifts, CSV mappings, organization; the lists' filters | their tables and foreign keys; a handler is its list of checks, its write and its audit record; extends `DeptTree`, whose walk it starts on the tree it edits |
| `PunchState` | `punch-state.ts` | operators only |
| `AttendanceCalc` | `attendance-calc.ts`, `resolveRule` | one day's records, grown by punches and corrections, and the summary recomputed after each; extends `PunchState` |
| `Administration` | `roles.module.ts`, member create and update, the guard in front of them | `role`, `app_user`, `user_role`, `audit_log`; each await and each statement of a transaction is an action |
| `AttendanceClose` | `time-records.module.ts`, `recompute`, `closings.service.ts`, what corrections do to the same tables | `time_record`, `daily_summary`, `monthly_close` of one period; punch, file, approve, recompute, precheck, close, reopen |
| `PunchScreen` | `usePunch.ts`, `punch/page.tsx`, `api.ts` | the records shown, busy flag, presses; press, post, answer or loss, refresh, show; extends `AttendanceClose` |
| `CsvExport` | `csv.service.ts`, the export endpoint, the setting it reads | one record per export with the file so far; extends `AttendanceClose` |
| `LeaveLedger` | `applyEffects` for leave, `grant` | balance rows and the transactions that consume them, statement by statement |
| `DecisionMail` | `notify`, `enqueue`, `worker.ts`, `mail.service.ts` | the notifications and jobs of each final approval; the end of the transaction and the worker; extends `LeaveLedger` |
| `MC*` | | small organizations, days and balances for TLC |
| `*_proofs` | | theorems and proofs: `RequestWorkflow_proofs` and `ApprovalsPage_proofs` for the workflow and its pages, `Attendance_proofs` for the books, the punch page and the export, `AttendanceCalc_proofs` for the figures of a summary, `LeaveLedger_proofs` for the balances and the notifications, `Administration_proofs`, `MasterData_proofs` (also for `DeptTree`), and `Folding_proofs`, the facts about folds and sums they share |

How a handler is modelled: `call[c]` is a record with a program counter (the
await the handler stands at) and the local variables that outlive the await. An
action reads the tables, decides and writes as the code does until the next
await. A `$transaction` is one action where only its outcome matters
(`RequestWorkflow`, `AttendanceClose`: all its writes become visible at commit
and none depends on a read inside it); in `LeaveLedger`, where a query inside the
transaction matters, its statements are separate actions with row locks. In
`Administration` a transaction's writes are kept in its call until the commit
applies them, which is what READ COMMITTED shows to others, and a statement
that needs a row, a role name or a referenced role another transaction has
written waits for it. A connection is needed by every query; a transaction
keeps one to its end. An update of a member with `roleIds` alone (`rest` is
false) gives Prisma an update clause without a value, for which it issues no
`UPDATE`: it locks no row of the member, and its `deleteMany` finds what is
committed then and waits only for rows somebody else has deleted (`FindRoles`,
`DeleteRoles`, `CreateRoles`).
`Crash(c)` (or `Rollback(c)`) loses a handler at any await: what it had committed
stays, the rest is not done.

Composition:

* `RequestWorkflow` holds the effects of an approval as a counter and of the
  recompute after it only that it keeps the handler; `AttendanceClose` and
  `LeaveLedger` model the two kinds of effect in the tables they touch. It is checked to implement `RequestLifecycle`,
  also with the pages of `ApprovalsPage` and `RouteForm` on top.
* `Directory.Subtree` states what `DeptTree` is proved to compute, so that the
  workflow can use the set. `MasterData` runs the walk on a tree that its own
  handlers edit, and compares the visibility of one member with the filters of
  the lists.
* `AttendanceClose` abstracts a summary to the set of records it was computed
  from and `AttendanceCalc` says what figures such a set gives; both use
  `PunchState`. The page of `PunchScreen` works the state out a second time, as
  the frontend does.
* The modules on top of another one (`PunchScreen`, `CsvExport`, `DecisionMail`,
  `RouteForm`, `ApprovalsPage`) take its actions as they are, all of them or
  those of the other users, and add the client's half: a request starts a
  handler of the module below, whose end (or loss) is the answer.
* `Administration` decides with the `ResolveScope` of `Directory`, as the workflow
  does, for members whose session can still be loaded (`SignedIn`).

Abstractions:

* Reads that follow each other in one handler and concern only the
  administrators' tables (plan, fixed approvers, candidates) are one step.
  Reading the rule for a recompute (`resolveRule`) is left out, since a summary
  is abstracted to the set of records it was computed from.
* One period (organization and month), its members fixed; a day is a (user,
  date) pair. `assertNotClosed` therefore always looks at that period.
* `AttendanceCalc` counts time in ticks, several to the minute, so that there are
  fractions to round. Shifts are given in whole minutes (`@db.Time` columns
  filled from `HH:MM`). No two records of a day have the same time. Days and
  times are in the server's time zone, which is UTC in the shipped containers.
* A member stands for its e-mail address, and what a permission allows is
  reduced to managing roles and creating and editing members.
* `MasterData` leaves out columns nobody reads there; ids of new rows are never
  given twice (`used`), as UUIDs are not. Its handlers keep what they read
  (`found`, `at`, `from`) across awaits, and the walk, which does not await, runs
  to its end before anybody else moves (`Turn`).
* An answer that never arrives and a handler that is lost are the same to a page:
  the request fails. `PunchScreen` models one member's page, `ApprovalsPage` one
  approver's; others act through any client.
* A job handed to pg-boss is there for the worker at once, whatever becomes of
  the transaction it was sent in; it is taken once and not tried again.
* Payloads are reduced to what the properties see: the records a correction adds
  to each day (`FixRecords`) and the day its target date names, if any
  (`FixTarget`; in `RequestWorkflow` a choice when the request is approved), the
  minutes a leave request asks for (which may be negative: `days` is not
  validated).
* `findFirst` without a full order is a choice among the rows that may come
  first (`FirstRoutes`).

## 3. Runs

Bounds are in the `.cfg` files; each comment there says what the instance is.

| Run | Instance | Shows |
|---|---|---|
| `concurrent` | one request, three steps (department manager, scope, named user), two handlers, loss at any await, the route replaced, the last approver retiring | `NoStepSkipped`, `RowsMatchAudit`, `ApprovedIsComplete`, `DecidersEntitled` |
| `serial` | two requests, routes of two steps put together on the form before the first request is filed (`RoutesFirst`), one approver (`ManagerOnly`) whose page has two presses under way, one handler, one handler or answer lost (`MaxLost`) | `ImplementsLifecycle`: the workflow implements `RequestLifecycle`; `WaitsAtAStep`, `OneStepPerPress` |
| `progress` | one request, two scope steps, two handlers, none lost, eight assignments of permissions | `WaitingIsListed`; liveness `OrphansMoveOn` |
| `double_decision` | as `concurrent`, two steps | violates `DecidedOnce` |
| `books_serial` | two days, two punches, one handler, loss at any await; one correction with records on both days and one without a target date (`NamedDay`, `Forgotten`); the page of the first day's member with two presses and the first query under way, queries and answers lost | `ValidPunches`, `ExactUnlessMissed`, `CloseCountsAll`, `ButtonsAgree`, `ConfirmedIsBooked` |
| `books_concurrent` | two days of two members, one punch each, one correction, two handlers, one export at a time | `ClosedUnderClose`, `FileAsLocked`; liveness `CloseEnds` |
| `leave` | two balances, three requests (one for a negative time), two approvals at a time, each rolled back or not; the first request is approved up to twice and its mail followed (`Followed`, `OthersOnce`), a grant | `UsedWithinGranted`, `EarliestFirst`, `SpendsExactly`, `OneNoticeEach`; liveness `ApprovalsEnd`, `MailFollows` |
| `leave_lost_update` | two approvals of different requests | violates `NothingLost` |
| `administration` | two administrators of different reach, a member to create, three role ids, three names, two requests at a time over two connections | `NamesUnique`, `HeldRolesExist`, `AuditTellsTruth`; liveness `ChangesEnd` |
| `last_admin` | as above with one administrator | violates `AdminRemains` |
| `attendance_calc` | a day of eight ticks (four minutes), up to six records with one correction, five rules, twelve patterns and shifts | `WorkedAsPunched`, `NightAsPunched`, `KeptShift` |
| `master_data` | two starts of the container (`MaxBoots`) with and without the seed, which may be cut short at its first or second statement (`CutAt`), and any three (`MaxRequests`) of twenty-eight requests, two handlers; three departments that can be made a cycle, members of three scopes | `InitializedHasAdmin`, `LoneRequestsSucceed`, `AssignmentsDisjoint`, `WalkFindsSubtree`, `ListsAgree`, `NobodyStripped`; liveness `WalkEnds` |

Why the bounds are enough: a race of the kind the code is exposed to needs two
handlers, one that read and one that writes in between; three steps are needed
for a step to be decided before, at and after the current one; two days to see
a close halfway through its list; two balances and requests for more than the
first one to see a request spread over rows and two approvals lock rows in turn; a pool of two for two
role changes to take all of it; six records for two sessions and a break or a
session with two breaks, and units of one to three minutes on a day of four for
every remainder of a rounding. Two presses of a button show a double press and a
press during the query that follows another, two punches and a corrected clock-in
every state of a day; the corrections have a record on the day that is recomputed,
one on another day and one with no recompute at all; three requests
in `master_data` are two that overlap after one that prepared them, such as a
department moved under its child before the walk. The seed is cut before it wrote anything and after the
organization's row; further on its rows only differ in number.
Deadlock is not checked where the system may stop: balances with nothing left to
approve, requests that were all made, a day with all its records, a container
that stays down.

`concurrent` uses the symmetry of the handlers, `serial` that of presses and
requests, `books_serial` that of the presses: each is interchangeable there and
none of these runs checks liveness. In `serial` the approvals page may always be opened
again, in `books_serial` an administrator may always close and reopen.

Fairness: weak fairness of the continuation of each handler, and of each
statement whose lock is free. Node.js resumes a handler whose await settles and
PostgreSQL serves a statement that waits for no lock, so neither starves. Nothing
makes a user act, a handler start or an administrator edit, so these have no
fairness; liveness is stated only for what a handler has already begun and is
checked without losses (a lost handler is not resumed and nothing retries).
In `leave` rollbacks stay enabled: they end a transaction too; the worker of
`compose.yaml` is assumed to run (`MailFollows`), and a mail it gives up counts as dealt
with. In `master_data` only the walk is fair, which is one stretch of
JavaScript. In
`administration` the five seconds Prisma gives a transaction are weakly fair:
no transaction outlives them, and without them two role changes that hold both
connections wait for ever. The ten seconds a query waits for a connection may
pass at any time, as the rest of the server uses the pool too, and nothing
depends on them.

## 4. Known divergences

Runs that TLC must refute:

* `double_decision`: `act` checks that a step is pending in one query and
  `recordDecision` writes unconditionally, so two handlers both decide a step
  (`docs/design.md:827` promises 409 for the second). On the last step the
  effects are applied twice.
* `leave_lost_update`: consumption is written as a number computed from an
  earlier query of the same READ COMMITTED transaction, not as an increment.
* `last_admin`: the guard of `roles.module.ts:114` counts administrators on
  `this.prisma` while the change is still inside its transaction `tx`, so it sees
  the state before the change: it lets the last administrator go, and once there
  is none it refuses every change of a role, the one that would bring one back
  included. `PATCH /members/{id}` (`users.controller.ts:121`), which can take the
  last administrator's role or status, has no such guard.

Seen with TLC by changing a bound or dropping a premise of a passing run:

* `cancel` checks the status in one query and writes it in another: with two
  handlers an approved request, whose effects are applied, can become canceled
  (`ImplementsLifecycle` with two handlers; `requests.module.ts:42` says pending
  ones only).
* Two punches validated against the same earlier ones are both stored
  (`ValidPunches` in `books_concurrent` with two punches;
  `time-records.module.ts:34` promises 409).
* A recompute that found its day open writes after a close has locked it
  (`books_concurrent` with an action property that closed summaries keep what they
  count; `summaries.service.ts:67` says that closed days are not recomputed). Only
  recomputes already under way do so, which is what `FileAsLocked` shows.
* Two recomputes of a day overlap and the older reading is written last, so that an
  approved correction is missing from the summary recomputed for it
  (`ExactUnlessMissed` with two handlers, a punch and a correction;
  `docs/implementation-notes.md:31`).
* A slow decision of step 1 that commits after step 2 was decided sets
  `current_step` back to a decided step; the request then waits for nobody
  (`WaitingIsListed` without its premise on the step's row, three steps, two
  handlers).
* `WaitingIsListed` fails for a step fixed to an active user without the
  approval permission (`approval-routing.service.ts:58` counts him, the guard
  refuses him), and under a route that allows self-approval when the applicant is
  the only approver (`approvals.service.ts:46` never lists his own requests).
* A step blocked by its route's policy leaves the stored request pending, as
  `docs/implementation-notes.md:24` says, whereas `common/constants.ts:104` says
  the request is not accepted (422).
* `resolvePlan` orders by `applies_to`, which puts `all` before every request type,
  so a specific route never governs while a general one exists, against the
  comment at `approval-routing.service.ts:34`.
* An approved correction recomputes the day of its `target_date`, and none without
  one (`approvals.service.ts:245`), whatever days its records are on: those days
  stay uncounted until something else recomputes them (`ExactUnlessMissed` without
  `missed`). The request page always sends a date, with times in `+09:00`: where
  the server runs in UTC a time before nine is one of the day before.
* Two updates of a member with `roleIds` alone leave a mixture of their lists, as
  nothing locks the member (`users.controller.ts:131`; the members page sends no
  roles in an update, so this takes another client).
* `punch` and the approval of a correction filed earlier never look at
  `monthly_close`: records are added to a closed month.
* A shift that ends the next morning has a negative span, hence no scheduled
  minutes: all work on it is overtime and leaving early is never noticed
  (`summaries.service.ts:58`; `KeptShift` without its premise). Work over midnight
  is lost in any case: punches and summaries look at one calendar day, although
  `attendance-calc.spec.ts:57` computes such a session.
* A break that is ended by clocking out is never taken off the work, and a break
  of a session still open is taken off the sessions before it
  (`WorkedAsPunched` says what it may be).

* With a rounding unit of one minute the minutes are rounded to the nearest one
  even where the method is `up` or `down` (`attendance-calc.ts:35`); `Rounds`
  treats that unit as no rounding.
* A department removed after its members were counted takes the department of
  a member who moved into it meanwhile, without an error (`ON DELETE SET NULL`;
  `NobodyStripped` without its premise); the removal of a leave type clears the
  type of the leave requests that name it, overlap or not (`leave.module.ts:108`
  asks for balances only).
* A department id that does not exist is refused for a department but not looked
  up for a member: the foreign key answers (the exception in
  `LoneRequestsSucceed`).
* The mail of a final approval is sent although the decision is rolled back
  afterwards: the job is queued over another connection (`jobs.service.ts:42`)
  before the commit.
* A seed cut short after its first row leaves an organization, which every later
  start and setup takes for finished although it may have no administrator,
  against `seed.ts:8` (`InitializedHasAdmin` without `~boot.cut`). Two setups at
  once create two organizations, against `setup.service.ts:8`.
* The file of a closed month contains open rows where the first record of a day
  came after the close (`CsvExport` with a member who had not punched before).
* The bulk approval has no busy flag: pressed twice it sends every row twice, and
  what the second pass was refused is skipped silently (`approvals/page.tsx:46`).
* After a punch whose answer was lost, or answers that arrive out of order, the
  punch page shows a day that is out of date; a button it then offers is refused.
* `RouteForm`'s page offers the types `manager` and `any`, which the API refuses:
  only routes whose steps all name a member can be created there, and a step
  without a member chosen is accepted and later passed for want of an approver.

Read off the code:

* The API takes a route's step numbers as they come (`approval-routes.module.ts:34`);
  the page alone numbers them without gaps.
* A grant without an expiry date looks for a row by a composite key with a null
  in it, which Prisma refuses (`leave.module.ts:145`).
* A leave counted in hours or halves is charged nothing when filed on the page,
  which sends `days` only (`leave-minutes.ts:10`); days that are not a number make
  the final approval fail every time.
* The compose file starts no worker by default: mails stay in the queue.
* The check before the close counts the pending requests of the whole
  organization, not of the month (`closings.service.ts:33`).
* Pages that query again when a month or filter is chosen show whichever answer
  comes last (`closing/page.tsx:23`).
* A cancellation whose handler is lost before its audit record leaves none
  (`requests.service.ts:139`).
* In the shipped containers the server runs in UTC: a Japanese working day is cut
  at nine in the morning.
* Nothing recomputes a day when its work pattern, rule or planned shift changes.
* `isHoliday` is never set, so `holidayMinutes` is always 0.
* `recompute` works in the server's time zone but takes the date for the rule from
  `toISOString()`: with a zone ahead of UTC the rule is that of the day before.

## 5. Proofs

| Theorem | States | Argument |
|---|---|---|
| `RequestWorkflow_proofs!TypeCorrect` | `Spec => [](TypeOK /\ Placed)` | `TypeOK` is not inductive alone: a handler that will write must hold a request and a step of it. `Placed` says so for each program counter; one lemma per action |
| `RequestWorkflow_proofs!HandlersProgressed` | `Spec => []Progressed` | every step that a request has reached, or that a handler is about to decide, follows an approval in the audit log; the log only grows (`Appends`), so it stays so whatever else commits |
| `RequestWorkflow_proofs!StepsInOrder` | `Spec => []NoStepSkipped` | a decision is appended by a handler for which `Progressed` holds; lemma `AppendInOrder` |
| `RequestWorkflow_proofs!RowsAlwaysMatch` | `Spec => []RowsMatchAudit` | a decision sets the row of its step and records that step (`DecisionMatches`); rows are only added to a request without a log (`Fresh`), and no other entry is a decision |
| `RequestWorkflow_proofs!DecidersAlwaysEntitled` | `Spec => []DecidersEntitled` | `Deserved`: a pending row names the approver it was created for, so what `act` read is what the request was created with; the route it checked is one of those there ever were. Neither changes later, whatever happens to rows, routes and roles before the write |
| `RequestWorkflow_proofs!ApprovedAlwaysComplete` | `Spec => []ApprovedIsComplete` | the final approval compares its step number with the number of rows only; `FinalStepIsLast`: by `Progressed` the steps before it are approved, so are that many rows, and by cardinality there is no other |
| `RequestWorkflow_proofs!AloneImplementsLifecycle` | `OneHandler /\ RoutesWithin => (Spec => ImplementsLifecycle)` | with one handler what it read is still there when it writes (`Undisturbed`), so each action is a step of `RequestLifecycle` or leaves it unchanged (`StepRefines`); handlers may be lost and administration goes on. Two handlers break it (section 4) |
| `RequestWorkflow_proofs!SomebodyAlwaysAsked` | `Settled => (Spec => []WaitingIsListed)` | `SettledInv`: a request whose step has no approver has a handler that will look at it (`Attended`), and `autoResolve` has not gone through its loop more often than steps are decided (`AutoInv`), so `LoopLimit` does not end it early; what `decideStep` found for a step is then somebody whom `act` accepts and `pendingFor` lists (`SomebodyIsAsked`). The handlers may overlap in any way |
| `ApprovalsPage_proofs!PressDecidesOne` | `PageSpec => []OneStepPerPress` | `Disjoint`: the list has at most one step of a request, and what a press has decided, is deciding and has yet to send are rows of the list it was made on |
| `ApprovalsPage_proofs!WaitingStands` | `FormFits => (PageSpec => []WaitsAtAStep)` | the form numbers its steps from 1 without a gap through every addition and removal (`FormCounts`), so do the routes created from it, the rows a handler is about to create and those of each request (`Counted`); a step is left only for one with a row |
| `ApprovalsPage_proofs!PagesImplementLifecycle` | `OneHandler /\ FormFits => (PageSpec => ImplementsLifecycle)` | a step of the pages is one of the workflow or changes nothing the contract speaks of (`PageSteps`), and by `Counted` every route the form saves has a step with a number requests may have (`RoutesUsable`), which is all `StepRefines` needs of the routes |
| `Attendance_proofs!TypeCorrect` | `Spec => [](TypeOK /\ Placed)` | as above |
| `Attendance_proofs!LockFollowsMonth` | `Spec => []ClosedUnderClose` | the upsert of a recompute keeps the status or creates an open row; only close and reopen change statuses, of all rows and the month together |
| `Attendance_proofs!AloneCloseCountsAll` | `OneAtATime => (Spec => CloseCountsAll)` | `ClosesInOrder`: the days with a summary that is not exact are on the list the close has still to go through, or the one it is at |
| `Attendance_proofs!AlonePunchesInTurn` | `OneAtATime => (Spec => []ValidPunches)` | the punches of a day whose punches are in turn leave the state that the last of them alone gives (`StateOfTurns`, with the fold of `Folding_proofs`); a punch under way is later than all that are stored and what its check found still holds when it is stored (`PunchInv`) |
| `Attendance_proofs!AloneExactUnlessMissed` | `OneAtATime => (MCSpec => []ExactUnlessMissed)` | a day whose summary is behind its records is being computed by the handler or in `missed` (`Behind`); a day without a row counts nothing (`RowsFollow`), so outside of `missed` it has no record, and the days that have one are among those the precheck counts |
| `Attendance_proofs!ScreenImplementsClose` | `ScreenSpec => Spec` | a press starts a handler of the time clock and reads its end; every step of the page is one of `AttendanceClose` or leaves it alone |
| `Attendance_proofs!PageTellsTruth` | `ScreenSpec => ConfirmedIsBooked` | `Served`: the handler that works for a press has its record among the day's from the insert on and in what it has read for the summary; whatever other handlers do |
| `Attendance_proofs!ButtonsAlwaysAgree` | `ScreenSpec => []ButtonsAgree` | the two programs go through the same punches in the same order and take the same step at each of them, so the functions the folds are defined by are the same (`StatesAgree`); the records shown are finite |
| `Attendance_proofs!ExportImplementsClose` | `CsvSpec => Init /\ [][Next]_vars` | exports only read |
| `Attendance_proofs!FilesAsLocked` | `CsvSpec => []FileAsLocked` | a day found locked while nobody was computing stays as it is until the month is reopened (`Stays`), and the days of the members read so far are in the file (`Faithful`) |
| `AttendanceCalc_proofs!HoursAsPunched` | `Spec => []WorkedAsPunched` | `CalcInv`: the work intervals of `buildIntervals` without its breaks cover exactly the ticks that the punch states say were worked; the next of the four punches keeps that so (`PunchTold`). Intervals follow one another, so the sum of their lengths is the number of ticks they cover (`DurationCounts`), breaks lie within work, and each rounding is within a unit of it and keeps the order (`RoundsAsRuled`, `RoundingInOrder`) |
| `AttendanceCalc_proofs!NightsAsPunched` | `Spec => []NightAsPunched` | the same invariant; what an interval shares with the bands is the number of its ticks in the night (`NightOverlapCounts`), and those of the breaks are taken from those of the work (`NightCounts`) |
| `AttendanceCalc_proofs!ShiftsKept` | `Spec => []KeptShift` | the first interval starts no later and the last ends no earlier than a tick worked; nothing rounds to nothing (`NothingRounds`), and rounding up or to the minute loses no whole minute (`WholeMinutesKept`) |
| `LeaveLedger_proofs!NeverOverdrawn` | `Spec => []UsedWithinGranted` | what a transaction read as used plus what it computed as left is at most what is granted, and grants only grow; so every value it may write is within the grant even if outdated (`LedgerInv`) |
| `LeaveLedger_proofs!EmptiedInOrder` | `Spec => []EarliestFirst` | `OrderInv`: the rows behind a transaction that has still something to find are emptied as far as it could see |
| `LeaveLedger_proofs!SpentExactly` | `Spec => []SpendsExactly` | a row is taken once, and a sum changes by what one of its summands does (`TotalChange`, with the fold of `Folding_proofs`) |
| `LeaveLedger_proofs!MailImplementsLedger` | `MailSpec => Spec` | the end of the transaction taken apart for the notification is still one step of the ledger |
| `LeaveLedger_proofs!NoticePerDecision` | `MailSpec => []OneNoticeEach` | the row not yet committed is the last of its request (`RowIsLast`); the commit stores that one and counts one decision, everything else leaves the stored rows alone, and their number is a cardinality |
| `Administration_proofs!TypeCorrect` | `Spec => [](TypeOK /\ Placed)` | as above |
| `Administration_proofs!NamesStayUnique`, `HeldRolesStay` | `Spec => []NamesUnique`, `Spec => []HeldRolesExist` | `AdminInv`: a role change between its write and its commit has a role that is there, that no other change has, and a name that is free and that no other change wants (`LockInv`, from the row locks and the unique index); roles about to be given to a member are there and nobody is removing them (from the foreign key) |
| `Administration_proofs!AuditStaysTrue` | `Spec => []AuditTellsTruth` | a request stands before its audit record only after its commit, and what a record says stays true because rows never come back (`Onward`) |
| `MasterData_proofs!AdminWithOrganization` | `DataSpec => []InitializedHasAdmin` | `DataInv`: the row the seed has reached says which organization and administrator are there (`Seeded`); while it runs no handler does, since handlers are lost with the server, and without an organization only setups are under way (`Alone`); a setup adds both rows at once |
| `MasterData_proofs!PatternsDisjoint` | `DataSpec => []AssignmentsDisjoint` | the exclusion constraint speaks of days and the property of the ends of periods: two periods that start before they end share a day when they overlap (`Spans`); the seed's three assignments are of three members |
| `MasterData_proofs!NobodyIsStripped` | `DataSpec => NobodyStripped` | `RowInv`: rows that are not there refer to nothing, and what a handler nobody overlapped has checked is still so when it writes (`LoneFinds`), so a lone removal has no row left that refers to it |
| `MasterData_proofs!LoneRequestsGoThrough` | `DataSpec => []LoneRequestsSucceed` | the same invariant: each constraint an operation can run into follows from one of its checks, one case per operation |
| `MasterData_proofs!ListsShowTheReadable` | `DataSpec => []ListsAgree` | the filters of the lists are the visibility rule, one case per scope; it needs nothing of the tree |
| `MasterData_proofs!WalkCorrect` | `Spec => []WalkFindsSubtree` | everything seen or stacked is in the subtree, and the children of what is seen are seen or stacked; with an empty stack the seen set is closed and contains the root, so it contains the least such set |

They hold for any sets of users, departments, requests, routes, handlers, days,
balances, presses and exports that satisfy the named assumptions of the modules,
losses included. The assumptions give the constants their types, say that the
null values are not ids, that a correction's records are finitely many and marked
as such and the days are finitely many (`CloseAssumption`; `applyEffects` sets the
mark), that there are finitely many requests
to sum over (`LedgerAssumption`), that the night's early band ends before its late
one starts (`CalcAssumption`; 5:00 and 22:00), that every day has a member whom the
export lists (`ExportAssumption`), that the tables `Administration` starts from obey
the database's constraints (`InitAssumption`), that a period ends no earlier than it
starts (`InputAssumption`; `assignWorkPattern` checks it first), that ids of one
table are not ids of another (`IdAssumption`) and that the seed's members are three
(`SeedAssumption`).

The premises in front of a `=>` are no assumptions about the code but cases in
which alone the property holds; section 4 says what happens outside of them.

* `OneHandler`, `OneAtATime`: at most one handler of the part at a
  time. `serial` and `books_serial` are such instances.
* `RoutesWithin`: every route has a step with a number among `Steps`, or none.
* `Settled`: no route or member is edited, no handler is lost, routes leave no
  choice of plan and have fewer steps than `autoResolve` has iterations, and a
  member fixed to a step may approve and see the applicant. `progress` is such an
  instance.
* `FormFits`: `Steps` reaches as far as the form does, and routes there are at the
  start number their steps as the form would. `serial` is such an instance.

A fold over a set (`FoldInOrder`, `MapThenSumSet`) is defined by a recursive
function of the community modules. `Folding_proofs` shows that the function
exists and has its type, by taking the smallest set a claim fails for
(`MinimalSet`, from the library's facts on well-founded orders) in place of an
induction, whose library theorems the installed provers cannot instantiate.
What a sum does when an element is added or taken out (`SumsAdd`, `SumsTakeOut`)
and that a sum of sizes is the size of the whole (`SumsOfSizes`) follow there too.

Only model-checked: liveness (`OrphansMoveOn`, `CloseEnds`,
`ApprovalsEnd`, `MailFollows`, `ChangesEnd`, `WalkEnds`), which needs fairness and
`ENABLED`. The type invariants are proved and no longer part of a run, but for the
modules built on top of others, whose types the runs exercise.

## 6. Plan

1. Done: the request workflow with its routing, authorization and pages; the tree
   walk on a tree under edit; punches with the monthly close, the punch page and
   the export; the figures of a summary; the leave ledger with its notifications;
   roles and members; setup, seed and master data.
2. Proofs: every invariant and action property of the passing runs and every
   refinement has its theorem; what is left is out of the prover's reach (section 5).
3. Next in models: the request page's retry after a lost answer, which files a
   request twice; the days of a shift in the bulk upsert.

## 7. Not modelled

* Formatting and parsing of dates and CSV, password hashing and session cookies,
  HTTP error formatting, health probes, mail transport and the rendering of
  pages have no state the properties speak of.
* The notification list and its mark as read, the login page, the request,
  closing, shift and settings pages: each is one query or one call whose handler
  is modelled, on a state of its own that nothing else reads.
* The list of requests, the balance warning of `create` and the update of a grant
  that exists: they read, or overwrite one row.
* Figures of a work pattern and types of leave in `MasterData`, columns that only
  other modules read: `AttendanceCalc` has the former, `LeaveLedger` the latter.

`PROJECT.json` lists each part with its status.
