# A verification project for OpenClockwork

OpenClockwork is a self-hosted working-time system: a NestJS API over
PostgreSQL, a React client, and kiosk terminals. An installation is either a
*Team* (employees, managers, approvals, terminals) or *Solo* (one owner, an
audited personal ledger). This directory holds TLA+ models of its core, the TLC
configurations that check them and proofs that TLAPS checks.

## Inventory

| Component | State it keeps | Operations | Interacts with | What makes it correct |
|---|---|---|---|---|
| Attendance ledger (`time-entries/`) | `TimeEntry`, `TimeEntryAudit` | clock in/out, switch project, daily block, manual entry, update, split, book a range, correct, void | installation mode, projects, requests, terminals; one advisory lock | one timer, disjoint intervals, no lost edit, complete audit, attendance is kept by rebooking, unapproved hours stay unapproved |
| Operating mode (`installation/`) | `InstallationSettings`, `SoloPolicy`, `PersonalDay`, events | preview, change mode, save settings and days, complete setup | every service asks for the mode; a switch fences all of them | no running timer, request, terminal or other account survives a switch; what is history is accounted as it was |
| Terminal bookings (`terminals/terminal-booking.service.ts`) | writes `TimeEntry` | toggle the timer of an identified employee | ledger | as the ledger |
| Request workflow (`requests/`, `libs/shared/.../workflow`) | `Request` and its state | file, approve, reject, substitute, manager and HR decision, return, cancel, bulk decisions | ledger (materialised adjustments), balances, events | final states are final, one booking per adjustment, no overlap, no overdrawn leave |
| Terminal authentication (`terminals/terminal-auth.service.ts`, credentials, PIN) | challenges, attempt counters, grants, credentials | challenge, identify, book, set/revoke PIN | terminals, audit chain, ledger | a grant books once, never after revocation; lock-out after five failures |
| Terminal pairing and QR (`terminals/terminals.service.ts`) | terminals, devices, pairing codes, redemptions | create, pair, revoke, display, scan | ledger, audit chain | one display per terminal, one device per code; no booking with a dead display |
| Terminal admission (`terminal-rate-limit.guard.ts`, `budget` of the PIN service) | buckets in memory, budgets in the database | admit or deny | every kiosk request | denies neither too little nor too much, and stays bounded |
| Terminal audit chain (`terminal-audit.service.ts`, `ops/terminal-audit-chain.mjs`) | hash chain of events | append, list, export, anchor, verify | terminals, employees | the chain never forks; the anchor tells a rollback |
| Employees (`employees/`) | `Employee` | create, update, activate, reset password | mode, terminal credentials | an active administrator always remains |
| Projects, orders, customers (`projects/`, `customers/`) | active flags, assignments, plan hours | create, update, archive, assign, remove | ledger | no timer on archived work; order plans fit the project plan; booked time keeps its target |
| Sessions (`auth/`) | `authVersion`, passwords, tokens | login, refresh, change password, recovery | every request | a token of an old version is dead |
| Realtime (`events/`) | live connections | connect, disconnect, broadcast, revalidate | all writers | nobody is told what they may not see; no connection outlives its session |
| Leave and overtime (`accounts/`, `leave-allowances/`, `absences/`) | allowances, absences | compute balances, expire carry-over | requests, reports | balances agree with the requests, day by day |
| Working-time rules (`libs/shared/.../work-time`, `vacation`, `capture-summary.ts`) | none (pure) | breaks, targets, frames, overtime, holidays, leave days | ledger, reports | they agree with their definitions at every boundary |
| Personal summary, hints, reports, exports (`installation/`, `reports/`, `integrations/`) | none | answer from the rows of one snapshot | all tables | they agree with each other |
| Work schedules, attachments (`work-schedules/`, `attachments/`) | schedules and assignments; rows and files | create, default, assign, delete; upload, remove | accounts, requests | one default, no dangling schedule, no row without its file |
| Web client (`apps/web`) | tokens in `localStorage`, React state, the query cache, an event socket | every page and call | all controllers | one call is carried out once, tabs agree, a page shows its own writes and asks for nothing that is refused |
| Kiosk (`KioskPage.tsx`, `KioskPinPanel.tsx`) | device token, displayed code, the form's epoch | pair, refresh, identify, book | terminal services | nothing on its screen is out of date or somebody else's |
| Operations scripts, CSV and PDF layout, notifications | files | | | outside the models (see the end) |

Hard behaviours, with their lines, are the `hazards` of `PROJECT.json`. Most
come from one pattern: **a handler reads rows outside any transaction, decides,
and commits later in a transaction that is serialised by the advisory lock
7261500**. What it decided on may be stale, and each handler repeats a different
part of its checks under the lock.

## The ledger: `TimeEntries.tla`

### State

| Variable | Code |
|---|---|
| `entries` | the `TimeEntry` table, a sequence of rows; the id of a row is its index. A row has its employee, interval (`out = Running` for `clockOut IS NULL`), status, `approvalMode`, source, `bookingDate`, target, `captureGroupId`, `revision` and whether it is voided |
| `audit` | for each row the set of revisions whose snapshot is in `TimeEntryAudit` |
| `call` | the requests in flight, and the rows each has read (`view`), whether it carries a revision (`rev`) and the mode it read (`solo`) |
| `mode`, `owner` | `InstallationSettings.mode`, `ownerEmployeeId` |
| `active` | employees with `isActive` |
| `archived` | targets (project, order or their customer) that are no longer bookable |
| `now` | the server's clock |

### Actions

Each handler is two steps: `BeginNew`, `BeginOnRow` and `BeginOnLedger` are what
it (or the client before it) reads before its transaction; `ClockIn`,
`ClockOut`, `Switch`, `DailyBlock`, `Manual`, `Update`, `Split`, `RangeBook`,
`Correct` and `Void` are its transaction, with everything that is checked and
written there, the audit record included. `Abort` is a refusal, or a connection
or process that dies before its commit; nothing but the database survives a
crash, so a restart of the server is an `Abort` of all its calls. Two devices, a
repeated request and a slow client are all covered by having several `Clients`.

`TerminalBook` is one transaction. `Approve` is what the approval of a
`TimeAdjustment` writes: `requests.service.ts` takes no lock there, so it commits
between any two steps, and only PostgreSQL's constraints (`DatabaseAccepts`)
stand between it and the other writers. `SetActive` and `SetArchived` are the
employee and project updates with their guards.

`changeMode` is modelled by its isolation level. It is the one Serializable
transaction; its snapshot is taken by its first statement, which is the one that
waits for the lock. All it reads, the blockers too, is as of then (`BeginChange`,
`NoModeBlockers`), and what it writes depends on nothing that has been committed
since, except that a second change of mode fails on the settings row
(`ChangeMode`). The other transactions are Read Committed, so PostgreSQL does not
track conflicts with them. The end-to-end test `solo-installation.e2e.spec.ts`
(108-151) shows the frozen snapshot itself: the second of two waiting switches
fails with "concurrently" instead of seeing the new revision. The model lets any
number of transactions commit between snapshot and write; the queue of the lock
allows those that were already waiting.

### Abstractions

Time is a small clock cut into days; a working-time frame is two offsets into the
day and the break rules of a block are one constant length. Time zones and
daylight saving are not modelled. The actor of a request is its subject
(managers acting for others pass the same transaction checks). The
checks of a daily block that read other tables (enabled, target hours, employment
start, holidays, absences and requests of the day) are in `DailyBlocks`; here
they would only refuse.
Notes, locations, activity, billing data and the event broadcasts are left out.
A revision is only sent with the id of a row. The work that the blockers of a
mode change look for outside the ledger is reduced to approvals in flight.

### What is checked

A run has parts: `part` is chosen at the start and never changes, and each part
restricts `Next` to what its question needs, so that its own bounds can be large
enough. All parts of a run use one set of properties.

| Run | Parts | Properties |
|---|---|---|
| `TimeEntries` | `timers`: one employee in Solo, two requests in flight that start, stop, move and switch a timer, a terminal, one target and its archiving, **without** the partial unique index on open timers. `turns`: the same without moves, while the mode changes. `solo`: two requests split, correct and void in an installation that was bootstrapped Solo and may become Team and return. `modes`: two employees, deactivation, change of mode | `TypeOK`, `OneRunningTimer`, `TimerTargetBookable`, `RevisionsTellVersionsApart`, `ChangesAudited`, `StaleEditsRefused`, `SoloIsTheOwners` |
| `Ledger` | `team`: splits, ranges and approved adjustments over two days, three rows, a target. `blocks`: daily blocks, manual entries, switches, corrections, cancellations in both modes | `KeepsTheBooks`, `TimerNotOverrun` |

* `OneRunningTimer` is checked, and proved, without the database index: the
  checks under the lock are enough, the index is a second fence. It fails as soon
  as `clockIn` trusts what it read before the lock.
* `TimerTargetBookable`: archiving refuses while a timer runs, and every writer
  that starts or moves a timer checks the target again under the lock. Either
  half alone is not enough.
* `StaleEditsRefused` and `RevisionsTellVersionsApart` are optimistic locking in
  two halves: the request compares revisions, and equal revisions mean equal
  rows because every writer bumps them.
* `ChangesAudited` relates table and audit across mode changes. It has two
  exceptions that the code makes: an approval in flight writes no record, and
  neither does a terminal or a Team clock-out that stops a timer left over from
  the other mode. The second exists only because of the stale snapshot below.
* `TimerNotOverrun` is why a timer can always be stopped; its exceptions
  (`BookedAhead`) are the two writers that may put an interval after the start of
  a running timer, adjustments and blocks that reach past now.
* `SoloIsTheOwners`: `assertTransactionAccess` is repeated under the lock because
  a request may pass `assertAccess` in Team and commit in Solo.
* `KeepsTheBooks` is the refinement described next.

### The promise: `Ledger.tla`

`Ledger` is what the ledger promises an employee, without rows, revisions,
groups of rows or audits: a book with the instants `worked`, which of them are
`pending`, since when a timer runs and by which mode's rules, and `captures`, the
instants of each capture group, on which breaks are deducted. Its steps are
`Start`, `Stop`, `Block`, `Manual`, `Rebook`, `Amend`, `Adjust`, `AskAdjustment`
and the passing of time. `Rebook` is the one for splits, range bookings and other
edits: not an instant of attendance comes or goes, none leaves its capture group,
and none that waits for an approval is waved through. `Balanced` says that every
instant is credited once, which no writer may break by overlapping rows.

`TimeEntriesLedger` gives the mapping (`BookOf`, for a table and an employee):
`worked` is what the closed effective rows cover, `credited` the sum of their
lengths, the timer the open row, `approving` the approvals in flight, and
`pending` what `Team` rows that wait for an approval cover outside the frame.
`KeepsTheBooks == Promise!LedgerSpec` is a property of the run `Ledger`, where one
writer works at a time, and a theorem for any number of them (below).

Pending `Solo` rows are not counted, because nothing waits for them and the code
does not keep them so. Such a row comes about when a change of mode commits after
a clock-in it did not see (`TimersFollowMode`) and a terminal then stops the Solo
timer: terminal-booking.service.ts:96 asks for an approval outside the frame
whatever the row's mode is, and the next split or range booking approves the row
again (time-entries.service.ts:875, 1092). With those rows counted, TLC finds
`Stop` and then `Rebook` violated as soon as two requests are in flight (clock-in,
change of mode, terminal, split).

`TimeEntries` states no fairness: all its properties are safety. `CHECK_DEADLOCK
FALSE` is set because a bounded clock and a bounded table really stop.

A run that is expected to fail, with a finding in `PROJECT.json`:

| Run | What the documentation says | What the code does |
|---|---|---|
| `TimersFollowMode` | the mode changes with no running timer; the checks are repeated during the change | a clock-in that commits while the change waits for the lock is not seen |

Three more disagreements show in the same actions and have no run.
SOLO_MODE.md:188 says that daily blocks cannot coexist with conflicting work, and
a block that reaches past midnight overruns a timer that runs since midnight
(time-entries.service.ts:434). FEATURES.md:69
says that closed intervals cannot end in the future, and a daily block of today
does (time-entries.service.ts:305). OPERATING_MODES.md:76 lets Solo be entered
only without pending entries, and splitting an old Team entry there makes one
(:873). A block's check of the day's absences and requests is outside its
transaction (:341), so a vacation approved meanwhile meets a booked day.

### Bounds

`Horizon` (last instant of the clock), `MaxRows` and `MaxRev` are bounds of the
models, not of the code; an action that would exceed them is disabled. Two rows
are enough for a race between two transactions about timers or edits, since each
writes one or two rows; three are needed to carve a range out of an entry on both
sides. Days have three instants, so that an interval can lie before, inside, after
and across the frame, and cross midnight; in `Ledger` a block is two of them long,
so that one of Solo may reach into the next day and meet what is booked there. Two requests in flight
suffice for the properties that relate one commit to what happened since it read;
they are interchangeable, so the runs with two use symmetry (no run with symmetry
checks liveness).

## Proofs: `TimeEntriesProofs.tla`

For every value of the constants allowed by `LedgerAssumption`:

| Theorem | States |
|---|---|
| `TypeCorrect` | `Spec => []TypeOK` |
| `RevisionsSound` | `Spec => []RevisionsTellVersionsApart` |
| `TimersSingle` | `Spec => []OneRunningTimer` |
| `TimersBookable` | `Spec => []TimerTargetBookable` |
| `TimersStoppable` | `Spec => []TimerNotOverrun` |
| `Audited` | `Spec => ChangesAudited` |
| `SoloOwners` | `Spec => SoloIsTheOwners` |
| `EditsCurrent` | `Spec => StaleEditsRefused` |
| `BooksKeptAsPromised` | `Spec => KeepsTheBooks`: the refinement of `Ledger` |

The inductive invariant `IInv` adds two facts to the properties themselves. A
running timer counts as work and runs on a target that is not archived
(`TimersFit`): archiving looks for *effective* open rows only, so without the
first half the second is not inductive. A request is about rows of its own
employee (`OwnRows`), which the access check of a commit needs to say anything
about the row it changes.

The argument has two layers. Every transaction is shown to have the shape
`LedgerStep(e)`: a table that extends the old one, in which rows of `e` only are
added at revision 0 or replaced at the next revision, keeping mode and owner,
none is reopened, no second timer appears, what is recorded is due (`Timely`:
part of work that was recorded before, or over by now and before the start of
every timer of its employee), and the audit log covers what `ChangesAudited`
demands. The range booking, which revises a set of rows and adds
up to two, has its own lemmas on sequences. Then `IInv` and the action properties
follow from that shape alone, whatever handler took the step. `StaleEditsRefused`
is the exception; it depends on each handler's own revision check and has one
case for each (`CommitCareful`).

`TimerNotOverrun` alone is not inductive: a timer that starts now must find
nothing recorded ahead of now. `Punctual` adds that timers started, and recorded
work ended, by now; `Timely` steps keep it, and the clock only moves on. What
takes no part are blocks and adjustments that were booked ahead of the clock,
which keep their source and mode through every later cut and correction.

### The refinement

`BooksKeptAsPromised` needs a third invariant, `LedgerInv`: `IInv`, a table that
the database accepts (closed rows of one employee are disjoint and have a positive
length), rows that end within the bounds of the model and are never rejected, and
a clock within its horizon. Disjointness is taken
from PostgreSQL's exclusion constraint, which every transaction must meet
(`DatabaseAccepts`): for adjustments, which take no lock, nothing else keeps rows
apart.

* **The books, instant by instant.** `BookPoints` says of each instant whether it
  is worked, pending or in a capture group in terms of the rows that cover it.
  Books are then compared by points, and the proofs hardly see a union of sets.
* **Credit.** `credited` is a fold over a set of rows and `worked` a union; they
  agree (`CreditedOnce`). The provers cannot use an induction rule that takes an
  operator, so the induction on the number of rows is about a *set* of numbers
  (`SetOfNumbers`, from the well-foundedness of `<`), and the fold is compared with
  the function that counts what the rows cover (`FoldsAgree`, `CreditFolds`).
* **One lemma per writer.** What a handler does to the book of its employee is one
  of `Ledger`'s steps: `ClockInBook`, `ClockOutBook`, `TerminalBookBook`,
  `SwitchBook`, `DailyBlockBook`, `ManualBook`, `ApproveBook`, `UpdateBook`,
  `CorrectBook`, `VoidBook`, `SplitBook`, `RangeBookBook`. The first ten rest on
  what one new, stopped or replaced row means (`NewTimer`, `NewSpan`, `RowStops`,
  `RowAmended`).
* **Cutting.** A split and a range booking leave a table that is cut differently
  (`Recut`): its rows are pieces of old rows, the pieces of a row cover it, keep
  its capture group, and one that lies outside the frame still waits if the whole
  did. `RecutBook` shows that this rebooks; `CutInTwo`, `SegmentPiece`, `NewPiece`
  and `PiecesCover` show it of the two handlers.
* **The rest of a step.** A transaction of one employee leaves the books of the
  others (`OthersBook`), other steps leave all of them (`StepKeeps`), and approvals
  in flight are counted up and down (`ApprovalsCount`).

`LedgerAssumption` bounds the adjustments that are filed by the last instant of
the model (`Adjustments`), as the clock and the blocks are, and asks for finitely
many clients, whose approvals in flight are counted.

## Requests: `Requests.tla`

| Variable | Code |
|---|---|
| `requests` | the `Request` table: employee, type, period, days, off-hours flag (`requiresApproval`), substitute, `workflowState`, `currentApproverId` |
| `granted` | the consents in each request's `RequestEvent` history: substitute accepted, manager approved, HR confirmed |
| `corrections` | how many `TimeEntry` rows `materializeTimeAdjustment` has made of each request |
| `attended` | the instants of each employee in all other `TimeEntry` rows |
| `call` | the calls in flight: the row each has read, or wants to file, and its event |

No handler of `requests.service.ts` takes a lock. Each reads the request and
checks who asks (`BeginTransition`, `BeginDirect`), or checks overlap, balance
and bookings of a new one (`BeginVacation`, `BeginOther`); then, in a transaction
that reads nothing again, it writes (`Transition`, `Approve`, `Reject`,
`FileRequest`). `Transition` is `transitionVacation`, the end of eleven handlers
for any type of request; `Approve` and `Reject` are the direct decisions on
requests that are not vacations. `Abort` is a failed transaction, a lost
connection or a crash. `Attend` is any other booking of the employee; the
exclusion constraint of the table is `Unbooked`.

Left out: texts, timestamps, `approverId`, notifications. The days a vacation
counts for are a choice between one and its length, which is what half days,
holidays and days off can make of it; whether an adjustment is off-hours is a
choice as well. All periods lie in one year with one constant `Entitlement`.
Roles and managers do not change. Entries that a correction materialised are not
edited again here (`TimeEntries` models such edits), running timers do not block
an adjustment here, and nothing is voided, since voiding is a Solo feature.
`SpecialLeave` is handled as `HomeOffice` is.

| Run `Requests`, part | Instance | Properties |
|---|---|---|
| `leave` | one request, vacation or home office, with and without substitute, two calls, a manager's manager and HR | `SubstituteConfirmed`, `InboxExact` |
| `corrections` | two adjustments of overlapping intervals, one instant attended otherwise, two calls | `TwoStageApproval`, `ApprovedIsBooked`, `CountedOnce` |

The run says what stale reads can *not* break. A consent, once given,
stays given, so a transition computed from an old state skips nobody; a booking
is guarded by the table's constraint, so two approvals of one adjustment book it
once; an approver is written together with the state it belongs to.

What they do break has two runs that are expected to fail, each with a finding in
`PROJECT.json`: `LeaveNotOverdrawn`, two filings that are checked against one
balance, and `VacationDecisionFinal`, two decisions read from one state. Two
requests for the same days pass the check for overlaps in the same way as the
first. For requests that are not vacations the decision is
not final even for one call at a time: `approve` (266) and `reject` (301) do not
look at the old state, so that HR may reject an adjustment whose hours are booked
and stay booked. Nothing in the repository says that it may not, so it is no
property here.

`MaxRequests` bounds the table: one request is enough for races of deciders, two
for races of filings and for counting twice. `Periods` are two days or hours that
overlap, and one that touches, so that inclusive and half-open ends differ.
`Entitlement` is smaller than two periods together and not smaller than one.
Symmetry permutes the two calls; no run checks liveness. `CHECK_DEADLOCK FALSE`:
with the table full and every request decided, nothing need happen.

### Proofs: `RequestsProofs.tla`

For every number of employees, requests and calls in flight: `TypesHold`,
`SubstituteAlwaysConfirmed`, `OffHoursTakeTwoStages`, `ApprovedAlwaysBooked`,
`InstantsCountedOnce` and `InboxAlwaysExact`, each `Spec => []` of the property of
that name in the table above, the first of `TypeOK`.

A property of the table is not inductive, because what a call will write depends
on what it has read. The invariant `RInv` therefore says of every call in flight
what it says of the table: the row it read is a row of that request, and the
consents and bookings that the state *in that row* needed are there now
(`CallFit`). That survives every step since consents and bookings only grow
(`NeedsGrow`). `TransitionFits` then shows, event by event, that the next state
needs nothing but what the old state needed and the event adds, and
`WritePreserves` that such a write keeps `RInv`. `BookingOnce` is the part about
the ledger: the interval was free, so the request had not been booked before.
The assumption used is `RequestsAssumption`. `LeaveNotOverdrawn`
and `VacationDecisionFinal` are false.


## Terminals: `TerminalAuth.tla`

| Variable | Code |
|---|---|
| `terminals`, `devices` | `Terminal` (active, PIN allowed, `authConfigVersion`) and `TerminalDevice` |
| `active`, `credentials`, `attempts` | `Employee.isActive`, `TerminalCredential`, and the `TerminalAuthAttemptState` of a PIN: the failures counted, since when, and when the last one was, from which `lockedUntil` and `expiresAt` follow |
| `challenges`, `grants` | `TerminalChallenge` and `TerminalBookingGrant`; an id is an index |
| `redemptions`, `working` | `TerminalChallengeRedemption`, and who has a running timer |
| `call` | identifications between their two transactions: the PIN is being verified against the version of the credential that was `seen` |
| `withdrawn` | history: permissions that something withdrew before they were used |

`identify` is `BeginIdentify` (first transaction and verification) and one of
`Accept` and `Refuse` (second transaction), or `Abort`. `IssueChallenge` is
`challenge`, `Book` is `book` with the toggle of `bookTerminalTime`; a repeated
`book` reads its receipt and changes nothing. `ResetPin`, `UnlockPin`,
`RevokePin`, `SetActive`, `Configure`, `RevokeDevice` and `Pair` are the handlers
that change what a permission was given for. All of them hold the advisory lock,
so a transaction is one step. None of them touches a permission: `withdrawn`
records what each is documented to withdraw, and `Book` has to find out.

Left out: rate limits, locations, hashing, the audit chain, the personal number,
the deletion of expired rows that no handler accepts, and `deletePermanently`,
after which nothing of a terminal is left to use. Whether a PIN `matches` is a
choice, made when the verification begins. A challenge may end before its time,
as at midnight. Displayed QR codes share neither challenges nor permissions with
PINs; they are in `Terminals`.

| Run `Terminal`, part | Instance | Properties |
|---|---|---|
| `attempts` | one PIN, two identifications in flight, two challenges, four instants: two failures lock for two, permissions live for one | `FailuresFair` |
| `grants` | two devices of one terminal, one permission, three changes of credential and terminal, three instants | `WithdrawnNeverBooks`, `ReceiptsTruthful` |

* `FailuresFair` has two halves. A right PIN that was read before the lock-out is
  refused after it, and further failures neither extend nor reset it. And a
  failure is charged only to the version of the PIN that was tried
  (terminal-auth.service.ts:379), so that whoever is given a new PIN does not
  begin with the failures of the old one, nor with those of verifications that
  are still running.
* `WithdrawnNeverBooks` is docs/TERMINAL_AUTH_OPERATIONS.de.md:33-37, for good:
  a terminal or an account that is switched off and on again, or a lock-out that
  has ended, does not bring a permission back. For lock-outs this rests on a
  relation of times, `GrantTtl <= Window` (30 seconds and 15 minutes).
* `ReceiptsTruthful`: a permission has booked once if it is used and not at all
  otherwise, and what its receipt says is what the redemption recorded.

The bounds are `Horizon`, `MaxTickets` and `MaxChanges`. Two failures stand for
five. Two changes switch something off and on; two tickets are two challenges, or two
permissions for one. Devices and calls are
interchangeable, and no run checks liveness. `CHECK_DEADLOCK FALSE`: the clock
and the tickets are bounded.

### Proofs: `TerminalAuthProofs.tla`

For all employees, terminals, devices and calls in flight, all instants, and all
intervals that `TerminalAssumption` relates as the code's constants are related:

| Theorem | States |
|---|---|
| `TerminalInvariant`, `TerminalTypes` | `Spec => []IInv`, `Spec => []TypeOK` |
| `WithdrawnNeverBook` | `Spec => []WithdrawnNeverBooks` |
| `ReceiptsAreTruthful` | `Spec => []ReceiptsTruthful` |
| `FailuresAreFair` | `Spec => FailuresFair` |

`WithdrawnNeverBooks` forbids a step that is possible now, so it is not inductive.
`IInv` says why it stays impossible: each withdrawn permission is `Dead`. The
version of its PIN or of its terminal has grown, its device was revoked, the
lockout of its employee outlives it (`OutlivedBy`), or it has expired. `Onward`
is what every step leaves of this: versions only grow, a revoked device is never
paired again, what was issued is never edited, time passes. The lockout needs
more, since it is the one cause that does end: a permission given before it
expires at most `GrantTtl` after now, which is no later than the lock-out does,
and a failure counted meanwhile only moves the end away (`LockoutKept`). That no
permission is given *under* a lock-out, by an identification that began before
it, is the check of the second transaction (`Accept`).

`Given`, `Issued` and `AttemptsOrdered` relate the tables to each other: a
permission names no version that does not exist yet, without which a version that
grows would not kill it.


## Accounts and connections: `Accounts.tla`, `Realtime.tla`

| Variable | Code |
|---|---|
| `emp` | `Employee`: role, `isActive`, `passwordHash` (a number, since every hash is new), `authVersion` |
| `settings` | `InstallationSettings`: mode, owner, revision |
| `tokens` | every token ever signed, with its `authVersion`; `pw` in it is history, the password that was proved for it |
| `call` | calls that have read and not yet written |
| `sockets`, `fan` | connections with their place in the gateway's handshake or map; the broadcast that is between its two queries |
| `met`, `fit` | history: whose session was good at some moment since the event was raised, and to which of them the mode allowed it then or later |

A call reads, spends time in bcrypt, and in most handlers waits for the advisory
lock; so each is `BeginXxx` and `Xxx`. `ChangePassword` and `Recover` are
compare-and-set on the hash (auth.service.ts:78, reset-owner-password-lib.ts:61),
`Update` repeats the check for another administrator under the lock. `Bootstrap`
and `ChangeMode` are Serializable, with the snapshot of when they began to wait.
`Realtime` extends `Accounts`: between two awaits of the gateway (`ReadSession`,
`ReadAccess`, `ReadOwner`, `Register`; `FetchSettings`, `FetchRows`, `Deliver`)
any account may change, a client hang up, a token expire.

| Run `Sessions`, part | Instance | Properties |
|---|---|---|
| `accounts` | two accounts from an empty database, two calls, all operations, three hashes | `AdminRemains`, `SessionsKnowPassword`, `NoPasswordOverwritten` |
| `sockets` | one socket, one call of those that bear on sessions | `NoLeakedConnection`, `ToldOnlyEntitled`, `ConnectionsEnd` |

* `SessionsKnowPassword`: a token that is still good was obtained with today's
  password. A login between its check of the old password and its tokens is the
  case that matters: it signs the version it read, which is dead by then.
* `ToldOnlyEntitled` does not say that a recipient is entitled now. The two
  queries see different moments; what holds is that each recipient had a good
  session at a moment after the event was raised, and that the mode let its
  account hear of the event then or later. The stronger sentence, entitled at one
  moment, is what the proof was first attempted for, and it is false: the rows are
  read while the installation is in Solo, the owner's password is recovered, the
  owner logs in anew and returns to Team, and then the settings are read. A
  connection of the old password hears of an employee of whom it could not have
  heard in Solo. The instance of the run was too small to show it, and `Watched`
  has had recoveries since.
* `ConnectionsEnd` is liveness. `RealtimeFairness` assumes weak fairness of a
  handshake (Node resumes a function whose query has been answered), of the
  passing of a token's life, and of the timer that is set for it. Nothing is
  assumed of clients: nobody has to hang up.

Left out: who may see which employee, e-mail addresses, the throttling of logins.
One socket suffices, since sockets share nothing but the broadcast.

When the server ends a connection (events.gateway.ts:185), socket.io does not
reconnect by itself, although the comment there counts on it, and nothing in `realtime.ts` asks it to: a tab then lives on
the stale times of its queries until its session changes or it is loaded again.

### Proofs: `AccountsProofs.tla`

For any number of accounts, calls in flight and sockets, and any bounds:

| Theorem | States |
|---|---|
| `AccountsInvariant`, `AccountsTypes` | `AccountsSpec => []AInv`, `AccountsSpec => []AccountsTypeOK` |
| `AnAdminRemains` | `AccountsSpec => []AdminRemains` |
| `SessionsKnowThePassword` | `AccountsSpec => []SessionsKnowPassword` |
| `PasswordsNotOverwritten` | `AccountsSpec => NoPasswordOverwritten` |
| `RealtimeInvariant`, `RealtimeTypes` | `RealtimeSpec => []RInv`, `RealtimeSpec => []RealtimeTypeOK` |
| `NoConnectionLeaks` | `RealtimeSpec => []NoLeakedConnection` |
| `OnlyEntitledAreTold` | `RealtimeSpec => ToldOnlyEntitled` |

`AInv` extends `SessionsKnowPassword` from tokens to the logins and refreshes in
flight: what any of them read of an account has a version that is at most today's,
and the password of today if it is today's (`Proof`). `Onward`, that versions only
grow and a password never changes without one, keeps it so. `AdminRemains` needs
only that a call to `Create` exists once somebody does (`CallOK`), and that the
bootstrap commits on the table it read (`Untouched`).

`RInv` says the same of connections, and relates the broadcast in flight to its
histories: whoever would be told by what the queries have answered so far, and by
the accounts as they are for the query that is still out, is noted or will be
(`EntitledNoted`). Its hard case is the change of the accounts between the two
answers; `Frozen` says what such a change may do in Solo without a new version.

`ConnectionsEnd` is liveness and only model-checked.

## The kiosk

Eight modules, each in a part of the run `Kiosk` (`MCKiosk`), where the others
stand still.

| Module, part | Models | State |
|---|---|---|
| `Terminals`, `server` | `terminals.service.ts`: creation, switching, pairing codes, pairing, displayed codes, scans, deletion | `kiosk`, `paired`, `shown`, `scans`: the four tables; `pending`: calls that have read outside the lock; `timers`, whose entry runs; `dead`: history of displays that were ended |
| `AuditChain`, `audit` | `terminal-audit.service.ts`, `ops/terminal-audit*.mjs` | `events`; `writer`: open transactions; the files of export, anchor and backup |
| `Admission`, `budgets` and `limiter` | `budget`/`reserve` of the PIN service; `terminal-rate-limit.guard.ts` | `counters` in the database; `buckets`, the Map, each entry with the request that inserted it; `asked`: history |
| `KioskPage`, `page` | `KioskPage.tsx`, `terminal-device.ts` | `page`, the component; `stored`, `localStorage`; `flight`, its requests |
| `PinPanel`, `panel` | `KioskPinPanel.tsx` | `panel`, its refs and state; `requests`, answered in any order; `booked`, what the server did |
| `PinDialog`, `dialog` | `TerminalPinDialog.tsx`, `terminal-credentials.service.ts` | `dialog`; `account`, the credentials; `calls`, also those of closed dialogs |
| `AuditPanel`, `view` | `TerminalAuditPanel.tsx`, `list` of the audit service | `auditor`; `trail`; `listings` under way; `walk`: history of the pages read |

`KioskScreens` composes the last four and states `ScreenCurrent`; events on a page
of the audit are a set, as they are shown in the order of their numbers.

Hashes are what they stand for, the sequence of events up to their own; numbers
make every event different. A transaction under the lock is one step, and what
a handler reads before it is a step of its own (`BeginIssue`, `BeginPair`,
`BeginScan`). A client's step is an event handler with the effects React runs
after it.

* `OneDisplay`: one live device per terminal, none when it is switched off, one
  device per code. Switching off must revoke both the devices and the code that
  was handed out before.
* `DeadDisplayNeverBooks`: a scan that waits for the lock looks again at device,
  terminal and challenge.
* `AuditTrustworthy` is `OneChain` (no two transactions append after the same
  event, not even when one rolls back) and `AnchorTellsRollback` (an export
  verifies exactly if everything anchored is still in it, also when a restored
  backup has grown again to the old length).
* `BudgetsExact`: windows begin with a request, so a minute can see twice the
  limit and no more; and a denial always has its reason in the minute before.
  The limiter evicts under pressure: the promise is that it refuses nobody who
  kept to the limit, not that it catches everybody who did not.
* `ScreenCurrent` is `CodeOnScreenCurrent`, `NoStrangerShown`, `OneTimePinsKept`
  and `PagesComplete`: late answers, drawings and aborted calls of an earlier
  epoch change nothing on the screen of the next, and turning the audit's pages
  loses and repeats nothing, although reading a page itself adds an event.
* `FailureIsCertain`: a booking that failed for certain and one whose fate is
  unknown are told apart, and an unknown one is only asked again.
* `RevocationNoticed` is liveness, under `KioskFairness`: browsers fire their
  timers, requests are answered or fail, and an image is drawn. It is promised
  only to a kiosk that shows a code, and stays online with a server that answers.
  An outage must not leave it without a timer and without a request.

Bounds: two devices and two codes let one replace another; three events, one
restored backup and one rotation of the key let a backup be outgrown. In
`Admission` a window is three ticks and a burst one, and limits are one to three,
so that windows adjoin within six ticks and eviction needs only three peers. Two
people and five epochs allow late answers of several earlier interactions. Two
refreshes of one token in flight are an old and a new answer; a third is another
of either kind.

Seen and not a property of anything the repository promises: a late 401 for an
old token erases the token that was stored after it (terminal-device.ts:144);
a terminal that was deleted for good answers `TERMINAL_DEVICE_INVALID`, which the
page does not take for a revocation; a 429 for the repetition of a booked grant
clears the panel; an eviction (terminal-rate-limit.guard.ts:146) forgets the
oldest bucket although it is in use; `TerminalScanPage` offers a scan again after
an offline spell while its result is handled; an aborted PIN reset may be carried
out after a newer one, and the PIN that was shown is then no longer good (which is
why `OneTimePinsKept` speaks of the epoch that was last).

README.md:130-131 has the kiosk show "a continuously refreshed QR challenge".
`RevocationNoticed` promises less, because the code does less: the retry after an
error is armed by an effect that depends on the message (KioskPage.tsx:208-212).
A second failure with the same message does not run it again, and as a failure
sets no state either, no timer is left: after two equal failures the kiosk waits
for its button, for the network or for a reload. The model has this
(`RetryTimer`), and the property therefore speaks of a kiosk without an error.

### Proofs: `TerminalsProofs.tla`, `KioskProofs.tla`

`TInv`, behind `OneDisplay` and `DeadDisplayNeverBooks`, adds to the types three
things. `CodesSound`: a pairing code is a number that was never issued before, and
belongs to one terminal that is on, to one device, or to nobody any more; without
it a device could be paired with the code of another. `DisplaysSingle`: a terminal
has at most one device that is neither revoked nor gone, and such a device only
while it is on. `DeadStaysDark`: what the history `dead` holds was shown by a device
that is revoked or gone, and neither is undone. Nothing is assumed of what a call
has read before the lock, because the step under the lock looks at everything
again; that is what the proof of `DeadDisplaysNeverBook` shows.

`AuditInv`, behind `AuditTrustworthy`, speaks of every copy of the table (the
table, its backup, the export, what was anchored): each is a chain whose hashes
are the numbers up to their own, and two events of one number, in whichever
copies, are one event. The last is why equal hashes mean equal events, and with
it `AnchorTells` shows that `Verifies` is `IsPrefix`, for chains of any length.
At most one transaction holds the lock, and what it has read is the table.

`PanelInv`, behind `FailureIsCertain` and `NoStrangerShown`, is that every
request has an epoch of its own and that the one of the panel's epoch, which is
the only one it can be waiting for, is of the kind its phase says and, if it
books, for the permission that was submitted.

The other screens have an invariant each, and `ScreensAreCurrent` puts
`ScreenCurrent` together. `KioskInv`: what is drawn is the code of the state last
received, and what is on screen is that code or is about to be replaced by it; the
effects of a handler keep this if the handler only takes something off the screen
(`EffectsSound`). `DialogInv`: no two calls under way are of one epoch, and a call
that changed something has answered what the account is like until something is
done after (`Truthful`); so that what a closed dialog's call still does cannot be
taken for the open one's. `ViewInv`: a page is the newest events before its cursor,
with nothing left out down to its last (`PageOf`); events that are added since are
newer than all of it; and the cursors are the ends of the pages walked, so that
putting a page on top of any number of them leaves nothing out (`WalkTurned`).

`AdmissionInv`, behind `BudgetsExact`, relates each counter to the history of
requests (`WindowSound`): in the window that began last at least as many were made
as it counts and at most as many were granted; and, which is what makes it
inductive, in as long a time *before* that window no more than the limit were
granted. A window that begins turns the first into the second, as it begins no
earlier than a length after the last. So two windows are all a minute can meet
(`TwoWindows`), and a counter above its limit names the requests that exhausted it
(`Exhausted`). An entry of the limiter counts no more than its peer has asked for
since it began, which forgetting cannot make false. The theorem lets budgets and
limiter interleave, which the run checks apart. `AdmissionAssumption` says that
kiosks and peers are different identities (the guard's keys begin with a kind,
those of the budgets with a scope).

Only model-checked: the liveness of `RevocationNoticed`.

## What recorded time counts for: `WorkTime`, `Calendar`, `Statements`, `DailyBlocks`, `Reports`

These are the pure functions of `libs/shared` and of the services that answer
from one snapshot of the rows (`books`). They have no actions of their own; a
behaviour is one question and its answer (`Ask...`).

| Module | Code |
|---|---|
| `WorkTime` | breaks, gross for a net target, rounding, summaries of capture groups, gaps and core-time violations, overtime |
| `Calendar` | days, Easter, the public holidays of sixteen states, workdays, leave in half days |
| `Statements` | `accounts.service.ts`, `personal-summary.service.ts`, hints, violations: accounts, policies in force, coverage of days off, carry-over |
| `DailyBlocks` | `dailyBlockOption`, `createDailyBlock`, special approval |
| `Reports` | reports, project hours, ERP pages; the questions and properties |

Time is counted in shares of a minute, `Minute = 720`, so that a break divided
among the parts of a group stays an integer where the code has fractions; a day
is six minutes long (`Day = 4320`). Leave is counted in twelfths of a day. The
dates are real: 2026 begins on a Thursday, and the run asks in its first weeks.

The run `Records`, part `statements`, asks some sixteen thousand questions
(`MCQueries`), among them: overtime across absences, vacations with half days and
the year's end; leave with carry-over that expires in the middle; intervals across
midnight, in one capture group or two, around every boundary of the break rules,
and meeting at half a minute, where rounding shows;
two policies and a change of mode; pages of an export with equal times; the
holidays of 121 years.

* `AccountsByDay`: each account equals one that is kept day by day by other
  definitions: overtime as the sum over days, leave as carry-over first, a range
  of leave as the sum of its days, Easter by golden number and epact.
* `StatementsAgree`: the reports and the summary credit the same time to the
  fraction of a minute, and the hints name the whole minutes of every gap. A
  project's hours, in all and by order, are in Team the sum of its report's rows,
  each rounded down. In Solo they are those of the owner's report, and exceed the
  project's report by less than a minute for each row, which rounds where they do
  not.
* `BlockPaysItsTarget`: a block is the shortest that nets the target, and the day
  it was booked on comes out even in the account.

`RepentanceOnWednesday` is expected to fail: holidays.ts:155 says "Wednesday
before November 23", and the computation gives Tuesdays (holidays.ts:160).

Disagreements that the models keep as the code has them, without a promise in the
repository that they break: `account()` counts rejected and voided entries
(overtime.ts:14); excused days run to today while the target ends yesterday;
sickness within a vacation is excused twice; Team's balance takes away carry-over
after its date although it was used; in Solo a project's page shows hours with
fractions of a minute (projects.service.ts:617-637, capture-summary.ts:22) beside a
report of whole minutes (:527), although :541 says that both round alike; the ERP
export includes approved rows that
were voided and orders by `clockIn` alone, so that pages may repeat a row; the
export and the account deduct breaks by entry where reports do by capture group
(accounts.service.ts:42-53, reports.service.ts:418-419); violations look neither
at the status nor at attendance over midnight; a Solo block may cross midnight;
plan sums are floating-point numbers.

## What time is booked on, and the calendar: `Projects`, `PersonalCalendar`, `StaffRecords`

| Module | Code | Its hazard |
|---|---|---|
| `Projects` | `projects/`, `customers/`, the target checks of `time-entries/` | each write holds the lock, but rules between plan, orders, archive and bookings are spread over twelve handlers; a booking chooses its target before the lock |
| `PersonalCalendar` | `installation.service.ts`, `personal-days` | a request waits past midnight, or past another, and what was future is history |
| `StaffRecords` | `absences/`, `work-schedules/`, `leave-allowances/`, `attachments/` | no advisory lock: reads, checks and writes are separate steps, a second call may come between, a handler may die between file and row |

They are further parts of the run `Records`: `projects`, `days`, `policies`,
`absences`, `schedules`, `allowances`, `files`.

* `ProjectBooksSound`: plans of orders fit the project's (schema: "service-enforced"),
  booked time keeps its project, order and customer, no timer is left on
  something archived, and the form's offers are exactly what the server accepts.
* `HistoryIsFinal`: the policy and mode by which a day with work or leave is
  accounted never change again, and personal days do not overlap. Requests on
  outdated grounds are the exception and are named in it (`Outdated`): settings
  that waited past midnight, and a mode change whose snapshot misses new work.
  These are what installation.service.ts:194/226 does not look at again.
* `RecordsSound`: absences of one employee neither overlap nor end before they
  begin, one default schedule at most, nobody on a schedule that is gone, no
  attachment row without its file. The exclusion constraint, the partial index,
  `onDelete` and the order file-then-row (row-then-file on removal) are what holds
  it; the unlocked checks alone would not.

Seen, and no promise of the repository: `expireCarryOvers` writes back what it
read (leave-allowances.service.ts:107), so an edit in between is lost, reasons
included; two `getOrCreate` of one allowance end in a 500 for one of them (P2002);
an assignment is not looked at again in the booking's transaction
(schema.prisma:499-501 says that only assigned employees book); an update of a
project or order without `isActive` activates it again, and without `planHours`
drops its plan; an attachment may be added to or removed from a request that was
decided meanwhile (attachments.service.ts:107-108); two partial updates of an
absence can only be kept from inverting it by the database; of two new default
schedules one fails with an error that does not say why; a Team absence that is
under way when the mode changes overlaps a personal day.

Bounds: one project with two orders, and one plan value, are enough for the
sum of plans to be exceeded in two ways; two customers let a project move. Two
callers and two days to wait past each other; `LastDay = 1` gives one midnight.
Callers and handlers are interchangeable.

### Proofs: `RecordsProofs.tla`

`RecordsSpec` lets the handlers of all four families interleave with each other,
which the run checks one family at a time. `RecordsInv`, behind `RecordsSound`, is
types, the four promises, and `ExpiriesFounded`: an expiry under way has read
allowances that exist, and none is ever deleted, so what it writes is a row.
What a call has read before is otherwise assumed to say nothing, so the proofs
show which of the database's rules carry each promise: the exclusion constraint
alone keeps absences apart, the partial index alone keeps one default, and the
order of the steps alone keeps a row from outliving its file.

`TargetsInv`, behind `ProjectBooksSound`, adds `OrdersBelong`: an order has a
project. Without it a new project could find orders under its id, and their plans
would exceed its own. `SumPlanHours` is a fold, about which the provers know
nothing. The module shows what it needs of it: that the sum of a finite set does
not depend on the order of summation, grows by one element's plan when the element
is added, and stays when no plan in the set changes. The induction is over sets of
numbers (`SetOfNumbers`), from the well-foundedness of `<` on the naturals. The
assumption `IsFiniteSet(OrderIds)` says that a table has finitely many rows.

`HistoryIsFinal` rests on `CalendarInv`. Two lemmas say that what takes effect after
a day changes nothing for it: `PolicyOfEarlier` (the choice among the latest
effective policies is made in the same set) and `ModeOfEarlier`, which needs that
some mode holds from the first day on. The rest is that a granted request takes
effect after every day of the past: settings because they were asked for no past
day (`Asks`), have not waited past midnight (else they are `Outdated`), and today is
looked at under the lock (`MayTakeEffect`); a mode because its snapshot of the
history is current or it too is `Outdated`. Both hypotheses are used, so the
exception the property makes is exactly what the code leaves open.

## The web client: `WebSession`, `Api`, `Screens`, `Pages`

| Module | Code |
|---|---|
| `WebSession` | `auth.tsx`, `realtime.ts`, the request helper of `client.ts`: tabs that share `localStorage` and hear of each other's writes by storage events, later and in order; one refresh per tab; the retry after a 401; the socket library loaded on demand |
| `Api` | the calls of `client.ts`: whom the controllers admit in which mode, which facts an answer is computed from, which a call changes, and which event tells of it |
| `Screens` | the components of `routes/`: the queries each keeps, the calls it offers, the query keys it marks as stale afterwards |
| `Pages` | TanStack Query as this client uses it: one watched query, its fetches, optimistic updates and rollbacks, invalidation by the caller and by events |

`Api` and `Screens` are tables, read off the controllers' guards and the
components' hooks. `Pages` runs them: for every role, mode and page, one query
with all the calls that bear on it.

| Run `Client`, part | Instance | Properties |
|---|---|---|
| `tabs` | two tabs, two users, three token pairs, of which the last is that of a late refresh, one reload, six storage events | `TabsAgree` |
| `socket` | one tab, one call, its retry and its socket, two token pairs | `OnceOnly` |
| `pages` | every page as every role in both modes; two calls at a time on the two queries with optimistic updates or shared rows (`Followed`) | `OwnWritesSeen`, `PagesServed` |

* `OnceOnly`: the retry after a 401 does not carry out a call twice, and an event
  is heard once although the listening effect runs again while the library loads.
* `TabsAgree`: a tab that has handled its events and run its effects shows no
  profile other than the stored one, whatever the others are about to hear. It may
  show the login page beside a session. And the profile belongs to the tokens: a
  pair has the user it was issued to (`Tokens`), and no tab shows anybody else.
  Two steps of the code break that, and `mixed` remembers them: a refresh that is
  answered after its session was left stores the tokens of A beside the profile of
  B, or of nobody (client.ts:769; neither logout nor login cancels it), and a login
  stores its tokens while another tab still shows its predecessor (auth.tsx:92). The
  exception lasts until tokens are stored again. Three pairs are what the first
  needs: that of A, that of B, and the one A's refresh still brings.
* `OwnWritesSeen`: when everything is quiet a page shows nothing that was not
  booked through it, and what was booked and answered; an invalidation that comes
  during a fetch, a rollback after a newer write, an event before its call's answer
  are the hard cases. Two things may be missing: what nothing makes known to the
  query (`MadeKnown`: without a socket what only an event would tell, and
  `Overlooked`), and what an answer from before the write could not have
  (`Outrun`): a query that is marked during its first fetch, or while nobody has
  its page open, is not fetched again, and the answer is taken for fresh.
* `PagesServed`: nothing asked or offered is refused; and a fact whose change
  nothing tells a query is listed in `Overlooked`. The list is the finding: these
  are shown as they were for up to `staleTime`.

Seen, and no promise of the repository: two tabs with two users can overwrite
each other's session in lock-step for ever (auth.tsx:116), a reason why no
liveness is stated here; a late removal event ends a newer session; two calls of
`ensureSocket` that wait for the first import leak a socket; a refresh answered
late lets calls go out as A under the name of B, or puts tokens into an empty store
after a logout; one that fails late ends the session of B (client.ts:762); a call of
A that waits for a refresh may be sent again with the token of B; a mark on a query
that is being fetched for the first time, or whose page was left, is lost when the
older answer comes (`Outrun`); clock-out is offered while
the optimistic clock-in is under way, and a clock-in without cached data is not
rolled back; `NewRequestForm` files the request again if the upload of its
attachment failed; the delete button of an attachment is shown on a decided request
and refused (attachments.service.ts:110); the profile form is always refused in Team
mode (auth.service.ts:95); assigning a schedule has no error path
(AdminSchedulesPage.tsx:326); a change of mode by another device is not noticed
until the installation is asked for again.

### Proofs: `ClientProofs.tla`

`TabSound` is what makes `TabsAgree` inductive, tab by tab. If nobody is logged in,
a tab shows nobody or still has the removal of a token to hear; otherwise it shows
the stored profile, or will store its own, or has a profile to hear of. The first
half is needed because an effect stores a profile without looking for tokens. The
central lemma, `OthersHear`, is that whatever one tab stores, every other tab stays
sound: of each change that matters to it, it is told. `OneUser` is the other half: unless
`mixed`, whatever is stored, shown or about to be stored is of one user, or of
nobody. `ListensOnce` counts one
listener among the attached one and those that wait for the library: the clean-up
of an effect has to reach both.

`PagesInv` has three parts about the query. `NothingMadeUp`: what is shown but not
booked is tentative or stale. `NothingForgotten`: a call that the query was told of
is shown, or the query is stale, being fetched or outrun. `AnswersCurrent`: an
answer on its way that was read before such a call is known to be outrun. A mark
re-establishes all three at once (`MarkedSound`), so that each step is either a
mark or leaves what is known as it was. The tables of `Screens` enter by one fact,
`PagesCareful`: whatever a page shows before it is answered, it marks whatever the
answer is.

Only model-checked: `PagesServed`, a statement about the tables alone. It has no
parameters, and the run goes through all of it.

## Not modelled

* Positions of devices and scans (`evaluateTerminalPosition`,
  terminals.service.ts 1067-1175), logos and the support prompt: they refuse, by
  floating-point geometry, or decorate.
* The times of day of a work schedule and their validation; request visibility
  (which rows a list shows to whom), which reads only.
* Time zones and the changes of summer time, in every module.
* CSV, PDF and spreadsheet layout, the storage of exports, notifications (a
  logging stub), mail.
* The forms of the client, its layout, wording, camera and generated types. What
  its pages ask, offer and refresh is in `Screens` and `Api`.
* `deletePermanently` of a terminal in `TerminalAuth` (it is in `Terminals`), the
  clearing of the query cache at logout, `patchUser`.
* Operations scripts, migrations as such, seeds and build tooling: sequential,
  and run by hand.

Out of the provers' reach and left to TLC: liveness (`ConnectionsEnd`,
`RevocationNoticed`), and what the folds over days, rows and rules of the
statements compute for every input.

## Conventions

A definition whose name ends in `_Fault` states a plausible mistake in the
definition below it (a dropped check, a wrong order, an off-by-one). Nothing uses
it; it documents what each property is able to notice, and `mutants` in
`PROJECT.json` pairs each with a property that fails when it is put in place.

`TypeOK` of `Requests`, `TerminalAuth`, `Accounts`, `Realtime` and `Projects` is
stated for the proofs and is not among the properties of their runs.
No run with symmetry checks liveness. `CHECK_DEADLOCK FALSE` is set wherever a
bound on the clock, on rows or on versions lets the system come to rest.

## Plan

1. `Requests` composed with `DailyBlocks`, so that a decision and a block for one
   day meet; schedules with times of day.
