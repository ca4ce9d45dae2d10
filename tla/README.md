# Al-Jehad attendance: a TLA+ model

Al-Jehad is an attendance service for construction sites. A worker clocks in and out from a
phone, inside a site's geofence and with a selfie; a phone without signal keeps signed punches and
sends them later; administrators force, review and correct punches from a console; a watcher inside
the server announces overtime and, where it is allowed to, ends a shift by itself. What comes out is
a ledger that is paid. Around it stand the accounts: who applies, whose face is on file, who is
signed in, who is told what.

This directory models that core. TLC checks the models on small instances, and TLAPS proves every
safety property that a run checks, and the refinement, for every instance. Every definition follows
the Python source under `src/backend` or the phone's under `src/mobile-client`; `PROJECT.json` names
the lines of each.

## The system and its parts

| Part | Source | State | Operations | Here |
|---|---|---|---|---|
| Punching | `main.py` `verify_worker` | `active_sessions`, `attendance_logs` | clock in, clock out, arrive | `Punch` |
| Administrators' desk | `main.py` | the same, `construction_sites`, `shift_rules` | force in / out, approve, reject, edit hours, sites, rules | `AdminDesk` |
| Overtime | `overtime.py` | `overtime_authorisations`, worker notices | `scan_auto_close`, `scan_overtime`, `decide_crossing` | `OvertimeWatch`, `AdminDesk` |
| Shift arithmetic | `shift_hours.py` | none | paid time, rounding, the overtime line, the limit | `ShiftHours` |
| Timesheet | `reports.py` | none | `_shift_hours` | `ShiftHours` |
| Quick links | `quick_links.py` | links, their uses | revoke, punch | `QuickLinks` |
| Offline sync | `offline_sync.py` | `punch_queue`, devices | sync, materialise, resolve, revoke | `OfflineSync` |
| Mobile client | `mobile-client/src` | the queue in IndexedDB | punch, keep, sync, give up | `Phone`, `FieldWork` |
| Notices, push | `notifications.py`, `push.py` | `worker_notifications`, subscriptions | notify, dispatch, subscribe, revoke | `PushDispatch` |
| Face model process | `face_process.py`, `face_worker.py` | the child, its pipes, `_pending`, two locks | call, time out, kill, reap, stop | `FaceProcess` |
| Face engine | `face_engine.py` | bounded queue, threads | submit, run, shut down | `FaceEngine` |
| Registrations | `registrations.py` | applications, numbers | submit, approve, reject | `Accounts`, `Enrolment` |
| Enrollment | `enrollment.py`, `biometrics.py` | links, templates, jobs | enrol, redeem, bulk job | `Enrolment`, `BulkEnrol` |
| Retention | `retention.py` | files | the sweep of biometric residue | `Accounts` |
| Sign-in and accounts | `security.py`, `main.py`, `developer.py` | users, token versions | sign in, refresh, revoke, the account desk | `SignIn` |
| Live board | `live_ops.py` | listeners and their wake-ups | listen, changed, stop | plan |
| Notes | `notes.py` | threads | open, reply, close | plan, low |
| Sites and windows, corpora, operations, pages, deployment | many | — | — | not modelled |

The parts meet in one SQLite database in WAL mode. A `with db(write=True)` block opens a
*deferred* transaction: it takes the writer's lock with its first statement that writes. Between
coroutines of one process that makes no difference, because a block awaits nothing and the event loop
runs it whole; so a block of the server is one action. The watcher and a push dispatch are threads,
and for them it does make a difference: see `OvertakenWatch` and `PushDispatch`.

The web server is asynchronous. A punch *reads* the fence and the open shift, *awaits* the face
models on another thread, and only then *writes*; any number of other requests run in between. The
role guard of an endpoint runs on a thread as well, so even an endpoint that awaits nothing acts on a
reading of its caller that may be stale. A selfie goes to a thread of the face engine's
pool, which may hand it on to a child process over a pipe (`FACE_ENGINE_PROCESS`). `Punch`,
`QuickLinks` and `Enrolment` see the verdict only, so `FaceEngine` and `FaceProcess` meet them at the
face check and are checked apart.

### What is hard here

* A punch is three steps (`Gate`, `JudgeFrame`, then one of `PunchIn`, `PunchOut`, ...) and the
  first one's reading travels in the request. Another request, a tap of a link, an administrator or the
  watcher may have opened, confirmed or ended the shift meanwhile.
* Four hands end a shift: the worker, the worker's link, an administrator, the watcher. Each has to
  spend the same overtime answer, file one row and write the same notice.
* Trips: a worker with the privilege opens a shift away from every site. No rule may end it before a
  place has confirmed it, except an administrator.
* Answers to a crossing are given while the shift runs, and the shift may outgrow them.
* Paid time is not monotone in elapsed time: the break is charged at once.
* Sites may be deleted under an open shift, and a deleted site's last boundary still admits a close.
* A phone sends again what was not answered. The first request may still arrive, before, after or
  never, and the phone may have punched online in the meantime.
* The queue of the face engine is bounded, its jobs may submit jobs, and it is shut down by putting
  sentinels on that same queue.
* The model process may die at any moment or never answer. A caller, a caller past its deadline, the
  dead child's reader thread and `stop()` all clean up after it, and its successor may be at work
  by then.
* A push is sent inside the transaction that records it, so a dispatch that dies has rung and
  remembers nothing.
* A number is reused and a biometric id is not; links, files, jobs and sessions outlive the account they
  were made for.
* A session is stored nowhere. What revokes it is a version on the account, read before the handler.

`PROJECT.json` lists each hazard at its line and the properties that cover it.

## Modules

```
ShiftHours ─┬─ ShiftClock ── MCShiftClock
            └─ AttendanceDB ─┬─ Punch ── QuickLinks ─┐
                             ├─ AdminDesk ───────────┼─ Attendance ─┬─ MCAttendance
                             ├─ OvertimeWatch ───────┘      │       ├─ OvertakenWatch ── MCOvertaken
                             │                              │       └─ AttendanceProofs
                             │                     ShiftLifecycle (abstract, INSTANCE)
                             └─ OfflineSync ── Phone ─┐
                                             Punch ───┴─ FieldWork ─┬─ MCFieldWork
                                                                    └─ FieldProofs
FaceProcess ─┬─ MCFaceProcess             FaceEngine ── FaceEngineProofs
             └─ FaceProcessProofs
PushDispatch ─┬─ MCPush                   Accounts ─┬─ Enrolment ─┬─ Onboarding ─┬─ MCOnboarding
              └─ PushProofs                         └─ BulkEnrol ─┘              └─ OnboardingProofs
SignIn ─┬─ MCSignIn
        └─ SignInProofs
```

* **ShiftHours** — the arithmetic as operators over one `values` record (the shift rules). The
  source keeps it in seconds and again in rounded hours; both have one reading here.
* **ShiftClock** — one shift, one clock; the operators against what they are to compute.
* **AttendanceDB** — the tables as variables, and the steps all closers share: `CloseShift`,
  `Consumed` (`consume_authorisation`), `HeldHours` (`apply_authorisation`), `CrossingNotice`
  (`announce_crossing`). A `Row` also carries `shift`, a number the code does not store. The code
  identifies a shift by worker and clock-in second; the model's moments are coarse, so the
  properties need a name that two shifts cannot share.
* **Punch** — `POST /attendance/verify`. `requests` holds, for each request in flight, what its gate
  read. `Gate` is the check without a lock; `JudgeFrame`/`RefuseFrame` the face check; `Depart`,
  `PunchIn`, `RefuseIn`, `PunchOut`, `RefuseOut` the branches of the write transaction; `Arrive` and
  `RefuseArrival` those of an arrival's. Refusals end the request and roll back.
* **QuickLinks** — a tap of a link: `TapLink`, the count of faces, then the transaction that reads
  link and shift again and decides whether the tap opens or ends one. The uses of a link are
  counted in the transaction that files the row and in no other, so they are read off the ledger. A
  trip that no place has confirmed is ended by a tap too, at the tap's place.
* **AdminDesk** — one action per endpoint. `Blank` is an empty optional field.
* **OvertimeWatch** — `ScanAutoClose` then `ScanOvertime`, in turn, each over all open shifts; the
  order in which a scan meets the shifts is any order.
* **Attendance** — their composition, and the properties about it.
* **OvertakenWatch** — the automatic close as the two steps it is: what it reads before its first
  write, and the write.
* **ShiftLifecycle** — the promise: a worker is off, travelling or working; a shift ends once, with
  one record, at somebody's hand; a trip that reached no place ends without one only at an
  administrator's hand and never at the system's. `Attendance` implements it
  (`ImplementsLifecycle`): `phase` is read from the open sessions, `ended` from the clock-out rows.
* **OfflineSync** — `POST /attendance/sync` step by step under `txn`, with its two loops: every
  punch of the batch gets its verdict and its row in the queue, then what is verified is materialised
  in the order of its effective time. Every other action of the server waits until the block is
  over. Then the desk: a refused punch approved or rejected, a phone revoked.
* **Phone** — the queue on the phone and the loop that sends it in batches. The network keeps
  requests and answers that nobody awaits any more.
* **FieldWork** — a phone that punches online while it can and keeps punches while it cannot.
* **FaceProcess** — the transport to the model process. `calls` holds the progress of each thread in
  `reply_of`; a frame carries its request's number and a photograph, and a reply the photograph it is
  the answer to. A `with self._lock` block is one action. `_write_lock` is a variable, because a
  thread waits with it in its hand. `_kill`, `_reap` and `stop` are several actions each, since they
  let go of the lock between taking the child out of service, ending it and failing what is in flight.
* **FaceEngine** — the pool: threads are alike, so they are counted; `slots` is the queue with its
  jobs and sentinels.
* **PushDispatch** — notices, subscriptions and dispatches. What a dispatch has written and not
  committed is its draft; what has rung on a device is kept beside the tables, since no rollback
  takes it back. The report of a notice nobody could receive is the watcher's.
* **Accounts**, **Enrolment**, **BulkEnrol**, **Onboarding** — numbers, accounts, applications, links and
  templates; the three requests that file a face, each with the wait for the models in its middle; the
  background job with runners that die; the sweep; and their composition. The desk's handlers await
  nothing and are one action each.
* **SignIn** — tokens, the guard, and every write of the account desk as a request between its guard
  and its handler. The developer's account is a row of `users` that is there from the start, because a
  tool run by hand makes it (`tools/seed_developer.py`); no request gives its role to a row or takes it
  from one. `require_role` lets it through every guard (`AdminOnly`), and its two levers on sessions are
  `DeveloperStep`. Whoever holds a session and the password of now may change the own password; an own
  account may be closed with the session alone.
* **MC…** — instances for TLC. **…Proofs** — the proofs; those of `ShiftClock` are few and in it.

Definitions whose comment begins "Broken on purpose" are variants of a definition with a plausible
mistake. No specification uses them; each exists so that a property can be seen to fail.

## Runs

| Run | Question | States |
|---|---|---|
| `MCShiftClock` | Is the arithmetic what it claims, for every small rule set? | 3,072 |
| `MCRace` | Two requests, taps of a link, an administrator and the watcher race for one shift: is it opened, confirmed and ended once, and does a spent link file nothing? | 1,730,000 |
| `MCReview` | A held shift answered, outgrown, ended, decided and corrected while its site goes and the rules change: what is credited, what waits, whose is the answer, where may it end? | 783,000 |
| `MCLive` | Does an approved shift end, is a crossing told, is every step one of `ShiftLifecycle`'s? | 136,000 |
| `MCOfflineSync` | A phone whose requests and answers are lost, which also punches online, and a desk: is a punch filed once, is what the phone counts as settled on record, does its queue drain? | 511,000 |
| `MCFaceProcess` | Does every call end, and with its own answer, whichever model process dies? | 160,000 |
| `MCFaceEngine` | Does the pool keep its threads, does an accepted job run, does a shutdown run what waits? | 82,000 |
| `MCPush` | Did a delivered notice ring, how often may it ring, is an undeliverable one reported? | 689,000 |
| `MCOnboarding` | Two people and two numbers, a desk and a link in flight: do links, notices and faces follow their person? | 167,000 |
| `MCBulkEnrol` | A roster whose runner dies or breaks off and whose accounts go: do the counters lag by what was lost and no more, does a resumed job end? | 66,000 |
| `MCSignIn` | Requests between their guard and their handler: does a revoked session come back, does a crew lose its supervisor, can an administrator take the last head administrator? | 659,000 |
| `MCOvertaken` | Is a shift closed once when the watcher's close is the two steps it is? No: see below. | stops at the counterexample |

### Bounds, and why they suffice

* One unit of time stands for an hour or so; `MaxNow` ends the clock. `MCReview` and `MCLive` have time
  for a shift to reach the paid day and the line and to be ended past them; `MCRace`, whose question is
  about order only, has one unit. The tolerance of three minutes in `authorisation_covers`
  is below the unit.
* `MaxRows` bounds the ledger by refusing new *openings* when it is that long; whatever is open
  can still be confirmed, closed and filed, so no behaviour is cut inside a shift. In
  `MCRace` two requests that both passed their gate before the bound still run to the end.
* `MaxAnswers` bounds the answers to crossings, because a ceiling below the hours worked leaves its
  question open and could be given for ever.
* Two requests of one worker show every race of a stale gate against a transaction (`MCRace`): a third
  would only add another step between the same two. `MCReview` and `MCLive` have one request; there the
  races that matter are with the desk and the watcher.
* No run of `Attendance` has two workers. Workers' rows are independent except in one place: a
  scan closes or announces several shifts in one transaction. That case is covered by the proofs
  (`AutoCloseKeepsLedger`, `ScanRows` and the lemmas that use it), and so is the refinement
  under several requests (`LifecycleIsImplemented`).
* Rule sets are one per policy worth telling apart (`MCAttendance`): a close at the paid day, none
  with the line past it or at it, and a close that stands down for an answer. `MCReview` has room for the
  first kind without a close and the last only, so there a scan ends a shift at an answer's limit and
  never at the paid day; that the general close files its limit as well is proved (`CloseFilesItsLimit`).
* `MCOfflineSync` has one phone with room for two punches in one batch, and one request in flight.
  That keeps the requests in order; `FieldProofs` holds for any number in flight and any batch.
  `MaxAge` and `Window` are 0, so that one tick makes a punch too old and a repetition a new punch.
* In `FaceProcess`, two threads (the engine's default concurrency) and two children: one that dies
  and one that takes over. `PipeHolds` is 0: a photograph does not fit a pipe whose child is busy, so a
  write waits for the child. That is the hard case; the safety properties are proved for every
  value. `stop()` happens at most once, at any moment; the threads may go on calling after it.
* `FaceEngine` has two threads, a queue of two and two jobs that submit another: enough to
  fill the pool with jobs that wait for jobs, which is what the code's nested path is for. Two shutdowns
  show a pool that is started again while threads of the last one still run.
* `MCPush` has a worker with two notices, another who may take over a browser, two browsers that may
  change twice, two attempts, one process and one death.
* `MCOnboarding` has two people for two numbers and a queue of one, so that numbers are given back and
  handed to the other. `MCBulkEnrol` has one runner that dies twice and breaks off as often
  as it will: see *What the code does not do* for a second. Nobody applies there (`Cap` is 0), and
  accounts are still added, deactivated and deleted under the roster.
* `MCSignIn` has a head administrator with records, the developer, a free number and a third person to
  take it in any role. Versions stop at 1, which is one revocation of everything, and two tokens are
  ever minted. All three ways of losing the last head administrator are reached.
* Symmetry over requests is used only where no liveness is checked.
* `CHECK_DEADLOCK FALSE` stands where the system may rest: the arithmetic ends at its horizon, a model
  process has no more calls, a pool or a queue is empty, a job is over, the bound on punches, tokens or
  accounts is reached. `Attendance` never stops, since the watcher scans for ever, and `PushDispatch`
  neither, so deadlock is checked there.

### Fairness

Nothing in any module makes a person act: no punch, no decision, no sign-in is ever owed.

* **Attendance** — the clock runs; the watcher's timer keeps firing, because `_loop` catches whatever a
  pass raises and runs the next; a request whose face check is over is settled, because the
  transactions wait for one lock that is always released.
* **FieldWork** — signal comes back, and the phone's loop runs when it has some. Of the network,
  strong fairness: a phone that sends again and again is served in the end, though any single request
  or answer may be lost for ever. A transaction the server has begun is finished.
* **FaceProcess** — threads run and deadlines pass, and a child that is alive reads its pipe and
  answers. Weak fairness per thread is enough because a run makes finitely many calls: the write lock
  cannot be handed past a waiting thread for ever. That a child answers is an assumption about the
  models and not about the code, so `HangingSpec` drops it.
* **FaceEngine** — idle threads take jobs, a running job finishes, a submission is admitted or refused.
* **PushDispatch** — the clock and the watcher's report run, and a dispatch that lives goes on.
* **Onboarding** — the sweep runs, and a runner that lives goes on. Of requests nothing is assumed: a
  request stops at any step, as it does when the server does. One thing a person does is assumed:
  whoever uploaded a roster whose run stopped runs the job again (`python -m enrollment --job N`), since
  nothing in the server does.

### What the properties say

*Attendance.* `NothingAfterTheClose`, `TripConfirmedOnce`, `SpentLinkFilesNothing` and
`ImplementsLifecycle` are about races. `OrdinaryShiftEndsAtAPlace` is about places.
`OneStandingAnswer`, `AnswerFollowsItsShift`, `HeldHoursWereAnnounced` and `AutoCloseFilesTheLimit` are about overtime
answers. `CreditAndAwaitingAddUp` and `StandardDayIsEarned` are about money; the second is claimed for rules with the line at or past the
paid day and for shifts whose answer does not lie below it. With a line below it, `apply_authorisation` holds everything past an accepted
ceiling, also hours of the day itself. `ApprovedShiftEnds` and `CrossingIsTold` are what must happen in the end.

*The field.* `EveryPunchOnce`: a kept punch has one row in the queue and at most one in the ledger, with
the moment and the place it was signed with. `SettledIsOnRecord`: what the phone no longer holds back, the server has.
`NothingWaitsAtTheServer`: between transactions no verified punch is left unapplied. `QueueDrains`: in the
end the queue of a phone that is not revoked is empty.

*The models.* `OwnReply`, because applying one photograph's answer to another is what the
module's own comments fear most; `ListedWhileUnanswered`, the table neither leaks nor forgets;
`NoStrayChild`, no second copy of the models stays in memory; `EveryCallEnds`. A caller at its
deadline kills whichever child is current, which may be a healthy successor of the one that did not
answer it: `NoStrayChild` is about what becomes of the child that is taken, not about which one.
`EnoughWorkers`, `AcceptedJobIsRun` and `ShutdownRunsWhatWaits` say that a pool that counts as started has its threads, and
forgets no job. The last is about jobs that wait when the shutdown begins: a job that slips
in behind the sentinels waits for the next submission to start the pool again.

*Notices.* `DeliveredHasRung`; `RingsOnce`, a notice rings on a device at most once per
process and once more per dispatch that died before its commit; `NothingIsLostInSilence`.

*Accounts.* `LinkFollowsItsPerson` (a refused applicant's links excepted, see below);
`ApplicantIsAnnounced`, whoever waits stands in the administrators' notices, unless the number is still
under the notice of an account deleted since (see below); `WorkingFaceIsKept`, `LeftoverFaceGoes`;
`CountsLagTheOutcomes`; `JobEnds`, whose premise is that in the end no run goes wrong; `SessionsAreCurrent`, a session its
account still accepts is of an account in use and was opened with the password it has now; `AssignmentResolves`, whoever is reported to is an account
in the supervisor's role; `LastHeadIsHardToLose`, the last head administrator goes only by an
own request, by the developer's, or by one that was let in while its sender was a head too.

Two readings of the code are in the models and behind no property, because the code's own words do
not settle what is right. A site deleted during the face check of a clock-in still has a shift opened
on it. And the boundary of *any* deleted site admits a clock-out, whose row names the shift's own site.

## What the code does not do

**`MCOvertaken`** is a run that TLC stops with a counterexample. "It deletes the session it closed, so
there is nothing left to close twice" (`overtime.py:88`): the watcher reads the open shifts before
its first write takes the lock, a clock-out commits in between, and the pass files a second clock-out
for the same shift. `Attendance` takes a pass as one step, so what is checked and proved there is for
a watcher that is not overtaken at that point.

The others below were read from the code while modelling it. Where a name is given, the module defines the
property in its own section; as an `INVARIANT` or `PROPERTY` TLC refutes it.

* `DeletedSiteReasonIsTrue` (Attendance) — a trip admits a clock-out away from every site; while its face is
  checked another request confirms the trip, and the row is flagged as taken inside a deleted
  site's boundary.
* `FaceDoubtCreditsNothing` (Attendance) — "`pending_review` credits nothing". A doubtful selfie on a
  shift that also ran past the line is filed as overtime only, and the paid day is credited.
* `AnsweredHoursAreNotLost` (Attendance) — hours past a ceiling "are not lost". The watcher's
  next pass closes the shift at the ceiling and they are.
* `OneTapOfTwoPunches` (Attendance) — of two taps of a link at one time the second was to
  be refused (`quick_links.py:887`). With uses left, one opens the shift and the other ends it.
* `NoHourIsCountedTwice` (FieldWork) — "Same punch, different route": a tap online whose answer is lost is kept
  and sent as a queued punch, and the two can become two shifts that overlap.
* `DeathFailsItsCalls` (FaceProcess) — "Every request still in flight fails" when the child dies. If the next call
  replaces the child before its reader gets there, `_reap` returns early and fails nobody; the
  request waits out its deadline, and its caller then kills the successor.
* `EveryCallEnds` under `HangingSpec` (FaceProcess) — a hung child "is killed rather than waited for".
  `_fail_all` for a dead child also fails a request already sent to its successor, whose caller leaves.
  If the successor then hangs over that request, nobody's deadline is on it. The next call blocks
  while writing to it, with the write lock in hand and no deadline on a write, and so does
  every call after it.
* `CapacityIsFixed` (FaceEngine) — a shutdown that gives up on a full queue leaves threads behind, and a
  later start adds a pool to them, past the concurrency of `face_engine.py:25`.
* `NetworkOutsideTransaction` (PushDispatch) — "The network is never in the transaction". It is in
  every dispatch's after the first notice was marked, with the writer's lock held. Two processes may also both
  send, since the lock that keeps dispatches apart is a process's own.
* `WaitingFaceIsKept` (Onboarding) — the sweep counts `pending_approval` among the states whose face
  may go, so an applicant who waits loses the face that "already exists" (`registrations.py:1540`).
* A closed or deleted account's files are looked up after its row is gone, so the template named
  after its id stays until the sweep. A refused application does not delete the links of its number, so
  the next holder can be enrolled with the refused person's face. A link of one use can be redeemed
  by two requests at once. Two runners of one job both claim every row (`enrollment.py:822` says
  otherwise), and an account that is deleted in the middle of a batch ends the run.
* `EveryApplicantIsAnnounced` (Onboarding) — "One notice per waiting account". The notice's key names the
  number. An account that is deleted, whether it waited or was let in, leaves its notice
  (`main.py:4697`–4826), and the notice of the next applicant who is given that number is ignored
  (`INSERT OR IGNORE`, `notifications.py:145`): that person waits unannounced, until a refusal on the number
  clears it or, once it is read and old, the retention does.
* An upload's archive is first opened by the job (`enrollment.py:842`–844). One that is corrupt or cut
  short breaks off this run and every later one before a row is looked at (`enrollment.py:867`–876): the
  job stays `failed`, its rows stay claimed, and no resume decides them. So does a liveness model or a
  disk that fails at the same row each time. `JobEnds` is about the jobs this does not befall.
* A link's redemption that waits for the face models when its account is deleted and the number handed on
  still files the old person's face, under the new one's id (`enrollment.py:674`–686).
* `HeadAdminRemains` (SignIn) — "The console cannot be left without a head admin". The last one may close
  the own account, two heads' requests that passed the guard together leave none, and one request of
  the developer to change the role, deactivate or delete takes the last: `require_role` admits that account everywhere
  (`security.py:381`–389), and neither `_guard_standard_admin` nor `_refuse_self_account` stops it.
  `tests/test_developer_role.py` (lines 7 and 143) wants that power.
* `SessionIsItsPersons` (SignIn) — a number that is handed out again starts at version 0, where the sessions of its
  first holder were minted; one that has not expired is accepted as the next holder's.
* `SupervisorIsInWork` (SignIn) — a deactivation releases no crew.

## Proofs

TLAPS checks what follows for every number of workers, requests, sites, phones, children and so on,
every rule set and every bound. The assumptions are the `ASSUME`s of the modules, which TLC evaluates
on each run. Every invariant and every safety action property of the passing runs is stated by a
theorem, and so is the refinement.

* **ShiftClock** — `TypeCorrect`, `LimitIsFirst`, `RoundingIsNotOvertime`, `CloseRecords`,
  `VerdictIsTrue`: the arithmetic over all rule sets. Linear arithmetic once the break is split on
  whether it is charged. `VerdictIsTrue` is about what the watcher does later in the same run, so
  it assumes `LongEnough`, a horizon past the line; `MCShiftClock` assumes it too.
* **AttendanceProofs** — every step of the service is of one of eight kinds (`StepKinds`): it files
  nothing and touches no shift, opens, confirms, ends, decides, and so on. The invariants are then kept kind by kind.
  - `TypeCorrect`. `TypeOK` is not inductive: `Elapsed(w)` is a natural number only if the shift
    started in the past. `TypeInv` adds `StartedInThePast`.
  - `SettledStaysSettled`, `OneConfirmation`, `UnplacedIsPaidByHand`, from `LedgerInv`. A step appends a
    row for an *open session*, so the invariant says that an open shift has no clock-out yet. That
    follows from the shift's number, the length of the ledger at its opening: rows of closed
    shifts are older than the open one (`ShiftsOpenedBefore`, `RowsComeLater`, `ClosesAreOlder`). A second
    confirmation is excluded because a confirmed session is not travelling
    (`ConfirmationsAreOlder`), a row under the placeholder because a session carries it only while it
    travels (`PlaceholderTravels`). A scan appends several rows at once and is the long case (`ScanRows`): that there are finitely
    many workers is used there.
  - `OrdinaryEndsAtAPlace`, from `FixlessTravel`: a request without a place was let in by a gate, and a gate
    lets in only travellers.
  - `CreditAddsUp`, `DayIsEarned`, `HeldIsAnnounced`, from `RowsInv`, what every kind of row records
    when it is filed and after each decision. `LedgerIsKept`: no step deletes a row or rewrites who, where, when or what.
  - `OneAnswerStands`, `AnswersFollow`, from `AnswersInv`; `CloseFilesItsLimit`, with `LimitIsReached`: at the
    moment a close is due the paid hours have reached its limit.
  - `SpentLinksRest`: the rows a link filed grow by one, and in a step that finds it usable.
  - `LifecycleIsImplemented`: the refinement, initial states and each kind of step.
* **FieldProofs** — `FieldTypesHold`, `PunchesAreFiledOnce`, `SettledAreOnRecord`,
  `NothingIsLeftWaiting`, from four invariants. `Types` adds that nothing was taken in the future.
  `RecordInv` says what a phone, the network and the server may know of one punch; its core is
  `Awaits`: the one request a phone awaits carries exactly what it remembers sending, in order, and
  what an answer settles is on record. Requests that nobody awaits may say anything old, and a punch that
  is on record already is a duplicate whenever it comes. `WaitInv` says that whoever waits to become attendance
  waits for the transaction under way. `LinkInv` says that a row of the queue and the row of
  the ledger it became name each other, so that none becomes two. Each invariant has frame lemmas (`QueueGrows`,
  `Steady`) for the many steps that leave its tables alone or only add to them.
* **FaceProcessProofs** — `TypeCorrect`, then `RepliesMatch`, `TableIsExact` and `NoChildIsLost` from
  one inductive invariant, `FaceInv`. `OwnReply` is about a caller that already has its reply. Before
  that the answer is on its way, so `PipesMatch` follows every frame: one that carries the number of a
  request in flight carries its photograph (`Known`), in the pipe to the child, in the child, and in
  the pipe back, whichever child it is. A new request must then not collide with an old frame:
  `Numbered` says that numbers in flight are distinct and that no frame's number lies ahead of the
  counter. A child that is started must not be one that runs already: `InService` says that no
  child beyond the counter is alive.
* **FaceEngineProofs** — `QueueAndTypes`, `PoolHasItsThreads`. A thread ends by taking a sentinel, so the
  proof counts them: a job stands in the queue once, what is no job is a sentinel, and the sentinels
  never outnumber the threads there are to end.
* **PushProofs** — `TypeCorrect`; `DeliveriesRing`, because a draft that says delivered was written by a
  dispatch that rang; `RingsAreBounded`, from `RingInv`. Until a delivery is committed, each ring is one that a
  dispatch will still record or one of a dispatch that died. Once it is, only a dispatch that
  had selected the notice before may still ring. A process has one dispatch at a time, hence the bound.
* **OnboardingProofs** — `TypesHold`; `LinksFollowTheirPerson` and `ApplicantsAreAnnounced`, which
  rest on a person having one account at most, the latter with the exemption stated above; `WorkersKeepTheirFaces`, per action. Of the job:
  `RosterIsKept` and `JobsAreWhole` for any number of runners, since every row that was decided is counted but for one
  per death; `CountsAreOutcomes` under `OneRunner`, because a second runner decides rows again and
  counts them twice.
* **SignInProofs** — `TypesHold`; `SessionsStayCurrent`: no token of a holder bears a version past the
  account's, and a version only grows while the holder stays; `AssignmentsResolve`, which needs that a
  supervisor is no applicant and nobody is supervised by oneself; `LastHeadIsKeptFromAdministrators`, for
  which it matters that a request's role is the one its guard read. Each write of the
  desk is described once by what it may change (`Kinds`, `Moves`, `Written`), and the three are
  proved of the description.

Proved and stated in no run, because they are about many instances or follow from others:
`LedgerIsKept` (`LedgerKeepsItsFacts`), `UnplacedIsPaidByHand`, `JobsAreWhole`, `RosterIsKept`,
`CloseRecords`, and the type invariants.

Checked by TLC only: the liveness properties `ApprovedShiftEnds`, `CrossingIsTold`, `QueueDrains`,
`EveryCallEnds`, `AcceptedJobIsRun`, `ShutdownRunsWhatWaits`, `NothingIsLostInSilence`, `LeftoverFaceGoes` and `JobEnds`. The prover
knows neither fairness nor `ENABLED`. Nothing proved needs induction over data, and no module here
declares a `RECURSIVE` operator.

## What the models leave out

* A fix lies inside the boundary of at most one site (`Fixes`). The code takes the first match of an
  ordered table, and overlap is not a question of these properties.
* The verdict of the face models is a choice; their numbers, liveness and frames are not modelled.
* The clock and the rules are read just before the write lock is taken, and are read in the same
  step as the write here.
* A worker's request to be closed by an administrator, late-arrival flags and notices to
  administrators change no table of the model. `edit_site` renames and moves fences in place and is
  not modelled.
* `auto_closed`, a status code of rows older than the current close, is written by no path and absent.
* Clock-in moments never collide with a closing in the same second: the code's identity of a shift
  is the second, the model's the shift number, where the two could differ.
* Quick links: one link per worker, issued before the run. Expiry ends a link as a revocation does.
* Offline sync: pairing and key rotation, anchors and their expiry, clocks ahead of the server's, signatures
  that do not verify, the prune of old rows, photographs and their scoring. Signatures and anchors are what an honest
  phone sends. A revoked phone's punches stay on it; a rejected punch whose reply is lost is
  reported as a duplicate by the next one.
* Model process: a corrupt frame from a child that lives, an argument that cannot be pickled,
  the second kill aimed at a launcher's interpreter, the cached status, the counters and the stderr
  thread. A spawn that fails changes nothing and ends the call, which is a call not made. A child
  whose exit the operating system has not yet reported counts as dead at once.
* Face engine: cancelled futures, statistics, the join's timeout, the end of the model process with it.
* Push: the transport and its keys, the limit of twenty notices per dispatch, the counters by outcome.
* Onboarding: the intake switch, passwords and names, staged photographs, files under legacy names,
  self-enrolment of administrators, several applications of one person, attendance records that forbid a
  deletion, the retention of read notices (180 days), database errors while a row is counted.
* Sign-in: passwords as text, device keys, expiry of tokens, limits on attempts, the tool that makes the
  developer's account and what the console conceals of it.

The live board, notes, and most of the 65,000 lines of the backend are not modelled: reports, readiness
checks, the developer's console, migrations that run once, a load test, pages, and the numeric code of the face models. They
keep no state that the properties here could tell apart.

## Plan

1. **SignIn**: device keys, and the states of an account during a tap or a sync.
2. **OfflineSync**: photographs and their scoring, which awaits between reading and writing
   `photo_scored_at`; `NothingAfterTheClose` over `FieldWork`.
3. **LiveBoard**: wake-ups posted inside a transaction, by the event loop's thread and by the watcher's.
4. `edit_site` and the rules read before the lock, as steps of `Punch` and `AdminDesk`.
5. **OvertakenWatch**: the properties that do survive an overtaken close, stated and proved.
6. **Corpora** and their jobs, then **Notes**.
