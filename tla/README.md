# T Rock CRM: specifications

TLA+ specifications of the parts of T Rock CRM whose correctness depends on
what several processes do in what order: the durable job queue, what is built
on it, and the photo queue of the field app. TLC checks small instances; TLAPS
proves every safety property of the passing runs for instances of any size.

    tlc -config jobqueue_fencing.cfg MCJobQueue     # any row of "Runs"
    tlapm JobQueueProofs.tla                        # the proofs
    tlapm BidBoardInboxProofs.tla
    tlapm JobQueueRefinement.tla
    tlapm RfpVoteProofs.tla
    tlapm WeeklyReportSendProofs.tla
    tlapm WeeklyReportStallProofs.tla
    tlapm GlassesForwardProofs.tla
    tlapm PhotoUploadQueueProofs.tla

Paths in this document are relative to the repository; `PROJECT.json` maps each
definition to the lines it models.

## 1. The system

T Rock CRM is an Express server (`server/`) and a worker (`worker/`) over one
PostgreSQL database with a schema per office, a React client (`client/`,
`client-field/`) and two mobile apps (`mobile/`, `mobile-crm/`). The server
never does slow or external work in a request: it inserts a row in
`public.job_queue`, in the transaction of the change the job follows from, and
a worker process claims the row and runs the handler registered for its type
(45 types). Several worker processes may run at once, for instance during a
deployment.

| Component | State | Operations | Talks to | What is hard | What makes it correct |
|---|---|---|---|---|---|
| Job queue, `worker/src/queue.ts` | `public.job_queue`; in memory the intents (`pendingRecoveries`) and one reentrancy guard per poller | claim, run, complete, retry, defer, dead-letter, replay, renew, sweep | every handler; server transactions that insert, withdraw or revive rows | slow and dead workers, timed-out statements that still execute, a COMMIT whose answer is lost, replays | no statement about one claim touches another; one live holder per lease; outcomes kept; every job settled |
| Bid Board inbox, `server/.../bid-board-sync/inbox.ts`, `worker/src/jobs/bid-board-ingest.ts` | `public.bid_board_ingestion_inbox`, the office's advisory lock | accept, claim under a lease, import, record, recover, retain | queue, importer | two leases (row and job), commit and record apart, snapshots out of order | a recorded import is made once; no older snapshot over a recorded newer one; every snapshot decided |
| Weekly reports, `weekly-reports/send-service.ts`, `worker/src/jobs/weekly-report-send*.ts` | report rows: status, version, stamps of delivery and stall alerts | schedule, send, retry, correct, sweep | queue, mail provider | check then send across a render; sent but not stamped; key windows | at most one "first" report to a client; each report sent or alerted |
| Photo upload queue, `mobile/src/capture/upload-queue.ts` | index file with .tmp and .bak, photo files; in memory the mutex, in-flight enqueues, tombstones, drain guard | enqueue, compress, cancel, drain, reconcile | server (presign, confirm) | app kills at any step, cancel during enqueue or confirm, drains that overlap | no captured photo lost, no cancelled one linked, each linked once |
| RFP voting and Bid Board create, `deals/rfp-*.ts`, `worker/src/jobs/rfp-*.ts` | vote rounds and votes, the deal's create status | vote, override, return, create, callback, sweeps | queue, external create | a decision by concurrent voters; late callbacks | one decision per round; no second create of one that may have been accepted |
| Glasses walkthroughs, `glasses-walkthrough-forward.ts`, `walkthrough-capture/glasses-walkthrough-service.ts` | rows of the forward job: artifacts, those filed beside a delivery, create marker, id, alert stamp | complete, amend, record, supersede, replace, forward, fold, alert, repair | queue, TROCK Scope, the phone | death around a remote create; clips that arrive while others are being uploaded | one create; no acknowledged clip forgotten |
| Corrective actions and scorecards, `field/corrective-actions-service.ts`, `scorecards-service.ts` | cycles, nonces, notice stamps | open, close, reopen, notify | queue | reopen while a notice is on its way | one notice per cycle |
| AI report runs, `field/ai-report-runs.ts` | run rows with fences | start, redeliver, abandon | queue, billed model calls | abandoning a run that is alive | not billed twice, not failed while running |
| Deal stages, change orders, leads, tasks | tenant tables | row-locked transactions | each other, queue | little beyond row locks | gate rules |
| E-mail and Procore sync, reports, authentication, notifications, recordings | tokens, caches, files | I/O and queries | external services | outside the database | out of scope |

The hazards of these parts, 40 of them, each at its line, are in
`PROJECT.json`. All but four have a property; those four say why they have
none.

## 2. Modules

| Module | What it is |
|---|---|
| `JobQueue` | the queue: table, workers, pollers, intents, leases, sweep, crashes |
| `MCJobQueue` | its small instances |
| `JobQueueProofs` | ten theorems about `JobQueue` |
| `AtLeastOnce` | what the queue promises to the code that inserts jobs, and no more |
| `JobQueueRefinement` | the proof that `JobQueue` implements `AtLeastOnce` |
| `BidBoardInbox` | the inbox with its handler and recovery, over a simplified queue |
| `MCBidBoardInbox` | its small instances |
| `BidBoardInboxProofs` | six theorems about `BidBoardInbox` |
| `WeeklyReportSend` | the versions of a weekly report: requests, delivery job, provider |
| `WeeklyReportSendProofs` | six theorems about `WeeklyReportSend` |
| `WeeklyReportStall` | extends it by the stall sweep and its alerts |
| `WeeklyReportStallProofs` | five theorems about `WeeklyReportStall`; extends `WeeklyReportSendProofs` |
| `RfpVote` | the vote on a deal's RFP, its create job, callbacks and sweeps |
| `RfpVoteProofs` | six theorems about `RfpVote` |
| `GlassesForward` | completions of a glasses walk against the job that forwards it |
| `GlassesForwardProofs` | four theorems about `GlassesForward` |
| `PhotoUploadQueue` | the durable upload queue of the field app |
| `PhotoUploadQueueProofs` | five theorems about `PhotoUploadQueue` |
| `MCWeeklyReportSend`, `MCWeeklyReportStall`, `MCRfpVote`, `MCGlassesForward`, `MCPhotoUploadQueue` | their small instances |

The modules meet at the queue. `JobQueue` models it claim by claim and implements
`AtLeastOnce`; the modules of single job types reduce it to what `AtLeastOnce`
allows (claim, settle, hand out again, also while an earlier run goes on) and
keep the guards their own handlers rely on.

### JobQueue

`row[j]` is a row of `public.job_queue`: `status`, `attempts`, and `lapsed`,
whether `started_processing_at` is older than the 5 minute lease. Its `clm` is
history: the number of the claim that holds it, which the code does not have
and the properties need. `slipped` is history too: the jobs whose `attempts`
moved back while a statement with a higher value was still to be executed
(`Slips`, a conjunct of the five actions that can move them). What the worker holds about a row is a *delivery*
(`processJob`: phase `run` while the handler runs and the heartbeat renews,
`write` while `attemptRecovery` writes the outcome) or an *intent*
(`pendingRecoveries`, one map per process).

| Action | Code |
|---|---|
| `BeginTick`, `FlushLands`, `FlushFails` | `pollJobs` takes its guard, `flushPendingRecoveries` replays a snapshot of the intents and stops at the first failure |
| `Claim`, `ClaimFails`, `EmptyClaim` | `claimAndRunJobs`: SELECT ... SKIP LOCKED, dead-letter the unknown types, mark the others, COMMIT; or the catch that requeues what it marked |
| `DoubtCommits`, `DoubtRollsBack` | what the server made of a COMMIT whose answer was an error |
| `HandlerReturns/Rejects/Throws/Defers`, `OutcomeLands`, `OutcomeFails` | the body of `processJob` and its outcome write |
| `Renew`, `RenewStalls`, `StrayLands` | `renewJobLease`, at once, or under way (in `strays`) when its handler has long ended: clearing the interval stops the timer, not a statement |
| `LeaseLapses`, `Sweep` | the clock; `recoverStaleJobs` |
| `LimboLands` | an outcome write that was timed out and then executed after all: `timedPoolQuery` abandons, it does not cancel |
| `Crash` | the process dies; its memory is lost |
| `Revive`, `Withdraw` | the server requeues a dead scorecard e-mail with `attempts = 0`; a reopened corrective action, or a return to opportunity, closes pending jobs |

Every write about a claim carries `(job, att)` and `Matches` is its WHERE
clause. A statement and its acknowledgement are one step, except that a failed
one also enters `limbo`, from where it may land at any later time or never:
lost answers, late execution and no execution are all there. A retried or
deferred row may be claimed at any later time: `run_after` is not modelled.
Handlers are opaque. What they do is the subject of the modules built on the
queue.

### BidBoardInbox

`inbox[i]` is the row of snapshot `i` (`leased`: the lease is fresh), `job[i]`
its live job (a partial unique index allows one), `handler[w]` what worker `w`'s
dedicated poller is doing, phase by phase: claim the row, look why it could
not, wait for the office lock, check status and watermark under it, import,
record, fail, and settle the job. `RecoveryRuns` are the four statements of
`recoverOrphanedInboxJobs`, which every worker runs at start-up and each minute; each
stands on its own WHERE clause, and as an abandoned one may land among those of a
later run, they come in any order. `late` holds the statements of handlers that were
timed out (`timedPoolQuery` abandons, it does not cancel) or whose sender died:
`LateLands` executes one at any later time, or never, under whatever lock is held
then. The queue below it is the one `JobQueue` describes, with its writes atomic
(their failure is `JobQueue`'s subject). `mirror`, `watermark`, `commits`, `forgotten`
and `overtaken` are history.

Things the code does that are easy to miss, and that the model keeps: the two
leases lapse independently, so either can stall alone; the inbox lease's
renewal is not bound to an attempt, so a superseded handler keeps the row
leased for whoever owns it; the failure of the claim query, or of the look at a
row that was not claimed, is outside the handler's try block; the record may land
although all six tries reported failure, also after the office lock was released, as
its guard is the row's status alone (`inbox.ts:364-370`).

Merged steps: `Check` reads status and watermark in one step (a record that lands
between the two reads does what one before or after both would); `Succeed`
includes the reconciliation of a row failed meanwhile (only an abandoned record of the
same row moves a failed one).

### AtLeastOnce

A job is `waiting`, `taken`, `completed` or `dead`, and `earned` holds the
outcomes its runs have arrived at. `Hand`, `TakeBack` and `Settle` are all a
queue may do by itself, and `Settle` needs an earned outcome; `Withdraw` and
`Revive` are the server's two edits. The mapping is in `JobQueue`: `States` reads
the status column (`pending` is waiting, `processing` taken), `Earned` the
verdicts of a job's claims. Leases, intents, replays, limbo and crashes are
invisible: each is a stutter or shows up as one of the five.

### WeeklyReportSend and WeeklyReportStall

`report[w, n]` is version `n` of week `w`. Every request of the API is one
transaction under the row locks it takes: `Draft`, `Correct`, `Send`, `Retry`,
`Delete`. The delivery is not: `Start` (the handler reads and renders),
`LastLook`, `ProviderAccepts` or `ProviderFails`, `RecordDelivery`,
`RecordFailure` or `RecordLost`, with requests and other jobs in between, and
`Redeliver` hands a job out again while a run of it may go on. The provider
recognises a delivery key for 24 hours: `Age` marks that a report's first message
is older, `Forget` drops the key. `Bounce` is the provider's webhook. `excused`
is history: the versions a send could not know had reached the client, because
the message was past its last look or not yet recorded, or had bounced.

`WeeklyReportStall` adds the runs of the sweep, each of them `Select`,
`ClaimAlerts` or `ClaimAnswerLost`, `AlertTaken` or `AlertFails`, `Release` or
`Abandon`; `LoseLock` is the death of the connection that holds the advisory lock
while the run goes on. `FallQuiet` is the threshold passing; the clock is counted
in sweep runs, as only the order of stamps matters. `muted` is history: claims
whose run lost the database or its life before it could give them back.
`reporting` is `is_active` of the one project the weeks belong to, and
`StopReporting` clears it (`deactivateWeeklyReportProject`; no code sets it
again). The sweep's SELECT joins on it (`Alertable`), its claim does not look
again; drafts, corrections, sends and retries ask for it, removals and deliveries do
not (`StoppedNext`). `WeeklyReportSend` by itself is a project never stopped, which
allows every step a stopped one allows.

### RfpVote

`cycle` holds the `rfp_*` columns of the deal; `creates` and `invites` are jobs,
`projects` the requests SyncHub accepted, with their callbacks. Requests are
single transactions, as in the code. The create job is two steps, `Authorise`
under the deal's lock and `Post` outside of it. Its request has no timeout: a lease
may lapse (`Lapse`) while the run goes on, so that the job is handed out again, may
even die, and the first run still comes to its re-check (`stalled`,
`StrayAuthorise`) or its request (`loose`, `StrayPost`). A callback names the deal
and a time, neither the round nor the attempt; `requestedAt`, `attemptAt` and
`reviewedAt` tell an answer given before the attempt began from a later one
(`Fresh`), and no more than that. `blame` is the last signal of the attempt that
took effect: the attempt it is about and when it was given. The dead-letter sweep
of invitations is split in two, `InviteGlance` and `InviteFlip`: its one UPDATE
counts votes in its snapshot and re-checks only the deal's own columns after
waiting for the row. `began`, `blame`, `overruled` and `slips` are history.

### GlassesForward

`rows` are the forward jobs of one walk of one deal; a partial unique index lets
one of them be other than dead. The handler works from the payload it claimed
(`todo`, `known`, `marked`): `Mark`, `Create`, then `Retract` or `Checkpoint`,
`Upload`, `Fold`, `Settle`, or `Bury` at the start. Its writes match by walk, deal,
status and attempt and not by job, so `Hits` may name another row than its own.
Each write lands or not and is answered or not. A completion reads (`Look`) and
then does what its read calls for: `Amend` a pending row, `Record` clips beside a
running one, `Supersede` a completed one, `Refuse` with 503, or `Enqueue` a
replacement, which the live index may make it lose. `Alert` is the dead-letter
sweep and `Repair` the person who follows its instructions. `slips` is history
and names the windows the properties except; section 5 says what they are.

### PhotoUploadQueue

One JavaScript process and its directory. The index is rewritten file operation
by file operation (`.tmp`, `.bak`, rename) by the holder of the queue lock and
read without it at any time; a kill may come between any two operations. An
`EnqueueStep` is a photo's way from the draft into the queue, `DrainStep` and
`UploadStep` the drain and the uploads of its chunk, `Crew` the removals. The way in
starts with a call (`call`, one undecided call a photo): `Call` waits for the
directory, `Snapshot` reads the queued ids under the lock, `Claim` takes the lock
again and decides by that snapshot, so drain, dismissal, removal, another enqueue or a
kill may come between any two. The lock is first come first served: a claim that stood
in line before an enqueue persisted its row (`behind`) goes before the later steps of
that enqueue; other holders may still pass it any number of times, which is more
than the code allows. The server recognises a `clientUploadId` it has confirmed. Two
histories name what the properties except. `rolledBack`: a second kill, within the
recovery rewrite that follows the first, can tear the only copy of the newest index,
and the older one is read. `overtaken`: the crew took a photo out while a call
had its answer to come. `mishaps` counts kills, failed copies and 401 answers together.

## 3. Runs

| Run (`cfg`) | Instance | States | What it shows |
|---|---|---|---|
| `queue_fencing` | 1 job that may defer and be revived, 2 workers, 2 attempts, 2 faults | 503 000 | unless attempts slipped: statements about one claim cannot touch a later one, a lease holder owns its row, outcomes are kept verbatim until written; and attempts slip in four ways only |
| `queue_at_least_once` | 2 jobs, one of an unknown type; deferrals, revival, withdrawal, rollback; 1 fault, fairness | 42 000 | the queue implements `AtLeastOnce`, and every job is settled in the end |
| `queue_deferral` | a deferring job, 3 faults | violation | finding 1 |
| `inbox_row` | 1 snapshot, 2 workers, 3 attempts, 2 faults, fairness | 461 000 | lease respected, recorded import made once, honest failure, a decision in the end |
| `inbox_order` | 2 snapshots of one office, 2 workers, 2 attempts, 1 fault | 80 000 | order across snapshots, with retention |
| `inbox_monotonic` | the same, one crash | violation | finding 2 |
| `report_send` | 1 week, 2 versions, 2 jobs, 2 attempts, 1 fault | 512 000 | corrections admit what they correct, one live version, true stamps, one copy inside the key's window |
| `report_stall` | 1 version, 2 jobs, 1 attempt, 2 sweepers, 1 fault, fairness | 325 000 | one alert per stall, stamps backed by mails, no stall in silence |
| `rfp_vote` | 2 voters, 2 rounds, 2 creates, 2 invitations, 1 try, 1 fault, fairness | 1.0 M | decisions final, signals current, creates earned and single, approvals surface |
| `glasses_forward` | 2 clips, 3 completions, 2 rows, 1 attempt, 1 fault, 1 repair | 1.7 M | one create, no clip lost, none left unannounced |
| `glasses_unfolded` | 2 clips, 2 completions, no fault | violation | finding 3 |
| `photo_queue` | 1 photo, 2 attempts, 2 passes, 2 mishaps (kills among them), fairness | 618 000 | no photo lost, on a stale snapshot either, or resurrected; charged once a drain, settled in the end |

**Bounds.** `MaxAttempts` is 2 or 3 where the code has 3 to 12: it takes two
claims of a row to confuse them, and three to have a superseded, a current and
a last one. Two workers are an owner and whoever supersedes it; a third would
add another superseder. `MaxFaults` bounds what happens *to* the system (a
failed statement, a lapse of a live lease, a crash, a deferral, a server edit);
what the system does by itself is not bounded. Every hazard listed for these
modules needs at most two faults: one that makes the owner late and one that
makes a write late. A dedicated poller claims one row (as in the code), the main
one two (`RUN_CONCURRENCY` is 3): a batch of two shows that one tick holds
several rows. `jobqueue_fencing` uses a dedicated poller's job, because only
then does the flush, which belongs to the main poller, run beside deliveries of
the same rows.

For the other modules: two versions of a week are a report and its correction,
which is all a send looks back at. In `report_stall` one version and one attempt
leave room for two sweepers and a retry. `rfp_vote` needs two rounds for a signal
of the first to meet the second, two creates for a retry beside an older job; two
voters approve together, and a third, as the code invites, adds a denial by vote (one
against is not enough for two voters to decide): that and every other number is left
to the proofs. With `MaxTries` 1 a create job dies at its first failure; a second try
comes from a lapsed lease, and the backoff is left to the proofs as well. `glasses_forward` needs
three completions: the first queues a row, the second files a clip beside its
delivery, the third replaces the row after it died. An attempt beyond the first
comes from the expired lease and the repair. One photo is enough for
`photo_queue` because photos share only the index, and every other actor of the
index (crew, drain, kills) is there; two mishaps are needed for the recovery rewrite
to be caught as well. A second call for the photo may be under way beside its
enqueue; a third would wait as the second does.

**Deadlock** is not checked: when every job is settled and the faults are used
up nothing has to happen. What must happen is stated as liveness.

**Symmetry** of the workers is used in the runs without liveness only.

**Fairness.** `setInterval` keeps every poller ticking and the recovery
running, so starting a tick, flushing, an empty claim and each statement of the
recovery are weakly fair. A row that stays pending is due after a finite
`run_after`; a poller's claims are ordered by age, so one that comes to its
claim again and again takes it (strong fairness of `Claim`). Every statement
ends within `QUEUE_QUERY_TIMEOUT_MS`, one way or the other. A lease nobody
renews lapses; the sweep rides every main tick, and the database resolves a
transaction in doubt. Handlers are assumed to settle. The queue puts no timeout
on them: a handler that never settles stops its poller, and the model says
nothing of that case. No fault is ever required to happen or not to happen;
their number is finite.

Of the stall sweep: time passes, the cron fires, every statement and mail of a run
ends one way or the other, and somebody configures recipients in the end; nothing
is asked of the deliveries, and nobody has to stop the project. Of the photo queue: work that was started goes on, an
enqueue a kill interrupted is retried at the next start, a drain is scheduled
while photos wait; the network owes nothing. Of the vote: the worker polls and
sweeps creates, SyncHub finishes what it accepts and repeats a callback until it is
acknowledged; voters, reviewers, the sweep of invitations and the runs that lost
their lease owe nothing. `glasses_forward` has no fairness:
`ClipIsHeardOf` speaks of the states where nothing is under way or due, where
every fair run of the bounded instance ends.

## 4. Properties

- `Fenced`, `LeaseHolderOwnsRow`: the two promises of a claim. The first is
  about statements (whatever is still to be executed), the second about
  handlers (whatever still runs). They and the next two hold of every job, deferring,
  revived or in doubt, until its attempts slip.
- `SlipsAreExplained`: the only ways they can: a revival, a claim that rolls back, a
  deferral that lands after it was given up on or kept for replay, or one written at
  once while a renewal of its claim is still under way. A deferral written at once
  leaves nothing else of its claim behind.
- `OutcomeRemembered`, `OutcomeVerbatim`: an outcome that could not be written is
  replayed as it was decided, and no flush, replay or newer attempt in the same
  process drops it.
- `ImplementsAtLeastOnce`: the queue is the abstract one. It includes that
  completed and dead rows are the result of work done and final, which
  `VerdictEarned` and `TerminalStays` state by themselves and the proofs use.
- `EventuallySettled`: progress; a stranded claim would be a job never settled.
- `LeaseIsRespected`: a handler that renews in time is never robbed of its
  attempt or failed.
- `FailedIsHonest`, `SucceededIsReal`: what a row says of its import. `failed`
  may be untrue of a committed import only after a crash or outage between the
  two, the residual case the code documents.
- `RecordedOnce`, `WatermarkHolds`: no second import once recorded; no older import
  over a recorded newer one; unless an abandoned record landed while the import was
  under way (`overtaken`).
- `EventuallyDecided`: progress of the inbox.
- `CorrectionAdmitted`: when two versions of a week reach the client the later one
  says it is a correction, unless the older one is `excused`.
- `SuccessorOnFile`, `OneLiveVersion`: sends, corrections and deletions leave a week
  with at most one live report, and never without the one that superseded it.
- `DeliveryIsReal`, `OneCopyInsideWindow`: the stamp and the client's inbox agree;
  one copy as long as the provider recognises the key.
- `ClaimIsBacked`, `OneAlertPerStall`, `NoSilentStall`: a stamp stands for a mail,
  two mails for a retry in between, and no send stalls unannounced unless its claim
  is `muted` or its project has been stopped: a send that was not delivered by then is
  neither announced nor retried any more, which the sweep's comment (lines 667-670)
  gives a reason for.
- `DenialStands`: a denial the reviewers upheld is the end, whatever callback, job or
  approval comes later. That no vote is added to a decided round (`VerdictIsFinal`) is
  proved only.
- `SignalIsCurrent`: a sweep fails a deal for a dead job of its latest attempt only; a
  callback fails or links it if it is about that attempt or was given since it began.
  An answer SyncHub gives now to an earlier request is let through, for nothing in it
  tells (section 5, `otherRound`).
- `CreatesAreEarned`, `OneLiveCreate`: a project is asked for in an approved or
  overruled round, in the name of one job at a time, counting the runs without lease.
- `ApprovalSurfaces`: an approved deal does not show "creating" for ever.
- `OneCreate`: one create of a walk reaches TROCK Scope. It now recognises a
  repeated one; the markers were written not to need that, and do not.
- `NoClipLost`, `ClipIsHeardOf`: a clip the phone may delete is with TROCK Scope, on
  a row that is still to be worked, or on a dead one that is announced.
- `CaptureKept`, `RemovedStaysOut`: a photo is in the draft, the queue or the gallery
  at every moment a kill may come, although callers drop their copy on the word of a
  snapshot that may be stale when it counts; a removed one is never resurrected.
- `NoConfirmAfterWait`: when the removal that waits has returned, nothing of this
  life of the app confirms the photo.
- `OneChargePerDrain`, `EveryPhotoSettles`: a drain charges a photo one
  attempt, and each photo ends up confirmed, removed or given up.

## 5. Findings

1. **A deferral reuses its attempts value** (`queue.ts:266`). The comments there
   say a guarded write cannot land on a later claim because a claim bumps
   `attempts`. A deferral writes `attempts - 1`, so the next claim has the value
   of the deferred one, and a deferral that was timed out and executes late, or
   is replayed after it landed, puts a job that is running back to pending.
   The trace of `queue_deferral`: defer, write times out and lands, claim,
   replay, second claim while the first handler runs. A renewal of the deferred claim
   that is still under way has that value too, even if the deferral was written at
   once, and refreshes the next claim's lease.
2. **The monotonic guard reads records, not commits** (`inbox.ts:775-781`,
   migration 0188). A worker that dies between the import's COMMIT and its
   record leaves the newer row `processing`; an older snapshot passes the guard
   and overwrites the newer mirror until the newer row is retried.
3. **A clip can be acknowledged and forwarded by nobody**
   (`glasses-walkthrough-forward.ts:1366`). The mark that closes a running row to
   late clips is written by the statement that folds them in, and that statement
   matches only a row that has some. When there is none to fold, the common case,
   the row stays open until the queue writes `completed`; a completion in between
   is answered `reconciliation_pending`, a success, and its clips stay on the
   completed row. The service's comment says there is no such window
   (`glasses-walkthrough-service.ts:1475-1477`). The trace of `glasses_unfolded`
   needs no fault. Dropping the condition, so that the statement always closes the
   row, would end it.

There are two more ways to reuse an attempts value. One is the server's revival of a
dead job with `attempts = 0`. The other is a claim whose COMMIT failed and rolled back:
the worker requeues what it had marked by a write guarded by the value the claim would
have left, which `queue.ts:594-596` calls harmless, as it matches no pending row. But the
row may be claimed first, by another worker, or by a dedicated poller if the write fails
and is replayed ticks later, and that claim leaves the same value. The properties of a
claim leave a job out once one of these has happened to it while a statement with a
value given back, an outcome or a renewal, was still about (`slipped`); `TerminalStays`, `VerdictEarned` and
`ImplementsAtLeastOnce` hold of it still.

### Exceptions the properties name

These are windows the code leaves open. The models reach them and the properties
except them by name, so that everything else is still checked.

- Queue, `slipped`: a deferral (finding 1) written late or beside a renewal under way,
  a revival, a claim that rolled back.
- Inbox, `overtaken`: a record that was abandoned may land after its office lock was
  released, while another delivery of the row, or an older snapshot of the office, is
  past its check. That import then commits, a second time or below the watermark. It
  takes six failed tries of the record, one of them late, and a second delivery.
- RFP, `overtaken`: the invitation dead-letter sweep counts votes in its snapshot
  and can mark a round `send_failed` that the deciding vote approved meanwhile. A
  retry re-invites, and the deal is pending with an approved round and no create
  job, although the comment in `rfp-vote-invitation.ts:291-297` rules it out.
- RFP, `jobLive`: SyncHub reports a failure while the job it answers waits for its
  next try, or a run of it without lease is under way; a retry then queues a second
  job, and both pass the re-check.
- RFP, `adrift`: a sweep fails the deal for a job that died while an earlier run of it,
  which lost its lease, is still before its request: the request has no timeout
  (`rfp-bidboard-create.ts:143`) and a lapsed row is handed out again whatever runs
  (`queue.ts:788-796`). A retry queues a second job, and both ask.
- RFP, `otherRound`: a callback is matched by deal and time only, so the answer to a
  request of an earlier round that SyncHub gives once the current one has begun is
  taken for the current one's. So is one to an earlier attempt of the same round, which
  harms less (the project is of that round) and needs no exception.
- RFP, outside the properties: a late `created` of an earlier attempt can relink a
  deal that is approved, once `attemptAt` is cleared; comments say the retry route recovers a
  declined deal with a failed override, while the route asks for `send_failed`
  (`routes.ts:1692`); an accepted create whose callback never comes, with no dead
  job, is not surfaced (SyncHub is assumed to finish what it accepts).
- Weekly reports: `excused`, `muted`, and reports past the key's 24 hours (`aged`).
- Glasses, `missed`: finding 3.
- Glasses, `crossed`: the handler's writes name the walk, the deal and the attempt.
  A replacement starts again at attempt 1, so a superseded handler of the dead row
  can mark or fold the replacement's claim.
- Glasses, `outOfDate`: a replacement is built from dead rows read earlier in its
  transaction; a marker, an id or clips they gained since are not inherited.
- Glasses, `hushed`: an alert goes out once per row, so a row that was repaired and
  dies again is silent. The code says so in the alert it sends.
- Photos, `rolledBack`: two kills in consecutive rewrites of the index.
- Photos, `overtaken`: the skip of a claim goes by the snapshot of the section before
  (`upload-queue.ts:357-359`, tested at 386). A dismissal of failed uploads between
  the two deletes row and file, and the caller still drops its copy, "since the queue
  already owns the photo" (`upload-queue.ts:368-369`): a person who retries a photo
  and dismisses the failed ones at that moment has neither. And a removal that comes
  before the claim of a call under way leaves no tombstone (`upload-queue.ts:297` looks
  at `enqueueing` only), so the photo is queued all the same. A dismissal leaves none
  at all.

## 6. Proofs

### The queue

`JobQueueProofs` assumes only `ConstantsAssumption`: any jobs, workers, pollers and
faults, with deferrals, revivals and rolled-back claims.

| Theorem | Says |
|---|---|
| `TypeCorrect` | `Spec => []TypeOK` |
| `SettledRowsStay` | `Spec => TerminalStays` |
| `SettledWorkWasDone` | `Spec => []VerdictEarned` |
| `ClaimsAreFenced` | `Spec => []Fenced` |
| `LeasesExclude` | `Spec => []LeaseHolderOwnsRow` |
| `OutcomesAreVerbatim` | `Spec => OutcomeVerbatim` |
| `OutcomesAreRemembered` | `Spec => []OutcomeRemembered` |
| `OneHandlerPerLease` | `Spec => []`: no two handlers of a job run under leases that never lapsed |
| `SlipsHaveACause` | `Spec => SlipsAreExplained` |
| `SteadyJobsNeverSlip` | if no claim rolls back, `slipped \subseteq Deferring \cup Revivable` |

None of the properties is inductive. Their strengthenings:

- `DoubtInv`: a claim in doubt holds pending rows, and no two share one. It is
  needed everywhere, as `DoubtCommits` changes rows long after the claim.
- `EarnedInv`: every outcome statement still to be executed, wherever it waits
  (an attempt, limbo, an intent, a flush), was decided by a recorded verdict of
  that very claim. `VerdictEarned` follows, since only such statements settle a
  registered row.
- `FenceInv`, of two parts. `TokenInv`: no statement about a job that has not slipped
  carries an `attempts` above that of its last claim (`Top`, which counts a claim in
  doubt), and as long as that claim holds the row (`Held`) those that carry it are about
  that claim. `HolderInv`: a row in processing is held by its last claim. Together with
  `Matches` they give `Fenced`: a match means the row is held and the value is the
  highest, hence of the last claim, hence of the holder. `Top` may go down: whatever
  lowers it lets go of the row (`TopFalls`), and if no statement is left above it the
  bound goes down with it (`GivenBack`); otherwise the job slipped. `Held` is what makes
  this inductive: after a deferral the statements of the claim before may carry the new
  `Top`, and they stop doing so only when the next claim raises it.
- `OutcomeVerbatim` needs no more: a row leaves `processing` by the sweep or by a
  statement that matches (`LeavesBy`), which `Fenced` says is of its own claim and
  `EarnedInv` says was decided so.
- `LastInv` and `AloneInv`, for `OutcomeRemembered`. What threatens an intent is the
  deletion or eviction of another attempt's. `LastInv` is the converse of `TokenInv`:
  while a claim holds its row, whatever is of it carries the highest `attempts`. So an
  intent of the claim that holds the row is deleted only by a statement that matched,
  which ends the claim, and evicted only by another of that claim; and no later attempt's
  can keep it from being stored. `AloneInv` excludes a verdict on a claim still in doubt,
  which would come into force unremembered when the transaction commits.
- `RunInv` and `LeaseInv`: a claim has one delivery, which ends before a statement about
  it is kept (`Kept`: limbo, intents, the flush), so no statement can match and release
  the row of a handler that runs; and its row is its own and unlapsed while its lease is.
- `SlipsAreExplained` puts these together. Suppose a deferral written at once made the job
  slip. A statement with a value above the new `Top` remains; it can only have the value
  of the deferral itself, and `TokenInv` makes it one of the same claim. But the delivery
  that wrote the deferral was the only one of its claim, and `RunInv` says that no outcome
  of that claim was kept: what remains is a renewal (`WrittenAtOnce`).
- `SteadyJobsNeverSlip` turns this into a guarantee: a deferral comes from a verdict of
  a job that may defer (`EarnedInv`, `DeferralsInv`). So for a job type that neither
  returns `deferJob` nor is requeued from dead, which is most of them, `Fenced`,
  `LeaseHolderOwnsRow`, `OutcomeVerbatim` and `OutcomeRemembered` hold without
  exception, unless a claim whose COMMIT failed rolls back.

The steps are proved per kind of step (`NextSplit`: a guarded statement executes,
an outcome is decided, a claim, a resolved doubt, a change of a worker's memory,
a server or lease edit) because most invariants are disturbed by two or three of
the six. `OutcomesMember` and `OutcomesShrink` say once where statements wait and
which steps can add one.

`JobQueueRefinement` proves `QueueImplementsAtLeastOnce`, `Spec =>
ImplementsAtLeastOnce`, from the same invariants: under `IInv` each kind of step of
`NextSplit` changes `States` and `Earned` as one abstract action, or not at all. The
work is in guarded statements: one that settles a row matches a row in processing,
which is `taken`, and `EarnedInv` says its outcome is among the earned ones.

### The inbox

`BidBoardInboxProofs` assumes only `InboxAssumption`: any number of snapshots,
offices and workers, any faults.

| Theorem | Says |
|---|---|
| `InboxTypeCorrect` | `Spec => []TypeOK` |
| `KeptLeaseIsRespected` | `Spec => []LeaseIsRespected` |
| `RecordedIsNotRepeated` | `Spec => RecordedOnce` |
| `WatermarkIsHeld` | `Spec => WatermarkHolds` |
| `SuccessIsReal` | `Spec => []SucceededIsReal` |
| `FailureIsHonest` | `Spec => []FailedIsHonest` |

- The lease. `OwnInv`: an owner's attempt is one the row has had, and no other
  owner has it, since a claim takes the next. `LeaseInv` adds the lease bit to the
  property: a fresh lease keeps the row from other claims and from the recovery, and
  a superseded handler's `markInboxFailed` is about another attempt; so is one that
  was abandoned, whose sender owns nothing any more (`LateInv`). All need
  `PresentInv`, that retention deletes no row somebody still handles.
- Order and non-repetition. `LockInv`: the office lock belongs to the one handler
  that checks, imports or records. `WaterInv`: the newest recorded success of an
  office is still in the table, which is why retention must spare it (`Kept`).
  `ImportInv`: between its check and its commit an importer's row is not
  succeeded and not older than the watermark, unless it is `overtaken`. A handler at
  its record could change that only with the same lock (`NewSuccess`).
- What a row says. `RecordInv`: who is about to record a success has committed, or
  saw a newer one, and so has the sender of an abandoned record (`LateRealInv`).
  `TakenInv` and `KnownInv`: a commit that was not lost from sight
  is recorded, or its importer is about to record it and finds a row it can move.

The steps are proved from what a step does to one part of the state:
`HandlerSplit` (handlers and locks), `RowSplit` (a row), `SuccessSplit`
(successes and watermark), `CommitSplit` (commits).

### The vote

`RfpVoteProofs` assumes only `RfpAssumption`: any number of voters, rounds, jobs,
tries and faults.

| Theorem | Says |
|---|---|
| `TypeCorrect` | `Spec => []TypeOK` |
| `VerdictsAreFinal` | `Spec => VerdictIsFinal` |
| `DenialsStand` | `Spec => DenialStands` |
| `SignalsAreCurrent` | `Spec => SignalIsCurrent` |
| `OnlyEarnedCreates` | `Spec => []CreatesAreEarned` |
| `OneCreateIsLive` | `Spec => []OneLiveCreate` |

- `TypeInv` adds `RoundInv` to `TypeOK`: a deal with a status is in a round that was
  opened, and a live job has tries left, but for those that lapsed.
- `DenialInv`: a linked deal is approved, and an upheld denial leaves it declined
  with no override under way, so that no guard admits a signal.
- `StampInv`: no job or callback is stamped later than the clock, and the attempt
  that runs began at one of the deal's three stamps, now. Hence what passes `Fresh`
  was stamped since it began (`FreshIsCurrent`): a dead job, which is stamped when it
  is queued, is of this attempt, and an answer was given since.
- `RoundFacts` ties rounds to stamps and outcomes: a job stamped now is of the deal's
  round, and only rejected rounds are overruled or declined. `EarnInv` then says that
  every round something was asked in, or is about to be (`Claimed`), is earned.
- `LiveInv`: at most one job that can still ask, by itself or by a run without lease,
  is of the deal's round, none once the attempt failed, and it is of this attempt. It
  and `EarnInv` hold while `slips` names no callback of another round, and `LiveInv`
  no failure surfaced for a job that can still ask.

### Weekly reports

`WeeklyReportSendProofs` assumes only `SendAssumption`: any weeks, any number of
versions, jobs, attempts and faults. `WeeklyReportStallProofs` adds
`StallAssumption` and is about `StallSpec`, with any number of sweepers.

| Theorem | Says |
|---|---|
| `SendTypeCorrect` | `Spec => []TypeOK` |
| `SuccessorsStayOnFile` | `Spec => []SuccessorOnFile` |
| `WeekKeepsOneLiveReport` | `Spec => []OneLiveVersion` |
| `DeliveryStampsAreReal` | `Spec => []DeliveryIsReal` |
| `OneCopyReachesTheClient` | `Spec => []OneCopyInsideWindow` |
| `CorrectionsAreAdmitted` | `Spec => []CorrectionAdmitted` |
| `StallTypeCorrect` | `StallSpec => []StallTypeInv` |
| `AnnouncedRowsAreBacked` | `StallSpec => []ClaimIsBacked` |
| `EachStallIsToldOnce` | `StallSpec => []OneAlertPerStall` |
| `SweepKeepsOneLiveReport` | `StallSpec => [](SuccessorOnFile /\ OneLiveVersion)` |
| `SweepKeepsDeliveries` | `StallSpec => [](DeliveryIsReal /\ OneCopyInsideWindow /\ CorrectionAdmitted)` |

- `TypeInv` counts attempts: a job that waits has one left, with those faults gave
  back.
- `VersionInv` adds `ApprovedIsLatest` to the two properties, which then support each
  other: a send supersedes the one live version there is, and a delete, which spares a
  version that superseded another on file, leaves no predecessor without a successor.
- `MailInv`: a job carries the key its report was sent under (`KeyInv`), and what was
  taken is remembered or old (`TakenInv`). A second copy would need a job with
  another key, or a key forgotten inside the window.
- `AdmissionInv`: of each version before a sent one either the client was told, or the
  send could not know (`excused`), or it is `Sealed`: no copy is out, no run of it is
  past its last look, and the last look would stop all others. That a sealed version
  stays sealed is the heart: it needs `VersionInv`, so that no request reopens it.
- `BackedInv`: a key the provider knows is of an alert that went out, which a run that
  meets an old key relies on.
- `AlertInv`: `Claims` are the confirmed alerts and what runs hold now. Each stands on
  its row until a retry is queued (`ClaimStands`), so that two of one report have a
  retry between them (`ClaimsApart`); no two runs share a stamp and none has that of a
  confirmed alert (`RunStamps`, `ConfirmedApart`), or its release would undo a claim
  that is not its own. The lock is not used, as it may be lost.

### Glasses walkthroughs

`GlassesForwardProofs` assumes only `ForwardAssumption`: any clips, rows,
completions, attempts, faults and repairs.

| Theorem | Says |
|---|---|
| `ForwardTypeCorrect` | `Spec => []TypeOK` |
| `OneCreatePerWalk` | `Spec => []OneCreate` |
| `NoFiledClipIsLost` | `Spec => []NoClipLost` |
| `UndeliveredClipsAreAnnounced` | `Spec => []ClipIsHeardOf` |

- `TypeInv` adds `Chain` (all rows but the last are dead and name their successor) and
  `OneHandler` (a claim has one handler), so that the rest can be said of the last
  row and of the handler of its claim, if any (`Current`).
- `CreateInv`: whatever may have created the walkthrough left the marker or the id on
  the last row, a create under way is the only one, and a current handler knows what
  its row knows. A superseded handler may act on what it claimed only until its next
  write, which then misses; the invariant is lost where it hits (`crossed`) or where a
  replacement inherits too little (`outOfDate`), and it is proved up to there.
- `ClipInv`: every acknowledged clip is delivered or on the last row, in its list or
  filed beside its delivery, and what a current handler goes by is its row's list. It
  holds up to `crossed`, `outOfDate` or `missed`. `ClipIsHeardOf` is a consequence, read
  off the states at rest, whose last row is completed or dead and swept.

### The photo queue

`PhotoUploadQueueProofs` assumes only `QueueAssumption`: any number of photos, any
limits, any number of mishaps.

| Theorem | Says |
|---|---|
| `QueueTypeCorrect` | `Spec => []TypeOK` |
| `DrainChargesOnce` | `Spec => []OneChargePerDrain` |
| `RemovedPhotosStayOut` | `Spec => []RemovedStaysOut` |
| `NoLateConfirm` | `Spec => NoConfirmAfterWait` |
| `CapturesAreKept` | `Spec => []CaptureKept` |

- What the invariants are about is not the index but `Views`: what a relaunch would
  read now, and what it will once the rewrite under way is through. The two differ
  while a `.tmp` is first written (`Standing`). `DiskInv` says what the three files
  hold at each operation of a rewrite.
- `ChargeableInv` is the type invariant's hard part: a row may be charged because its
  photo had an attempt left when it was selected and nobody else charged it since.
- `ChargeInv`: what is being uploaded is among the attempted of its drain and not
  charged yet.
- `WorkerInv` has what the first come first served lock is for: a claim `behind` an
  enqueue finds that enqueue still in flight, and so awaits it.
- `OutInv`. `RowlessInv`: an enqueue that has not persisted has no row in any view, nor
  has a photo whose call saw none and could still own it. `RemovedInv`: an enqueue that
  could still persist a removed photo finds its tombstone, and no call could own it.
  `TruncateInv`: only the first rewrite of a life truncates a `.tmp` left by a kill, the
  one case where the older index shows through, and then nothing this life uploads was
  removed before. `LeftInv`: nothing whose removal returned is being confirmed. For one
  photo a weaker `TruncateInv` is inductive; for several it must also speak of those
  whose removal is written but still awaits uploads (`Past`), since another photo's
  removal may be the rewrite under way. The proof found that; TLC, on two photos, found
  no counterexample to the stronger one in the first 6.4 million states.
- `KeptInv`, up to `rolledBack`: in every view each row names a whole file (`WholeInv`),
  each photo is held by somebody (`HeldInv`; a copy whose call has seen the row, and is
  bound to give it up, does not count: `Copies`), the compressed file is switched to before
  the original goes (`FileInv`), and no file about to be deleted is named by a row to
  come or needed by an enqueue (`DoomedInv`).

One attempt failed for a good reason. `ReadQueue` was a `CASE` with guards that
overlap; TLC takes the first true one, but in TLA+ any true one may be meant, so the
model said less than the code, which reads `.tmp`, then the index, then the backup. It
is now a chain of `IF`s.

### Only model-checked

- Liveness: `EventuallySettled`, `EveryPhotoSettles`, `EventuallyDecided`,
  `NoSilentStall`, `ApprovalSurfaces`. Liveness under fairness, and `ENABLED`, are out of
  the prover's reach here.
- The three runs that expect a violation, which are about what does not hold.

## 7. Plan

Done: `JobQueue` with its abstract specification, `BidBoardInbox`,
`WeeklyReportSend` with `WeeklyReportStall`, `RfpVote`, `GlassesForward`,
`PhotoUploadQueue`, and the proofs of section 6. `JobQueue` came first because
everything else rests on it. Next, in this order:

1. The reduction of section 2 as a theorem: that the queue below `BidBoardInbox`
   (`job`, with the outcomes its handlers arrive at) implements `AtLeastOnce`, and the
   same for the delivery jobs of `WeeklyReportSend`.
2. Models: corrective-action cycles and their notices; AI report runs over
   `AtLeastOnce`; the walkthrough upload queue, which shares the photo queue's index
   and drain; RFPs that carry a SyncHub request (service deals).

## 8. Not modelled

- Handlers of job types without a module of their own: opaque in `JobQueue`.
- Weekly reports: permissions, the text of a message, the ladder from draft to
  approved, client links, the sweep's seven day cutoff. The sweep's model leaves out
  the provider's verdicts and its forgetting of keys, which no sweep reads.
- RFP: service deals and the path with a SyncHub request id, permissions, texts,
  stages, change orders.
- Glasses: filing the artifacts as photos, the deal page's copy of the id, job
  types, the parts of an upload, and a write of the handler that was timed out and
  lands later still (each write lands at once or never, whatever its answer). The
  person who repairs a row is assumed to look when a create that was under way has
  ended, and to leave rows that name their successor alone.
- Photos: the GPS patch, several owners and offices, the keep-awake,
  `clearUploadQueue` (no caller), the store of the review draft, captures that live
  in the camera cache only; the order of a drain's plan (any chunk).
- The connection pool (any statement may fail instead), `run_after` and batch
  order (any order), the wording of errors, logging.
- The importer's matching of rows (one commit, or none; a COMMIT whose answer is lost
  takes effect when the import throws or its worker dies, or never); the loss of only the
  session that holds the office lock, which the importer's own row locks and
  transaction would be needed for; more than one office (offices share nothing
  but the queue).
- The leases of finished rows, which nobody reads.
- The components marked `not_modelled` in `PROJECT.json`, each with its reason.
