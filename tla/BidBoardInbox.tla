--------------------------- MODULE BidBoardInbox ---------------------------
(***************************************************************************)
(* The durable Bid Board ingestion inbox                                   *)
(* (server/src/modules/bid-board-sync/inbox.ts) as the worker's dedicated  *)
(* poller drives it (worker/src/jobs/bid-board-ingest.ts): a POSTed        *)
(* snapshot becomes an inbox row and one job; a handler claims the row     *)
(* under a lease, waits for its office's advisory lock, imports the        *)
(* snapshot and records the outcome; a periodic recovery repairs what      *)
(* crashes and stalls leave behind.                                        *)
(*                                                                         *)
(* The queue is the one of JobQueue with its writes taken as atomic: an    *)
(* inbox row has at most one live job (a partial unique index).  The       *)
(* inbox's own statements go through timedPoolQuery, which abandons a      *)
(* statement when its time is up and does not cancel it: one that is       *)
(* abandoned, or whose sender dies, may land at any later time.  Leases    *)
(* are one bit, "leased"; ages (the 10 and 15 minute floors, the retention *)
(* window) are "at any later moment".                                      *)
(***************************************************************************)
EXTENDS Naturals, FiniteSets

CONSTANTS
  Snapshots,    \* payloads SyncHub posts: the keys (office_slug, payload_hash)
  Offices,
  OfficeOf,     \* the office of a snapshot
  ExtractedAt,  \* when a snapshot was scraped; 0 if it does not say
  Workers,      \* worker processes, one dedicated poller each
  MaxAttempts,  \* max_attempts, of the inbox row and of its job
  FaultKinds,   \* which faults may happen
  MaxFaults,    \* bound on their number
  NoOne         \* nobody holds the office lock

ASSUME InboxAssumption ==
  /\ OfficeOf \in [Snapshots -> Offices]
  /\ ExtractedAt \in [Snapshots -> Nat]
  /\ MaxAttempts \in Nat \ {0}
  /\ FaultKinds \subseteq {"crash", "stall", "outage"}
  /\ MaxFaults \in Nat
  /\ NoOne \notin Workers

VARIABLES
  inbox,      \* bid_board_ingestion_inbox
  job,        \* the live job of an inbox row, in public.job_queue
  handler,    \* what each worker's dedicated poller is running
  lock,       \* who holds the office's session advisory lock
  late,       \* statements of handlers that were abandoned and may still land
  mirror,     \* the tenant's Bid Board mirror: the last import's extracted_at
  watermark,  \* history: the newest snapshot recorded as succeeded
  commits,    \* history: how often the import of a row has committed
  forgotten,  \* history: rows whose commit the importing handler never saw
              \* through to its record (a crash or an outage came between)
  overtaken,  \* history: workers that held the office lock, past their check,
              \* when an abandoned record of their office landed
  faults      \* how much of MaxFaults is used

history == <<mirror, watermark, commits, forgotten, overtaken>>

vars == <<inbox, job, handler, lock, late, mirror, watermark, commits,
          forgotten, overtaken, faults>>

-----------------------------------------------------------------------------
(* Data *)

InboxStatus == {"absent", "queued", "processing", "succeeded", "failed"}
Finished == {"succeeded", "failed"}

InboxRow == [status : InboxStatus, attempts : Nat, leased : BOOLEAN]

Job == [status : {"none", "pending", "processing"}, id : Nat, attempts : Nat,
        lapsed : BOOLEAN]

Phase == {"claim", "look", "lock", "check", "import", "record", "fail",
          "settle"}

\* The leases a delivery renews: its job's (queue.ts) and its row's (inbox.ts).
Lease == {"job", "inbox"}

\* A delivery: the job and attempt it was claimed at (id, jobAttempt), the
\* inbox attempt it claimed (attempt), and what it will tell the queue (res);
\* stalled: which of its two leases it has begun to renew late or in vain.
Running == [phase : Phase, row : Snapshots, id : Nat, jobAttempt : Nat \ {0},
            attempt : Nat, res : {"completed", "deferred", "threw"},
            stalled : SUBSET Lease]

Idle == [phase |-> "idle"]

\* An abandoned statement: the row it is for, and the attempt of its sender.
Statement ==
  [kind : {"claim", "renew", "succeed", "reconcile", "fail"},
   row : Snapshots, attempt : Nat]

At(w, ph) == handler[w].phase = ph

\* The phases in which a handler owns its inbox row and renews its lease.
Owning(w) == handler[w].phase \in {"lock", "check", "import", "record", "fail"}

\* Some handler renews the inbox lease of row i in time.
Renewed(i) ==
  \E w \in Workers :
    Owning(w) /\ handler[w].row = i /\ "inbox" \notin handler[w].stalled

\* The delivery that holds the live job of row i renews the job's lease in
\* time, or is writing the outcome, which takes at most 30 s.
Attended(i) ==
  \E w \in Workers :
    /\ ~ At(w, "idle")
    /\ handler[w].row = i
    /\ "job" \notin handler[w].stalled
    /\ handler[w].id = job[i].id
    /\ handler[w].jobAttempt = job[i].attempts

Fault(kind) ==
  /\ kind \in FaultKinds
  /\ faults < MaxFaults
  /\ faults' = faults + 1

NoRow == [status |-> "absent", attempts |-> 0, leased |-> FALSE]

NeverQueued ==
  [status |-> "none", id |-> 0, attempts |-> 0, lapsed |-> FALSE]

Init ==
  /\ inbox = [i \in Snapshots |-> NoRow]
  /\ job = [i \in Snapshots |-> NeverQueued]
  /\ handler = [w \in Workers |-> Idle]
  /\ lock = [o \in Offices |-> NoOne]
  /\ late = {}
  /\ mirror = [o \in Offices |-> 0]
  /\ watermark = [o \in Offices |-> 0]
  /\ commits = [i \in Snapshots |-> 0]
  /\ forgotten = {}
  /\ overtaken = {}
  /\ faults = 0

-----------------------------------------------------------------------------
(* Accepting a snapshot, and the queue *)

\* A job that is completed or dead.
NoJob(i) ==
  [status |-> "none", id |-> job[i].id, attempts |-> 0, lapsed |-> FALSE]

NewJob(i) ==
  [status |-> "pending", id |-> job[i].id + 1, attempts |-> 0, lapsed |-> FALSE]

\* acceptBidBoardIngestion: one statement inserts the row and its job, or
\* finds the row there already and changes nothing.
Accept(i) ==
  /\ inbox[i].status = "absent"
  /\ inbox' = [inbox EXCEPT ![i] =
                 [status |-> "queued", attempts |-> 0, leased |-> FALSE]]
  /\ job' = [job EXCEPT ![i] = NewJob(i)]
  /\ UNCHANGED <<handler, lock, late, history, faults>>

\* The claim's UPDATE of the job.
Taken(i) ==
  [job[i] EXCEPT !.status = "processing", !.attempts = @ + 1, !.lapsed = FALSE]

\* pollBidBoardIngestJobs: an idle poller claims one job.
ClaimJob(w, i) ==
  /\ At(w, "idle")
  /\ job[i].status = "pending"
  /\ job' = [job EXCEPT ![i] = Taken(i)]
  /\ handler' = [handler EXCEPT ![w] =
       [phase |-> "claim", row |-> i, id |-> job[i].id,
        jobAttempt |-> job[i].attempts + 1, attempt |-> 0,
        res |-> "completed", stalled |-> {}]]
  /\ UNCHANGED <<inbox, lock, late, history, faults>>

\* The job's outcome write, guarded by the attempt the delivery claimed.
Settled(h) ==
  LET j == job[h.row]
      again == [j EXCEPT !.status = "pending", !.lapsed = FALSE] IN
    CASE h.res = "completed" -> NoJob(h.row)
      [] h.res = "deferred"  -> [again EXCEPT !.attempts = @ - 1]
      [] h.res = "threw"     -> IF h.jobAttempt >= MaxAttempts
                                THEN NoJob(h.row) ELSE again

\* Mistake: the outcome write is bound to the job, not to the attempt.
HoldsById(h) == job[h.row].id = h.id

\* The guard of the outcome write.
Holds(h) ==
  /\ job[h.row].status = "processing"
  /\ job[h.row].id = h.id
  /\ job[h.row].attempts = h.jobAttempt

SettleJob(w) ==
  LET h == handler[w] IN
    /\ At(w, "settle")
    /\ handler' = [handler EXCEPT ![w] = Idle]
    /\ job' = IF Holds(h) THEN [job EXCEPT ![h.row] = Settled(h)] ELSE job
    /\ UNCHANGED <<inbox, lock, late, history, faults>>

\* The job's lease lapses: nobody renews it in time.
JobLapses(i) ==
  /\ job[i].status = "processing"
  /\ ~ job[i].lapsed
  /\ ~ Attended(i)
  /\ job' = [job EXCEPT ![i].lapsed = TRUE]
  /\ UNCHANGED <<inbox, handler, lock, late, history, faults>>

\* recoverStaleJobs.
SweepJobs ==
  /\ \E i \in Snapshots : job[i].status = "processing" /\ job[i].lapsed
  /\ job' = [i \in Snapshots |->
               IF job[i].status = "processing" /\ job[i].lapsed
               THEN [job[i] EXCEPT !.status = "pending", !.lapsed = FALSE]
               ELSE job[i]]
  /\ UNCHANGED <<inbox, handler, lock, late, history, faults>>

-----------------------------------------------------------------------------
(* processBidBoardInboxJob *)

Goto(w, ph) == handler' = [handler EXCEPT ![w].phase = ph]

Finish(w, r) ==
  handler' = [handler EXCEPT ![w].phase = "settle", ![w].res = r]

\* withOfficeLock's finally.
ReleaseLock(w) == lock' = [lock EXCEPT ![OfficeOf[handler[w].row]] = NoOne]

\* A row markInboxProcessing may claim: queued, or its handler's lease is over.
Claimable(i) ==
  /\ inbox[i].attempts < MaxAttempts
  /\ \/ inbox[i].status = "queued"
     \/ inbox[i].status = "processing" /\ ~ inbox[i].leased

Claimed(i) ==
  [status |-> "processing", attempts |-> inbox[i].attempts + 1, leased |-> TRUE]

ClaimRow(w) ==
  LET i == handler[w].row IN
    /\ At(w, "claim")
    /\ IF Claimable(i)
       THEN /\ inbox' = [inbox EXCEPT ![i] = Claimed(i)]
            /\ handler' = [handler EXCEPT
                             ![w].phase = "lock",
                             ![w].attempt = inbox[i].attempts + 1]
       ELSE /\ Goto(w, "look")
            /\ UNCHANGED inbox
    /\ UNCHANGED <<job, lock, late, history, faults>>

\* The statements of a handler that may be on their way: the write of its
\* phase and, while it owns its row, a renewal.  (Those a later try of the same
\* write has followed find nothing left to do.)
InFlight(w) ==
  LET i == handler[w].row
      kinds == CASE At(w, "claim")  -> {"claim"}
                 [] At(w, "record") ->
                      {"renew", IF inbox[i].status = "failed" THEN "reconcile"
                                ELSE "succeed"}
                 [] At(w, "fail")   -> {"renew", "fail"}
                 [] OTHER -> IF Owning(w) THEN {"renew"} ELSE {} IN
    {[kind |-> k, row |-> i, attempt |-> handler[w].attempt] : k \in kinds}

\* The answers to them are no longer waited for.
Abandon(w) == late' = late \cup InFlight(w)

\* The claim's query fails; this is outside the handler's try block.
ClaimRowFails(w) ==
  /\ At(w, "claim")
  /\ Fault("outage")
  /\ Finish(w, "threw")
  /\ Abandon(w)
  /\ UNCHANGED <<inbox, job, lock, history>>

\* Not claimed: defer the job while another handler's lease is live.
Look(w) ==
  LET i == handler[w].row IN
    /\ At(w, "look")
    /\ Finish(w, IF /\ inbox[i].status = "processing"
                    /\ inbox[i].attempts < MaxAttempts
                    /\ inbox[i].leased
                 THEN "deferred" ELSE "completed")
    /\ UNCHANGED <<inbox, job, lock, late, history, faults>>

\* withOfficeSessionLock: pg_advisory_lock.
AcquireLock(w) ==
  /\ At(w, "lock")
  /\ lock[OfficeOf[handler[w].row]] = NoOne
  /\ lock' = [lock EXCEPT ![OfficeOf[handler[w].row]] = w]
  /\ Goto(w, "check")
  /\ UNCHANGED <<inbox, job, late, history, faults>>

\* lock_timeout: another import of the office takes more than 300 s.
LockTimesOut(w) ==
  /\ At(w, "lock")
  /\ lock[OfficeOf[handler[w].row]] # NoOne
  /\ Goto(w, "fail")
  /\ UNCHANGED <<inbox, job, lock, late, history, faults>>

\* A query before the import fails: the look at a row that was not claimed
\* (outside the try block), the wait for the lock, or a check made under it.
QueryFails(w) ==
  /\ Fault("outage")
  /\ \/ At(w, "look") /\ Finish(w, "threw") /\ UNCHANGED lock
     \/ At(w, "lock") /\ Goto(w, "fail") /\ UNCHANGED lock
     \/ At(w, "check") /\ Goto(w, "fail") /\ ReleaseLock(w)
  /\ UNCHANGED <<inbox, job, late, history>>

\* Mistake: a dead-lettered snapshot counts as a committed one.
StaleCountingFailed(i) ==
  /\ ExtractedAt[i] # 0
  /\ \E k \in Snapshots \ {i} :
       /\ OfficeOf[k] = OfficeOf[i]
       /\ inbox[k].status \in Finished
       /\ ExtractedAt[i] < ExtractedAt[k]

\* The monotonic guard: another snapshot of the office, strictly newer, is
\* recorded as succeeded (latestCommittedExtractedAt).
Stale(i) ==
  /\ ExtractedAt[i] # 0
  /\ \E k \in Snapshots \ {i} :
       /\ OfficeOf[k] = OfficeOf[i]
       /\ inbox[k].status = "succeeded"
       /\ ExtractedAt[i] < ExtractedAt[k]

\* Mistake: the row is not read again once the lock is held.
AfterCheckUnread(i) == IF Stale(i) THEN "record" ELSE "import"

\* What the handler does once it holds the lock.
AfterCheck(i) ==
  CASE inbox[i].status \in Finished -> "settle"
    [] inbox[i].status \notin Finished /\ Stale(i) -> "record"
    [] inbox[i].status \notin Finished /\ ~ Stale(i) -> "import"

Check(w) ==
  LET i == handler[w].row IN
    /\ At(w, "check")
    /\ Goto(w, AfterCheck(i))
    /\ IF AfterCheck(i) = "settle" THEN ReleaseLock(w) ELSE UNCHANGED lock
    /\ overtaken' = overtaken \ {w}
    /\ UNCHANGED <<inbox, job, late, mirror, watermark, commits, forgotten,
                   faults>>

\* ingestBidBoardRows commits: the office's mirror is now this snapshot.
Commit(i) ==
  /\ mirror' = [mirror EXCEPT ![OfficeOf[i]] = ExtractedAt[i]]
  /\ commits' = [commits EXCEPT ![i] = @ + 1]

Import(w) ==
  /\ At(w, "import")
  /\ Commit(handler[w].row)
  /\ Goto(w, "record")
  /\ UNCHANGED <<inbox, job, lock, late, watermark, forgotten, overtaken,
                 faults>>

\* History: a commit of row i will not be seen through by its handler.
Forget(i) ==
  forgotten' = IF commits'[i] > 0 THEN forgotten \cup {i} ELSE forgotten

\* The importer throws: nothing was committed, or (a fault) the answer to a
\* COMMIT that took effect was lost.
ImportThrows(w) ==
  /\ At(w, "import")
  /\ Goto(w, "fail")
  /\ ReleaseLock(w)
  /\ \/ UNCHANGED <<mirror, commits, forgotten, faults>>
     \/ /\ Fault("outage")
        /\ Commit(handler[w].row)
        /\ Forget(handler[w].row)
  /\ UNCHANGED <<inbox, job, late, watermark, overtaken>>

\* A finished row; nobody reads its lease any more.
Done(i, s) == [inbox[i] EXCEPT !.status = s, !.leased = FALSE]

\* Mistake: a row failed meanwhile is left as it is.
SucceedUnreconciled(i) ==
  IF inbox[i].status = "processing"
  THEN /\ inbox' = [inbox EXCEPT ![i] = Done(i, "succeeded")]
       /\ watermark' = [watermark EXCEPT ![OfficeOf[i]] =
                          IF ExtractedAt[i] > @ THEN ExtractedAt[i] ELSE @]
  ELSE UNCHANGED <<inbox, watermark>>

\* markInboxSucceeded, and reconcileFailedButCommitted if the row has been
\* failed meanwhile.
Succeed(i) ==
  IF inbox[i].status \in {"processing", "failed"}
  THEN /\ inbox' = [inbox EXCEPT ![i] = Done(i, "succeeded")]
       /\ watermark' = [watermark EXCEPT ![OfficeOf[i]] =
                          IF ExtractedAt[i] > @ THEN ExtractedAt[i] ELSE @]
  ELSE UNCHANGED <<inbox, watermark>>

Record(w) ==
  /\ At(w, "record")
  /\ Succeed(handler[w].row)
  /\ Finish(w, "completed")
  /\ ReleaseLock(w)
  /\ UNCHANGED <<job, late, mirror, commits, forgotten, overtaken, faults>>

\* All six attempts at the record fail.  Those that timed out may land yet,
\* under the lock of a later delivery or under none.
RecordFails(w) ==
  /\ At(w, "record")
  /\ Fault("outage")
  /\ Abandon(w)
  /\ UNCHANGED <<inbox, job, mirror, watermark, commits, overtaken>>
  /\ Forget(handler[w].row)
  /\ Goto(w, "fail")
  /\ ReleaseLock(w)

\* Mistake: a failure releases the lease of whoever holds the row by now.
FailedAnyAttempt(h) ==
  IF h.attempt >= MaxAttempts
  THEN IF inbox[h.row].status = "processing" /\ inbox[h.row].attempts = h.attempt
       THEN Done(h.row, "failed") ELSE inbox[h.row]
  ELSE [inbox[h.row] EXCEPT !.leased = FALSE]

\* markInboxFailed, bound to the attempt this handler claimed: 'failed' on the
\* final attempt, else the lease is released for the retry.
Failed(h) ==
  IF h.attempt >= MaxAttempts
  THEN IF /\ inbox[h.row].status = "processing"
          /\ inbox[h.row].attempts = h.attempt
       THEN Done(h.row, "failed")
       ELSE inbox[h.row]
  ELSE IF inbox[h.row].attempts = h.attempt
       THEN [inbox[h.row] EXCEPT !.leased = FALSE]
       ELSE inbox[h.row]

MarkFailed(w) ==
  LET h == handler[w] IN
    /\ At(w, "fail")
    /\ inbox' = [inbox EXCEPT ![h.row] = Failed(h)]
    /\ Finish(w, "threw")
    /\ UNCHANGED <<job, lock, late, history, faults>>

MarkFailedFails(w) ==
  /\ At(w, "fail")
  /\ Fault("outage")
  /\ Finish(w, "threw")
  /\ Abandon(w)
  /\ UNCHANGED <<inbox, job, lock, history>>

\* renewInboxLease: any handler that believes it owns the row; a stalled one
\* late, which is a fault of its own.
RenewLease(w) ==
  LET i == handler[w].row IN
    /\ Owning(w)
    /\ inbox[i].status = "processing"
    /\ ~ inbox[i].leased
    /\ inbox' = [inbox EXCEPT ![i].leased = TRUE]
    /\ IF "inbox" \in handler[w].stalled THEN Fault("stall") ELSE UNCHANGED faults
    /\ UNCHANGED <<job, handler, lock, late, history>>

\* 180 s pass without a renewal.
LeaseLapses(i) ==
  /\ inbox[i].status = "processing"
  /\ inbox[i].leased
  /\ ~ Renewed(i)
  /\ inbox' = [inbox EXCEPT ![i].leased = FALSE]
  /\ UNCHANGED <<job, handler, lock, late, history, faults>>

\* A worker is paused, or its renewals fail under pool pressure: from now on
\* one or both leases of its delivery may lapse, and a renewal may come when
\* the delivery is over.
Stall(w, leases) ==
  /\ ~ At(w, "idle")
  /\ handler[w].stalled = {}
  /\ Fault("stall")
  /\ handler' = [handler EXCEPT ![w].stalled = leases]
  /\ late' = IF "inbox" \in leases
             THEN late \cup {s \in InFlight(w) : s.kind = "renew"} ELSE late
  /\ UNCHANGED <<inbox, job, lock, history>>

-----------------------------------------------------------------------------
(* An abandoned statement lands, if its WHERE clause finds its row *)

LateClaim(s) ==
  /\ s.kind = "claim"
  /\ Claimable(s.row)
  /\ inbox' = [inbox EXCEPT ![s.row] = Claimed(s.row)]
  /\ UNCHANGED history

LateRenewal(s) ==
  /\ s.kind = "renew"
  /\ inbox[s.row].status = "processing"
  /\ inbox' = [inbox EXCEPT ![s.row].leased = TRUE]
  /\ UNCHANGED history

LateFailure(s) ==
  /\ s.kind = "fail"
  /\ inbox' = [inbox EXCEPT ![s.row] = Failed(s)]
  /\ UNCHANGED history

\* The record is not fenced: whoever imports for the office has read the rows
\* by now, and is not asked again.
LateSuccess(s) ==
  /\ \/ s.kind = "succeed" /\ inbox[s.row].status = "processing"
     \/ s.kind = "reconcile" /\ inbox[s.row].status = "failed"
  /\ Succeed(s.row)
  /\ overtaken' = overtaken \cup
       {w \in Workers : /\ At(w, "import")
                        /\ OfficeOf[handler[w].row] = OfficeOf[s.row]}
  /\ UNCHANGED <<mirror, commits, forgotten>>

LateLands(s) ==
  /\ LateClaim(s) \/ LateRenewal(s) \/ LateFailure(s) \/ LateSuccess(s)
  /\ late' = late \ {s}
  /\ UNCHANGED <<job, handler, lock, faults>>

-----------------------------------------------------------------------------
(* recoverOrphanedInboxJobs, on a timer of every worker.  Its statements    *)
(* follow one another, but each stands on its own WHERE clause, and one     *)
(* that is abandoned lands among those of a later run, or of another        *)
(* worker's: they may come in any order.                                    *)

LiveLease(i) == inbox[i].status = "processing" /\ inbox[i].leased

\* (0) Requeue jobs nobody renews, unless the inbox lease is live.
ReclaimJobs ==
  /\ job' = [i \in Snapshots |->
               IF /\ job[i].status = "processing"
                  /\ job[i].lapsed
                  /\ ~ LiveLease(i)
               THEN [job[i] EXCEPT !.status = "pending", !.lapsed = FALSE]
               ELSE job[i]]
  /\ UNCHANGED <<inbox, handler, lock, late, history, faults>>

\* (a) The rows to fail: exhausted, no live lease and no live job.
Exhausted(i) ==
  /\ inbox[i].status = "processing"
  /\ inbox[i].attempts >= MaxAttempts
  /\ ~ inbox[i].leased
  /\ job[i].status = "none"

Terminalize ==
  /\ inbox' = [i \in Snapshots |->
                 IF Exhausted(i) THEN Done(i, "failed")
                 ELSE inbox[i]]
  /\ UNCHANGED <<job, handler, lock, late, history, faults>>

\* Mistake: only rows that were never claimed are enqueued again.
OrphanedQueued(i) == inbox[i].status = "queued" /\ job[i].status = "none"

\* (b) The rows to enqueue again: attempts left and no live job.
Orphaned(i) ==
  /\ Claimable(i)
  /\ job[i].status = "none"

Reenqueue ==
  /\ job' = [i \in Snapshots |-> IF Orphaned(i) THEN NewJob(i) ELSE job[i]]
  /\ UNCHANGED <<inbox, handler, lock, late, history, faults>>

\* (c) Finished rows past the retention window, which outlives every job and
\* handler of the row; the newest success of an office is kept.  A statement
\* for a deleted row finds nothing: a row posted again has an id of its own.
Deletable(i) ==
  /\ inbox[i].status \in Finished
  /\ job[i].status = "none"
  /\ \A w \in Workers : ~ At(w, "idle") => handler[w].row # i

\* Mistake: retention goes by age alone.
KeptByAge(S) == S \subseteq {i \in Snapshots : inbox[i].status \in Finished}

Kept(S) ==
  \A i \in S :
    inbox[i].status = "succeeded" /\ ExtractedAt[i] # 0 =>
      \E k \in Snapshots \ S :
        /\ OfficeOf[k] = OfficeOf[i]
        /\ inbox[k].status = "succeeded"
        /\ ExtractedAt[k] >= ExtractedAt[i]

Retain ==
  /\ \E S \in SUBSET {i \in Snapshots : Deletable(i)} :
       /\ Kept(S)
       /\ inbox' = [i \in Snapshots |->
                      IF i \in S THEN NoRow ELSE inbox[i]]
       /\ commits' = [i \in Snapshots |-> IF i \in S THEN 0 ELSE commits[i]]
       /\ forgotten' = forgotten \ S
       /\ job' = [i \in Snapshots |-> IF i \in S THEN NeverQueued ELSE job[i]]
       /\ late' = {s \in late : s.row \notin S}
  /\ UNCHANGED <<handler, lock, mirror, watermark, overtaken, faults>>

-----------------------------------------------------------------------------
(* A worker dies and is restarted; PostgreSQL frees the lock of its session, *)
(* and what it had sent on other connections may land yet                  *)

Crash(w) ==
  /\ Fault("crash")
  /\ handler' = [handler EXCEPT ![w] = Idle]
  /\ lock' = [o \in Offices |-> IF lock[o] = w THEN NoOne ELSE lock[o]]
  /\ late' = late \cup InFlight(w)
  /\ \/ UNCHANGED <<mirror, commits>>
     \/ At(w, "import") /\ Commit(handler[w].row)
  /\ IF At(w, "import") \/ At(w, "record")
     THEN Forget(handler[w].row) ELSE UNCHANGED forgotten
  /\ UNCHANGED <<inbox, job, watermark, overtaken>>

-----------------------------------------------------------------------------
(* The specification *)

\* What a handler does by itself, whether or not things go wrong.
HandlerStep(w) ==
  \/ ClaimRow(w)
  \/ Look(w)
  \/ AcquireLock(w)
  \/ LockTimesOut(w)
  \/ Check(w)
  \/ Import(w)
  \/ ImportThrows(w)
  \/ Record(w)
  \/ MarkFailed(w)
  \/ SettleJob(w)

HandlerOutage(w) ==
  \/ ClaimRowFails(w)
  \/ QueryFails(w)
  \/ RecordFails(w)
  \/ MarkFailedFails(w)

RecoveryRuns ==
  \/ ReclaimJobs
  \/ Terminalize
  \/ Reenqueue
  \/ Retain

WorkerStep(w) ==
  \/ \E i \in Snapshots : ClaimJob(w, i)
  \/ HandlerStep(w)
  \/ HandlerOutage(w)
  \/ RenewLease(w)
  \/ \E leases \in SUBSET Lease \ {{}} : Stall(w, leases)
  \/ Crash(w)

Next ==
  \/ \E w \in Workers : WorkerStep(w)
  \/ \E i \in Snapshots : Accept(i) \/ JobLapses(i) \/ LeaseLapses(i)
  \/ SweepJobs
  \/ RecoveryRuns
  \/ \E s \in late : LateLands(s)

Spec == Init /\ [][Next]_vars

(***************************************************************************)
(* Handlers and recovery keep running: every query, the wait for the lock  *)
(* and the import are bounded by timeouts, the poller and the recovery are *)
(* on setInterval.  A poller that is idle again and again gets every job   *)
(* that stays due (strong fairness: claims go by age).  Leases nobody      *)
(* renews lapse, and the queue's sweep runs.                               *)
(***************************************************************************)
Fairness ==
  /\ \A w \in Workers : WF_vars(HandlerStep(w))
  /\ WF_vars(ReclaimJobs)
  /\ WF_vars(Terminalize)
  /\ WF_vars(Reenqueue)
  /\ \A i \in Snapshots :
       /\ SF_vars(\E w \in Workers : ClaimJob(w, i))
       /\ WF_vars(LeaseLapses(i))
       /\ WF_vars(JobLapses(i))
  /\ WF_vars(SweepJobs)

FairSpec == Spec /\ Fairness

-----------------------------------------------------------------------------
(* Properties *)

\* The shapes of the inbox's state.
TypeOK ==
  /\ inbox \in [Snapshots -> InboxRow]
  /\ job \in [Snapshots -> Job]
  /\ handler \in [Workers -> Running \cup {Idle}]
  /\ lock \in [Offices -> Workers \cup {NoOne}]
  /\ late \subseteq Statement
  /\ mirror \in [Offices -> Nat]
  /\ watermark \in [Offices -> Nat]
  /\ commits \in [Snapshots -> Nat]
  /\ forgotten \subseteq Snapshots
  /\ overtaken \subseteq Workers
  /\ faults \in Nat

\* Nobody takes a row from a handler that keeps its lease: no other claim
\* spends an attempt of it, and neither recovery nor a superseded handler
\* fails it, whatever happens to its job meanwhile.
LeaseIsRespected ==
  \A w \in Workers :
    Owning(w) /\ "inbox" \notin handler[w].stalled =>
      /\ inbox[handler[w].row].attempts = handler[w].attempt
      /\ inbox[handler[w].row].status \in {"processing", "succeeded"}

\* A row says 'failed' of a committed import only while the handler that
\* imported it is about to correct that, unless a crash or an outage between
\* the commit and its record made that handler forget it.
FailedIsHonest ==
  \A i \in Snapshots \ forgotten :
    inbox[i].status = "failed" /\ commits[i] > 0 =>
      \E w \in Workers : At(w, "record") /\ handler[w].row = i

\* A row says 'succeeded' only if its own import committed, or a newer
\* snapshot of its office was already recorded and the row was skipped.
SucceededIsReal ==
  \A i \in Snapshots :
    inbox[i].status = "succeeded" =>
      commits[i] > 0 \/ ExtractedAt[i] < watermark[OfficeOf[i]]

\* The import of row i under way had passed its check when an abandoned record
\* of its office landed.
Overtaken(i) == \E w \in overtaken : At(w, "import") /\ handler[w].row = i

\* An import that has been recorded is not repeated: no later or parallel
\* delivery of the row commits it a second time, except one that was importing
\* already when an abandoned record landed.
RecordedOnce ==
  [][\A i \in Snapshots :
       inbox[i].status = "succeeded" /\ ~ Overtaken(i) =>
         commits'[i] <= commits[i]]_vars

\* The importer never overwrites a recorded snapshot of its office with an
\* older one, however late its job runs and whatever retention deleted, unless
\* the record landed, abandoned, while the older one was being imported.
WatermarkHolds ==
  [][\A i \in Snapshots :
       commits'[i] > commits[i] /\ ExtractedAt[i] # 0 /\ ~ Overtaken(i) =>
         ExtractedAt[i] >= watermark[OfficeOf[i]]]_vars

\* What the monotonic guard is said to ensure: the mirror never goes back to
\* an older snapshot than the newest one that has committed.
MirrorNeverGoesBack ==
  [][\A o \in Offices : mirror'[o] # 0 => mirror'[o] >= mirror[o]]_vars

\* Every accepted snapshot is eventually decided, with finitely many faults.
EventuallyDecided ==
  \A i \in Snapshots :
    inbox[i].status = "queued" ~> inbox[i].status \in Finished

=============================================================================
