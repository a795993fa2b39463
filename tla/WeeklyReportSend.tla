-------------------------- MODULE WeeklyReportSend --------------------------
(***************************************************************************)
(* Sending a weekly report to its client: the API's transactions           *)
(* (server/src/modules/weekly-reports/send-service.ts and the create and   *)
(* delete of reports-service.ts) against the worker's delivery job         *)
(* (worker/src/jobs/weekly-report-send.ts), the e-mail provider and its    *)
(* delivery webhook.                                                       *)
(*                                                                         *)
(* A version is sent once: the send freezes the request, mints a delivery  *)
(* key and queues a job.  A correction is the next version of the same     *)
(* week, and sending it supersedes the older ones.  The job reads the row, *)
(* renders a PDF, looks at the row once more, calls the provider and       *)
(* records the answer: five steps other requests and jobs get between.     *)
(*                                                                         *)
(* Left out: permissions, the text of the message, the ladder from draft   *)
(* to approved (a report appears here when it is approved), the client     *)
(* links.  The queue is the at-least-once one of module JobQueue, reduced  *)
(* to claim, settle and redeliver.                                         *)
(***************************************************************************)
EXTENDS Naturals, Sequences, FiniteSets

CONSTANTS
  Weeks,        \* the weeks of one project
  MaxVersion,   \* bound on the versions of a week
  MaxJobs,      \* bound on the jobs ever queued
  MaxAttempts,  \* max_attempts of a job
  MaxFaults     \* bound on crashes, expired leases and lost writes

ASSUME SendAssumption ==
  /\ MaxVersion \in Nat \ {0}
  /\ MaxJobs \in Nat
  /\ MaxAttempts \in Nat \ {0}
  /\ MaxFaults \in Nat

VARIABLES
  report,      \* the table weekly_reports, by week and version
  jobs,        \* the weekly_report_send rows of public.job_queue
  runs,        \* executions of the handler
  remembered,  \* delivery keys the provider still recognises
  copies,      \* how many messages about a report reached the client
  excused,     \* history: versions a send could not know had been delivered
  clock,       \* the time, in runs of the stall sweep
  faults       \* how much of MaxFaults is used

sendVars == <<report, jobs, runs, remembered, copies, excused, clock, faults>>

-----------------------------------------------------------------------------
(* Data *)

Versions == 1 .. MaxVersion
Reports == Weeks \X Versions
Jobs == 1 .. MaxJobs

Phase == {"render", "looked", "accepted", "failed"}

Report ==
  [status : {"absent", "approved", "sent"}, active : BOOLEAN, key : Nat,
   supersededBy : 0 .. MaxVersion, isCorrection : BOOLEAN,
   delivered : BOOLEAN, \* send_delivered_at is set
   failed : BOOLEAN,    \* send_error is set
   bounced : BOOLEAN,   \* the provider reported the message not delivered
   aged : BOOLEAN,      \* sent_at is older than the provider's 24 hours
   alerted : Nat,       \* send_stall_alerted_at, 0 for NULL
   activity : Nat,      \* the later of sent_at and send_last_attempt_at
   quiet : BOOLEAN]     \* that is longer ago than the stall threshold

Job == [week : Weeks, version : Versions, key : Nat, attempts : Nat,
        state : {"pending", "running", "done", "dead"}]

Run == [job : Jobs, att : Nat \ {0}, phase : Phase]

NoReport ==
  [status |-> "absent", active |-> FALSE, key |-> 0, supersededBy |-> 0,
   isCorrection |-> FALSE, delivered |-> FALSE, failed |-> FALSE,
   bounced |-> FALSE, aged |-> FALSE, alerted |-> 0, activity |-> 0,
   quiet |-> FALSE]

Init ==
  /\ report = [r \in Reports |-> NoReport]
  /\ jobs = << >>
  /\ runs = {}
  /\ remembered = {}
  /\ copies = [r \in Reports |-> 0]
  /\ excused = [r \in Reports |-> {}]
  /\ clock = 1
  /\ faults = 0

Fault ==
  /\ faults < MaxFaults
  /\ faults' = faults + 1

\* The versions of week w that satisfy a condition are written as sets.
Existing(w) == {n \in Versions : report[<<w, n>>].status # "absent"}
Active(w) == {n \in Existing(w) : report[<<w, n>>].active}
ActiveSent(w) == {n \in Active(w) : report[<<w, n>>].status = "sent"}

\* The report a job or a run is about.
Subject(j) == <<jobs[j].week, jobs[j].version>>

-----------------------------------------------------------------------------
(* The API: each operation is one transaction that holds the row's lock *)

\* MAX(version) + 1 over every version there has been, deleted ones too.
IsNextVersion(w, n) ==
  /\ \A m \in Existing(w) : m < n
  /\ n = 1 \/ n - 1 \in Existing(w)

Insert(w, n) ==
  /\ IsNextVersion(w, n)
  /\ report' = [report EXCEPT ![<<w, n>>] =
                  [NoReport EXCEPT !.status = "approved", !.active = TRUE]]
  /\ UNCHANGED <<jobs, runs, remembered, copies, excused, clock, faults>>

\* createWeeklyReportDraft: no live report exists for the week.
Draft(w, n) ==
  /\ Active(w) = {}
  /\ Insert(w, n)

\* createWeeklyReportCorrection: the source was sent and no newer live
\* version exists.
Correct(w, source, n) ==
  /\ source \in ActiveSent(w)
  /\ \A m \in Active(w) : m <= source
  /\ Insert(w, n)

\* Mistake: a removed report is not counted as one the client received.
PriorReachedActive(w, n) ==
  \E m \in Active(w) :
    /\ m < n
    /\ report[<<w, m>>].delivered
    /\ ~ report[<<w, m>>].bounced

\* priorVersionReachedClient.
PriorReached(w, n) ==
  \E m \in Existing(w) :
    /\ m < n
    /\ report[<<w, m>>].delivered
    /\ ~ report[<<w, m>>].bounced

\* Mistake: only a send that calls itself a correction supersedes.
SupersededByCorrection(w, n) ==
  {m \in ActiveSent(w) : /\ PriorReached(w, n)
                         /\ m < n
                         /\ report[<<w, m>>].supersededBy = 0}

\* The rows sending version n stamps with superseded_by_id.
Superseded(w, n) ==
  {m \in ActiveSent(w) : m < n /\ report[<<w, m>>].supersededBy = 0}

\* History: what that transaction cannot see about an older version - its
\* message has left, or is past the last look, and no stamp says so - or has
\* been told did not arrive.
OutOfSight(w, n) ==
  {m \in Existing(w) :
     /\ m < n
     /\ \/ report[<<w, m>>].bounced
        \/ /\ ~ report[<<w, m>>].delivered
           /\ \/ copies[<<w, m>>] > 0
              \/ \E x \in runs : Subject(x.job) = <<w, m>> /\ x.phase = "looked"}

QueueJob(w, n, key) ==
  /\ Len(jobs) < MaxJobs
  /\ jobs' = Append(jobs, [week |-> w, version |-> n, key |-> key,
                           attempts |-> 0, state |-> "pending"])

\* sendWeeklyReport: approved becomes sent, a key is minted, the older
\* versions are superseded and the delivery is queued.
Send(w, n) ==
  /\ report[<<w, n>>].status = "approved"
  /\ report[<<w, n>>].active
  /\ QueueJob(w, n, n)
  /\ report' = [r \in Reports |->
       IF r = <<w, n>>
       THEN [report[r] EXCEPT !.status = "sent", !.key = n,
                              !.isCorrection = PriorReached(w, n),
                              !.activity = clock]
       ELSE IF r[1] = w /\ r[2] \in Superseded(w, n)
       THEN [report[r] EXCEPT !.supersededBy = n]
       ELSE report[r]]
  /\ excused' = [excused EXCEPT ![<<w, n>>] = OutOfSight(w, n)]
  /\ UNCHANGED <<runs, remembered, copies, clock, faults>>

\* Mistake: the retry leaves the alert stamp behind.
RetriedStillAlerted(r) ==
  [report[r] EXCEPT !.failed = FALSE, !.activity = clock, !.quiet = FALSE]

\* The row after a retry: the clock moves and the stall alert is re-armed.
Retried(r) ==
  [report[r] EXCEPT !.failed = FALSE, !.activity = clock, !.quiet = FALSE,
                    !.alerted = 0]

\* retryWeeklyReportSend: the stored request under the stored key; past the
\* provider's window only when the caller acknowledges the duplicate risk.
Retry(w, n, acknowledged) ==
  /\ n \in ActiveSent(w)
  /\ report[<<w, n>>].supersededBy = 0
  /\ ~ report[<<w, n>>].delivered
  /\ acknowledged \/ ~ report[<<w, n>>].aged
  /\ QueueJob(w, n, report[<<w, n>>].key)
  /\ report' = [report EXCEPT ![<<w, n>>] = Retried(<<w, n>>)]
  /\ UNCHANGED <<runs, remembered, copies, excused, clock, faults>>

\* Mistake: a report that replaced a live one may be removed.
DeletableAlways(w, n) == n \in Active(w)

\* The WHERE of deleteWeeklyReport.
Deletable(w, n) ==
  /\ n \in Active(w)
  /\ \A m \in Active(w) : report[<<w, m>>].supersededBy # n

\* deleteWeeklyReport: a soft delete.
Delete(w, n) ==
  /\ Deletable(w, n)
  /\ report' = [report EXCEPT ![<<w, n>>].active = FALSE]
  /\ UNCHANGED <<jobs, runs, remembered, copies, excused, clock, faults>>

-----------------------------------------------------------------------------
(* The worker: handleWeeklyReportSend *)

\* The checks at the top of the handler, and again in reasonToAbandonSend.
MayDeliver(j) ==
  /\ report[Subject(j)].active
  /\ report[Subject(j)].status = "sent"
  /\ ~ report[Subject(j)].delivered
  /\ report[Subject(j)].supersededBy = 0
  /\ report[Subject(j)].key = jobs[j].key

\* Mistake: a job that failed its last attempt is queued again.
AfterThrowForever(att) == "pending"

\* The state of a job whose handler threw.
AfterThrow(att) == IF att >= MaxAttempts THEN "dead" ELSE "pending"

\* The queue's own write about a claim, guarded by the claim.
Settled(x, state) ==
  IF jobs[x.job].state = "running" /\ jobs[x.job].attempts = x.att
  THEN [jobs EXCEPT ![x.job].state = state]
  ELSE jobs

Advance(x, phase) == runs' = (runs \ {x}) \cup {[x EXCEPT !.phase = phase]}

\* The job is claimed and the row read: a report that must not go out
\* completes the job.
Start(j) ==
  /\ jobs[j].state = "pending"
  /\ jobs' = [jobs EXCEPT ![j].attempts = @ + 1,
                          ![j].state = IF MayDeliver(j) THEN "running" ELSE "done"]
  /\ runs' = IF MayDeliver(j)
             THEN runs \cup {[job |-> j, att |-> jobs[j].attempts + 1,
                              phase |-> "render"]}
             ELSE runs
  /\ UNCHANGED <<report, remembered, copies, excused, clock, faults>>

\* The last look, after the PDF was rendered.
LastLook(x) ==
  /\ x.phase = "render"
  /\ IF MayDeliver(x.job)
     THEN Advance(x, "looked") /\ UNCHANGED jobs
     ELSE runs' = runs \ {x} /\ jobs' = Settled(x, "done")
  /\ UNCHANGED <<report, remembered, copies, excused, clock, faults>>

\* Mistake: every attempt has a key of its own.
IdempotencyKeyOfAttempt(x) == <<Subject(x.job), x.att>>

\* Keyed on the send request, so that every attempt at it carries one key.
IdempotencyKey(x) == <<Subject(x.job), jobs[x.job].key>>

\* The provider takes the message, unless it still recognises the key.
Taken(x) ==
  /\ remembered' = remembered \cup {IdempotencyKey(x)}
  /\ copies' = IF IdempotencyKey(x) \in remembered THEN copies
               ELSE [copies EXCEPT ![Subject(x.job)] = @ + 1]

ProviderAccepts(x) ==
  /\ x.phase = "looked"
  /\ Taken(x)
  /\ Advance(x, "accepted")
  /\ UNCHANGED <<report, jobs, excused, clock, faults>>

\* The call fails: refused by the provider or by the deployment guard before
\* it, or, with no answer, the message may have been taken all the same.
ProviderFails(x, taken) ==
  /\ x.phase = "looked"
  /\ IF taken THEN Taken(x) /\ Fault
     ELSE UNCHANGED <<remembered, copies, faults>>
  /\ Advance(x, "failed")
  /\ UNCHANGED <<report, jobs, excused, clock>>

\* Mistake: a late failure is written over a delivery.
FailureCountsAlways(r) == report[r].status = "sent" /\ report[r].active

\* The WHERE of recordAttempt for a failure.
FailureCounts(r) ==
  /\ report[r].status = "sent"
  /\ report[r].active
  /\ ~ report[r].delivered

\* recordAttempt(delivered: false), then the handler throws.
RecordFailure(x) ==
  LET r == Subject(x.job) IN
  /\ x.phase = "failed"
  /\ report' = IF FailureCounts(r)
               THEN [report EXCEPT ![r] = [@ EXCEPT !.failed = TRUE,
                                                    !.activity = clock,
                                                    !.quiet = FALSE]]
               ELSE report
  /\ runs' = runs \ {x}
  /\ jobs' = Settled(x, AfterThrow(x.att))
  /\ UNCHANGED <<remembered, copies, excused, clock, faults>>

\* recordAttempt(delivered: true): it asks for no live row, since the message
\* is out.
RecordDelivery(x) ==
  LET r == Subject(x.job) IN
  /\ x.phase = "accepted"
  /\ report' = IF report[r].status = "sent" /\ ~ report[r].delivered
               THEN [report EXCEPT ![r] = [@ EXCEPT !.delivered = TRUE,
                                                    !.failed = FALSE,
                                                    !.activity = clock,
                                                    !.quiet = FALSE]]
               ELSE report
  /\ runs' = runs \ {x}
  /\ jobs' = Settled(x, "done")
  /\ UNCHANGED <<remembered, copies, excused, clock, faults>>

\* That write fails: the handler throws and records nothing.
RecordLost(x) ==
  /\ x.phase \in {"accepted", "failed"}
  /\ Fault
  /\ runs' = runs \ {x}
  /\ jobs' = Settled(x, AfterThrow(x.att))
  /\ UNCHANGED <<report, remembered, copies, excused, clock>>

\* The worker dies, or only looks dead: the claim's lease expires and the job
\* is queued again, in the second case with its handler still running.
Redeliver(j, died) ==
  /\ jobs[j].state = "running"
  /\ Fault
  /\ jobs' = [jobs EXCEPT ![j].state = "pending"]
  /\ runs' = IF died
             THEN {x \in runs : ~ (x.job = j /\ x.att = jobs[j].attempts)}
             ELSE runs
  /\ UNCHANGED <<report, remembered, copies, excused, clock>>

-----------------------------------------------------------------------------
(* The provider, its webhook, and time *)

\* applyWeeklyReportDeliveryEvent: a message that is out turns out not to have
\* been delivered; that verdict outranks the others, removed report or not.
Bounce(r) ==
  /\ copies[r] > 0
  /\ ~ report[r].bounced
  /\ report' = [report EXCEPT ![r].bounced = TRUE]
  /\ UNCHANGED <<jobs, runs, remembered, copies, excused, clock, faults>>

\* sent_at is a day old.
Age(r) ==
  /\ report[r].status = "sent"
  /\ ~ report[r].aged
  /\ report' = [report EXCEPT ![r].aged = TRUE]
  /\ UNCHANGED <<jobs, runs, remembered, copies, excused, clock, faults>>

\* A day after it took a message, so no earlier, the provider forgets its key.
Forget(k) ==
  /\ report[k[1]].aged
  /\ remembered' = remembered \ {k}
  /\ UNCHANGED <<report, jobs, runs, copies, excused, clock, faults>>

-----------------------------------------------------------------------------
(* The specification *)

ServerStep(w) ==
  \E n \in Versions :
    \/ Draft(w, n)
    \/ \E source \in Versions : Correct(w, source, n)
    \/ Send(w, n)
    \/ \E acknowledged \in BOOLEAN : Retry(w, n, acknowledged)
    \/ Delete(w, n)

RunStep(x) ==
  \/ LastLook(x)
  \/ ProviderAccepts(x)
  \/ \E taken \in BOOLEAN : ProviderFails(x, taken)
  \/ RecordFailure(x)
  \/ RecordDelivery(x)
  \/ RecordLost(x)

OutsideStep ==
  \/ \E r \in Reports :
       \/ Bounce(r)
       \/ Age(r)
  \/ \E k \in remembered : Forget(k)

DeliveryNext ==
  \/ \E w \in Weeks : ServerStep(w)
  \/ \E j \in DOMAIN jobs : Start(j) \/ \E died \in BOOLEAN : Redeliver(j, died)
  \/ \E x \in runs : RunStep(x)

SendNext == DeliveryNext \/ OutsideStep

Spec == Init /\ [][SendNext]_sendVars

-----------------------------------------------------------------------------
(* Properties *)

TypeOK ==
  /\ report \in [Reports -> Report]
  /\ jobs \in Seq(Job)
  /\ \A j \in DOMAIN jobs : jobs[j].attempts <= MaxAttempts + MaxFaults
  /\ runs \subseteq Run
  /\ remembered \subseteq Reports \X Nat
  /\ copies \in [Reports -> Nat]
  /\ excused \in [Reports -> SUBSET Versions]
  /\ clock \in Nat
  /\ faults \in 0 .. MaxFaults

\* The client is told: when two versions of a week reach the client, the
\* later one says it is a correction - removed or not, the older one is in
\* somebody's inbox - unless the older message was past the last look or had
\* not been recorded when the later version was sent, or had bounced.
CorrectionAdmitted ==
  \A w \in Weeks : \A m, n \in Versions :
    /\ m < n
    /\ copies[<<w, m>>] > 0
    /\ copies[<<w, n>>] > 0
    => \/ report[<<w, n>>].isCorrection
       \/ m \in excused[<<w, n>>]

\* A week never loses its live report: a superseded report that is still on
\* file is followed by a sent one that is on file too, whatever was deleted
\* in between.
SuccessorOnFile ==
  \A w \in Weeks : \A m \in Active(w) :
    LET n == report[<<w, m>>].supersededBy
    IN  n # 0 => n > m /\ n \in ActiveSent(w)

\* A week never has two live reports: of the sent versions on file at most
\* one is not superseded, however sends, corrections and deletes interleave.
OneLiveVersion ==
  \A w \in Weeks : \A m, n \in ActiveSent(w) :
    /\ report[<<w, m>>].supersededBy = 0
    /\ report[<<w, n>>].supersededBy = 0
    => m = n

\* The row tells the truth about the message: what is stamped delivered is in
\* the client's inbox, shows no error - a slower attempt that failed does not
\* overwrite it - and is delivered to the end.
DeliveryIsReal ==
  \A r \in Reports :
    report[r].delivered => copies[r] > 0 /\ ~ report[r].failed

\* Inside the provider's window a report reaches the client once, however
\* often it is retried, redelivered, or accepted without being recorded.
OneCopyInsideWindow ==
  \A r \in Reports : copies[r] > 1 => report[r].aged

=============================================================================
