----------------------- MODULE WeeklyReportSendProofs -----------------------
(***************************************************************************)
(* Theorems about WeeklyReportSend, for every set of weeks and every bound. *)
(***************************************************************************)
EXTENDS WeeklyReportSend, TLAPS

-----------------------------------------------------------------------------
(* Type correctness *)

\* A job that waits has an attempt left, counting those a fault gave back,
\* and a run is of a job that was queued.
JobInv ==
  /\ Len(jobs) <= MaxJobs
  /\ \A j \in DOMAIN jobs :
       /\ jobs[j].attempts <= MaxAttempts + faults
       /\ jobs[j].state = "pending" => jobs[j].attempts < MaxAttempts + faults
  /\ \A x \in runs : x.job \in DOMAIN jobs

TypeInv == TypeOK /\ JobInv

\* Changing one element of a sequence, and adding one.
LEMMA SeqChange ==
  ASSUME NEW S, NEW s \in Seq(S), NEW i \in DOMAIN s, NEW x \in S
  PROVE  /\ [s EXCEPT ![i] = x] \in Seq(S)
         /\ Len([s EXCEPT ![i] = x]) = Len(s)
         /\ DOMAIN [s EXCEPT ![i] = x] = DOMAIN s
         /\ \A k \in DOMAIN s :
              [s EXCEPT ![i] = x][k] = IF k = i THEN x ELSE s[k]
OBVIOUS

LEMMA SeqAdd ==
  ASSUME NEW S, NEW s \in Seq(S), NEW x \in S
  PROVE  /\ Append(s, x) \in Seq(S)
         /\ Len(Append(s, x)) = Len(s) + 1
         /\ DOMAIN Append(s, x) = DOMAIN s \cup {Len(s) + 1}
         /\ Append(s, x)[Len(s) + 1] = x
         /\ \A k \in DOMAIN s : Append(s, x)[k] = s[k]
OBVIOUS

\* The row of a job, and the report it is about.
LEMMA JobRow ==
  ASSUME TypeOK, NEW j \in DOMAIN jobs
  PROVE  jobs[j] \in Job /\ Subject(j) \in Reports /\ Subject(j) = <<jobs[j].week, jobs[j].version>>
<1>1. jobs[j] \in Job
  BY DEF TypeOK
<1> QED
  BY <1>1 DEF Job, Subject, Reports

\* The row of a report after its send, with key k at time t.
SentRow(r, k, b, t) ==
  [r EXCEPT !.status = "sent", !.key = k, !.isCorrection = b, !.activity = t]

\* The row of a report that version n supersedes.
SupersededRow(r, n) == [r EXCEPT !.supersededBy = n]

LEMMA SentRowType ==
  ASSUME NEW r \in Report, NEW k \in Nat, NEW b \in BOOLEAN, NEW t \in Nat
  PROVE  SentRow(r, k, b, t) \in Report
BY DEF Report, SentRow

LEMMA ReportRow == ASSUME TypeInv, NEW r \in Reports PROVE report[r] \in Report
BY DEF TypeInv, TypeOK

\* The edits of a report's columns.
LEMMA ReportEdits ==
  ASSUME NEW r \in Report
  PROVE  /\ [r EXCEPT !.status = "approved", !.active = TRUE] \in Report
         /\ [r EXCEPT !.active = FALSE] \in Report
         /\ [r EXCEPT !.bounced = TRUE] \in Report
         /\ [r EXCEPT !.aged = TRUE] \in Report
         /\ [r EXCEPT !.quiet = TRUE] \in Report
BY DEF Report

LEMMA ReportTimes ==
  ASSUME NEW r \in Report, NEW t \in Nat
  PROVE  /\ [r EXCEPT !.failed = FALSE, !.activity = t, !.quiet = FALSE, !.alerted = 0] \in Report
         /\ [r EXCEPT !.failed = TRUE, !.activity = t, !.quiet = FALSE] \in Report
         /\ [r EXCEPT !.delivered = TRUE, !.failed = FALSE, !.activity = t, !.quiet = FALSE] \in Report
         /\ [r EXCEPT !.alerted = t] \in Report
BY DEF Report

LEMMA SupersededType ==
  ASSUME NEW r \in Report, NEW v \in 0 .. MaxVersion
  PROVE  [r EXCEPT !.supersededBy = v] \in Report
BY DEF Report

-----------------------------------------------------------------------------
(* What a step does to the jobs *)

\* The part of TypeInv about the queue.
JobsTyped ==
  /\ jobs \in Seq(Job)
  /\ Len(jobs) <= MaxJobs
  /\ \A j \in DOMAIN jobs :
       /\ jobs[j].attempts <= MaxAttempts + faults
       /\ jobs[j].state = "pending" => jobs[j].attempts < MaxAttempts + faults

\* A job stays in the queue and stays a job of the same request.
JobsPersist ==
  /\ DOMAIN jobs \subseteq DOMAIN jobs'
  /\ \A j \in DOMAIN jobs : /\ jobs'[j].week = jobs[j].week
                            /\ jobs'[j].version = jobs[j].version
                            /\ jobs'[j].key = jobs[j].key

FaultsKept == faults' \in Nat /\ faults' >= faults /\ faults \in Nat

\* The row of a job after a claim.
Claimed(job, a, s) == [job EXCEPT !.attempts = a, !.state = s]

LEMMA JobClaimed ==
  ASSUME NEW job \in Job, NEW a \in Nat, NEW s \in {"running", "done"}
  PROVE  /\ Claimed(job, a, s) \in Job
         /\ Claimed(job, a, s).week = job.week
         /\ Claimed(job, a, s).version = job.version
         /\ Claimed(job, a, s).key = job.key
         /\ Claimed(job, a, s).attempts = a
         /\ Claimed(job, a, s).state = s
BY DEF Job, Claimed

LEMMA AttemptsLeft ==
  ASSUME TypeInv, FaultsKept, NEW j \in DOMAIN jobs
  PROVE  /\ jobs[j].attempts <= MaxAttempts + faults'
         /\ jobs[j].state = "pending" => jobs[j].attempts < MaxAttempts + faults'
<1>1. jobs[j].attempts \in Nat
  BY JobRow DEF TypeInv, Job
<1>2. /\ jobs[j].attempts <= MaxAttempts + faults
      /\ jobs[j].state = "pending" => jobs[j].attempts < MaxAttempts + faults
  BY DEF TypeInv, JobInv
<1>3. MaxAttempts \in Nat
  BY SendAssumption
<1> QED
  BY <1>1, <1>2, <1>3 DEF FaultsKept

LEMMA JobEdit ==
  ASSUME TypeInv, FaultsKept, NEW j \in DOMAIN jobs, NEW row \in Job,
         row.week = jobs[j].week, row.version = jobs[j].version, row.key = jobs[j].key,
         row.attempts <= MaxAttempts + faults',
         row.state = "pending" => row.attempts < MaxAttempts + faults',
         jobs' = [jobs EXCEPT ![j] = row]
  PROVE  JobsTyped' /\ JobsPersist
<1>1. jobs \in Seq(Job)
  BY DEF TypeInv, TypeOK
<1>2. /\ jobs' \in Seq(Job) /\ Len(jobs') = Len(jobs) /\ DOMAIN jobs' = DOMAIN jobs
      /\ \A k \in DOMAIN jobs : jobs'[k] = IF k = j THEN row ELSE jobs[k]
  BY <1>1, SeqChange
<1>4. \A k \in DOMAIN jobs :
        /\ jobs'[k].attempts <= MaxAttempts + faults'
        /\ jobs'[k].state = "pending" => jobs'[k].attempts < MaxAttempts + faults'
  <2> TAKE k \in DOMAIN jobs
  <2>1. CASE k = j
    BY <1>2, <2>1
  <2>2. CASE k # j
    BY <1>2, <2>2, AttemptsLeft
  <2> QED
    BY <2>1, <2>2
<1> QED
  BY <1>2, <1>4 DEF JobsTyped, JobsPersist, TypeInv, JobInv

LEMMA JobKept ==
  ASSUME TypeInv, FaultsKept, jobs' = jobs
  PROVE  JobsTyped' /\ JobsPersist
BY AttemptsLeft DEF TypeInv, TypeOK, JobInv, JobsTyped, JobsPersist

LEMMA JobAdded ==
  ASSUME TypeInv, FaultsKept, NEW w \in Weeks, NEW n \in Versions, NEW key \in Nat,
         QueueJob(w, n, key)
  PROVE  /\ JobsTyped' /\ JobsPersist
         /\ DOMAIN jobs' = DOMAIN jobs \cup {Len(jobs) + 1}
         /\ Len(jobs') = Len(jobs) + 1
         /\ jobs'[Len(jobs) + 1].week = w
         /\ jobs'[Len(jobs) + 1].version = n
         /\ jobs'[Len(jobs) + 1].key = key
<1> DEFINE row == [week |-> w, version |-> n, key |-> key, attempts |-> 0, state |-> "pending"]
<1>1. row \in Job
  BY DEF Job
<1>2. jobs \in Seq(Job) /\ Len(jobs) < MaxJobs /\ jobs' = Append(jobs, row)
  BY DEF TypeInv, TypeOK, QueueJob
<1>3. /\ jobs' \in Seq(Job) /\ Len(jobs') = Len(jobs) + 1
      /\ DOMAIN jobs' = DOMAIN jobs \cup {Len(jobs) + 1}
      /\ jobs'[Len(jobs) + 1] = row
      /\ \A k \in DOMAIN jobs : jobs'[k] = jobs[k]
  BY <1>1, <1>2, SeqAdd
<1>5. \A k \in DOMAIN jobs' :
        /\ jobs'[k].attempts <= MaxAttempts + faults'
        /\ jobs'[k].state = "pending" => jobs'[k].attempts < MaxAttempts + faults'
  <2> TAKE k \in DOMAIN jobs'
  <2>1. CASE k \in DOMAIN jobs
    BY <1>3, <2>1, AttemptsLeft
  <2>2. CASE k = Len(jobs) + 1
    BY <1>3, <2>2, SendAssumption DEF FaultsKept
  <2> QED
    BY <1>3, <2>1, <2>2
<1> QED
  BY <1>2, <1>3, <1>5, SendAssumption DEF JobsTyped, JobsPersist

\* The queue's own write for a run, whatever it finds.
LEMMA SettledKeeps ==
  ASSUME TypeInv, FaultsKept, NEW x \in runs, NEW s \in {"pending", "done", "dead"},
         s = "pending" => x.att < MaxAttempts,
         jobs' = Settled(x, s)
  PROVE  JobsTyped' /\ JobsPersist
<1>1. x.job \in DOMAIN jobs /\ x \in Run
  BY DEF TypeInv, TypeOK, JobInv
<1>2. jobs[x.job] \in Job
  BY <1>1, JobRow DEF TypeInv
<1>3. CASE jobs[x.job].state = "running" /\ jobs[x.job].attempts = x.att
  <2> DEFINE row == [jobs[x.job] EXCEPT !.state = s]
  <2>1. jobs' = [jobs EXCEPT ![x.job] = row]
    BY <1>3 DEF Settled
  <2>2. row \in Job /\ row.week = jobs[x.job].week /\ row.version = jobs[x.job].version
        /\ row.key = jobs[x.job].key /\ row.attempts = jobs[x.job].attempts /\ row.state = s
    BY <1>2 DEF Job
  <2>3. jobs[x.job].attempts \in Nat /\ jobs[x.job].attempts <= MaxAttempts + faults
    BY <1>1, <1>2 DEF TypeInv, JobInv, Job
  <2>4. row.attempts <= MaxAttempts + faults'
    BY <2>2, <2>3, SendAssumption DEF FaultsKept
  <2>5. row.state = "pending" => row.attempts < MaxAttempts + faults'
    BY <1>3, <2>2, <2>3, SendAssumption DEF FaultsKept
  <2> HIDE DEF row
  <2> QED
    BY <1>1, <2>1, <2>2, <2>4, <2>5, JobEdit
<1>4. CASE ~ (jobs[x.job].state = "running" /\ jobs[x.job].attempts = x.att)
  BY <1>4, JobKept DEF Settled
<1> QED
  BY <1>3, <1>4

LEMMA StartKeeps ==
  ASSUME TypeInv, NEW j \in DOMAIN jobs, Start(j)
  PROVE  /\ JobsTyped' /\ JobsPersist
         /\ runs' \subseteq runs \cup {[job |-> j, att |-> jobs[j].attempts + 1, phase |-> "render"]}
         /\ [job |-> j, att |-> jobs[j].attempts + 1, phase |-> "render"] \in Run
<1>1. jobs[j] \in Job
  BY JobRow DEF TypeInv
<1>0. PICK a \in Nat : a = jobs[j].attempts + 1
  BY <1>1 DEF Job
<1> DEFINE s == IF MayDeliver(j) THEN "running" ELSE "done"
           row == Claimed(jobs[j], a, s)
<1>2. jobs' = [jobs EXCEPT ![j] = row] /\ faults' = faults
  BY <1>0 DEF Start, Claimed
<1>3. row \in Job /\ row.week = jobs[j].week /\ row.version = jobs[j].version
      /\ row.key = jobs[j].key /\ row.attempts = a /\ row.state = s
  <2>1. s \in {"running", "done"}
    OBVIOUS
  <2> HIDE DEF s
  <2> QED
    BY <1>1, <2>1, JobClaimed
<1>4. jobs[j].attempts \in Nat /\ jobs[j].attempts < MaxAttempts + faults
  BY <1>1 DEF Start, TypeInv, JobInv, Job
<1>5. FaultsKept
  BY <1>2, SendAssumption DEF FaultsKept, TypeInv, TypeOK
<1>6. row.attempts <= MaxAttempts + faults'
  BY <1>0, <1>3, <1>4, <1>5, SendAssumption DEF FaultsKept
<1>7. row.state # "pending"
  BY <1>3
<1> HIDE DEF row, s
<1>8. JobsTyped' /\ JobsPersist
  BY <1>2, <1>3, <1>5, <1>6, <1>7, JobEdit
<1>9. j \in Jobs
  <2>1. jobs \in Seq(Job) /\ Len(jobs) <= MaxJobs /\ MaxJobs \in Nat
    BY SendAssumption DEF TypeInv, JobInv, TypeOK
  <2> QED
    BY <2>1 DEF Jobs
<1> QED
  BY <1>4, <1>8, <1>9 DEF Start, Run, Phase

LEMMA RedeliverKeeps ==
  ASSUME TypeInv, NEW j \in DOMAIN jobs, NEW died \in BOOLEAN, Redeliver(j, died)
  PROVE  JobsTyped' /\ JobsPersist /\ runs' \subseteq runs
<1> DEFINE row == [jobs[j] EXCEPT !.state = "pending"]
<1>1. jobs[j] \in Job
  BY JobRow DEF TypeInv
<1>2. jobs' = [jobs EXCEPT ![j] = row] /\ faults' = faults + 1
  BY DEF Redeliver, Fault
<1>3. row \in Job /\ row.week = jobs[j].week /\ row.version = jobs[j].version
      /\ row.key = jobs[j].key /\ row.attempts = jobs[j].attempts
  BY <1>1 DEF Job
<1>4. jobs[j].attempts \in Nat /\ jobs[j].attempts <= MaxAttempts + faults
  BY <1>1 DEF TypeInv, JobInv, Job
<1>5. FaultsKept
  BY <1>2, SendAssumption DEF FaultsKept, TypeInv, TypeOK
<1>6. row.attempts <= MaxAttempts + faults' /\ row.attempts < MaxAttempts + faults'
  BY <1>2, <1>3, <1>4, <1>5, SendAssumption DEF FaultsKept
<1> HIDE DEF row
<1>7. JobsTyped' /\ JobsPersist
  BY <1>2, <1>3, <1>5, <1>6, JobEdit
<1> QED
  BY <1>7 DEF Redeliver


\* What a step of a run leaves of the runs: at most the same one in a later phase.
LEMMA RunStepKeeps ==
  ASSUME TypeInv, NEW x \in runs, RunStep(x)
  PROVE  /\ JobsTyped' /\ JobsPersist
         /\ \A y \in runs' : \/ y \in runs
                             \/ \E p \in Phase : y = [x EXCEPT !.phase = p]
<1>1. FaultsKept
  BY SendAssumption DEF FaultsKept, TypeInv, TypeOK, RunStep, LastLook, ProviderAccepts,
     ProviderFails, RecordFailure, RecordDelivery, RecordLost, Fault
<1>2. CASE LastLook(x)
  <2>1. CASE MayDeliver(x.job)
    BY <1>1, <1>2, <2>1, JobKept DEF LastLook, Advance, Phase
  <2>2. CASE ~ MayDeliver(x.job)
    BY <1>1, <1>2, <2>2, SettledKeeps DEF LastLook
  <2> QED
    BY <2>1, <2>2
<1>3. CASE ProviderAccepts(x)
  BY <1>1, <1>3, JobKept DEF ProviderAccepts, Advance, Phase
<1>4. CASE \E taken \in BOOLEAN : ProviderFails(x, taken)
  BY <1>1, <1>4, JobKept DEF ProviderFails, Advance, Phase
<1>5. AfterThrow(x.att) \in {"pending", "done", "dead"}
      /\ (AfterThrow(x.att) = "pending" => x.att < MaxAttempts)
  BY SendAssumption DEF AfterThrow, TypeInv, TypeOK, Run
<1>6. CASE RecordFailure(x) \/ RecordLost(x)
  <2>1. jobs' = Settled(x, AfterThrow(x.att)) /\ runs' = runs \ {x}
    BY <1>6 DEF RecordFailure, RecordLost
  <2> QED
    BY <1>1, <1>5, <2>1, SettledKeeps
<1>7. CASE RecordDelivery(x)
  <2>1. jobs' = Settled(x, "done") /\ runs' = runs \ {x}
    BY <1>7 DEF RecordDelivery
  <2> QED
    BY <1>1, <2>1, SettledKeeps
<1> QED
  BY <1>2, <1>3, <1>4, <1>6, <1>7 DEF RunStep

\* The runs stay runs of queued jobs.
LEMMA RunsKeepType ==
  ASSUME TypeInv, JobsTyped', JobsPersist, NEW x \in runs,
         \A y \in runs' : y \in runs \/ \E p \in Phase : y = [x EXCEPT !.phase = p]
  PROVE  \A y \in runs' : y \in Run /\ y.job \in DOMAIN jobs'
<1>1. x \in Run /\ x.job \in DOMAIN jobs'
  BY DEF TypeInv, TypeOK, JobInv, JobsPersist
<1>2. \A p \in Phase : [x EXCEPT !.phase = p] \in Run /\ [x EXCEPT !.phase = p].job = x.job
  BY <1>1 DEF Run
<1>3. \A y \in runs : y \in Run /\ y.job \in DOMAIN jobs'
  BY DEF TypeInv, TypeOK, JobInv, JobsPersist
<1> QED
  BY <1>1, <1>2, <1>3

-----------------------------------------------------------------------------
(* What a step does to a report *)

\* The alternatives of a step, by name.
Inserts(w, n) == Draft(w, n) \/ \E source \in Versions : Correct(w, source, n)
RecordsResult(x) == RecordFailure(x) \/ RecordDelivery(x)

LEMMA SendCases ==
  ASSUME SendNext
  PROVE  \/ \E w \in Weeks, n \in Versions :
              \/ Inserts(w, n) \/ Send(w, n) \/ Delete(w, n)
              \/ \E acknowledged \in BOOLEAN : Retry(w, n, acknowledged)
         \/ \E j \in DOMAIN jobs : Start(j) \/ \E died \in BOOLEAN : Redeliver(j, died)
         \/ \E x \in runs : RunStep(x)
         \/ \E r \in Reports : Bounce(r) \/ Age(r)
         \/ \E k \in remembered : Forget(k)
BY DEF SendNext, DeliveryNext, ServerStep, OutsideStep, Inserts

\* A step changes no report, one, or (a send) the one it sends and those it supersedes.
LEMMA InsertReport ==
  ASSUME TypeInv, NEW w \in Weeks, NEW n \in Versions, Inserts(w, n)
  PROVE  /\ IsNextVersion(w, n)
         /\ report' = [report EXCEPT ![<<w, n>>] =
                         [NoReport EXCEPT !.status = "approved", !.active = TRUE]]
         /\ [NoReport EXCEPT !.status = "approved", !.active = TRUE] \in Report
         /\ UNCHANGED <<jobs, runs, remembered, copies, excused, clock, faults>>
<1>1. MaxVersion \in Nat
  BY SendAssumption
<1>2. NoReport \in Report /\ 0 \in Nat /\ 0 \in 0 .. MaxVersion
  BY <1>1 DEF NoReport, Report
<1>3. [NoReport EXCEPT !.status = "approved", !.active = TRUE] \in Report
  BY <1>2, ReportEdits, Zenon
<1> QED
  BY <1>3 DEF Inserts, Draft, Correct, Insert

LEMMA SendReport ==
  ASSUME TypeInv, NEW w \in Weeks, NEW n \in Versions, Send(w, n)
  PROVE  report' \in [Reports -> Report]
<1> SUFFICES ASSUME NEW r \in Reports PROVE report'[r] \in Report
  BY DEF Send
<1>1. report[r] \in Report /\ clock \in Nat /\ n \in Nat /\ n \in 0 .. MaxVersion
  BY SendAssumption DEF TypeInv, TypeOK, Versions
<1>2. PICK b \in BOOLEAN : b = PriorReached(w, n)
  BY DEF PriorReached
<1>3. CASE r = <<w, n>>
  <2>1. report'[r] = SentRow(report[r], n, b, clock)
    BY <1>2, <1>3 DEF Send, SentRow
  <2> QED
    BY <1>1, <2>1, SentRowType
<1>4. CASE r # <<w, n>>
  <2>1. report'[r] = report[r] \/ report'[r] = [report[r] EXCEPT !.supersededBy = n]
    BY <1>4 DEF Send
  <2> QED
    BY <1>1, <2>1, SupersededType
<1> QED
  BY <1>3, <1>4

\* The columns that say where a report stands stay as they are.
Stays(r) ==
  /\ report'[r].status = report[r].status
  /\ report'[r].active = report[r].active
  /\ report'[r].supersededBy = report[r].supersededBy
  /\ report'[r].isCorrection = report[r].isCorrection
  /\ report'[r].key = report[r].key

\* So do the columns that say what became of its message.
MailStays(r) ==
  /\ report'[r].delivered = report[r].delivered
  /\ report'[r].failed = report[r].failed
  /\ report'[r].bounced = report[r].bounced
  /\ report'[r].aged = report[r].aged

\* What a step that is no insert, send or delete does to the second kind: they
\* only gain, and a delivery is stamped by a run whose message was accepted.
MailGrows(r) ==
  /\ report[r].bounced => report'[r].bounced
  /\ report[r].aged => report'[r].aged
  /\ report[r].delivered => report'[r].delivered
  /\ report'[r].delivered =>
       \/ report[r].delivered /\ (report'[r].failed => report[r].failed)
       \/ /\ ~ report'[r].failed
          /\ \E x \in runs : x.phase = "accepted" /\ Subject(x.job) = r

LEMMA RowEdit ==
  ASSUME TypeInv, NEW r \in Reports, NEW row \in Report,
         report' = [report EXCEPT ![r] = row]
  PROVE  /\ report' \in [Reports -> Report]
         /\ report'[r] = row
         /\ \A q \in Reports : q # r => report'[q] = report[q]
BY DEF TypeInv, TypeOK

\* The steps of which MailGrows speaks.
TameStep ==
  \/ \E w \in Weeks, n \in Versions, acknowledged \in BOOLEAN : Retry(w, n, acknowledged)
  \/ \E j \in DOMAIN jobs : Start(j) \/ \E died \in BOOLEAN : Redeliver(j, died)
  \/ \E x \in runs : RunStep(x)
  \/ \E r \in Reports : Bounce(r) \/ Age(r)
  \/ \E k \in remembered : Forget(k)

LEMMA TameReports ==
  ASSUME TypeInv, TameStep
  PROVE  /\ report' \in [Reports -> Report]
         /\ \A q \in Reports : Stays(q) /\ MailGrows(q)
<1>0. report \in [Reports -> Report] /\ clock \in Nat
  BY DEF TypeInv, TypeOK
<1>1. CASE report' = report
  BY <1>0, <1>1 DEF Stays, MailGrows
<1>2. ASSUME NEW r \in Reports, NEW row \in Report, report' = [report EXCEPT ![r] = row],
             row.status = report[r].status, row.active = report[r].active,
             row.supersededBy = report[r].supersededBy,
             row.isCorrection = report[r].isCorrection, row.key = report[r].key,
             report[r].bounced => row.bounced, report[r].aged => row.aged,
             report[r].delivered => row.delivered,
             row.delivered =>
               \/ report[r].delivered /\ (row.failed => report[r].failed)
               \/ /\ ~ row.failed
                  /\ \E x \in runs : x.phase = "accepted" /\ Subject(x.job) = r
      PROVE  /\ report' \in [Reports -> Report]
             /\ \A q \in Reports : Stays(q) /\ MailGrows(q)
  <2>1. /\ report' \in [Reports -> Report]
        /\ report'[r] = row
        /\ \A q \in Reports : q # r => report'[q] = report[q]
    BY <1>2, RowEdit
  <2>2. Stays(r) /\ MailGrows(r)
    BY <1>2, <2>1 DEF Stays, MailGrows
  <2>3. \A q \in Reports : q # r => Stays(q) /\ MailGrows(q)
    BY <2>1 DEF Stays, MailGrows
  <2> QED
    BY <2>1, <2>2, <2>3
<1>3. ASSUME NEW w \in Weeks, NEW n \in Versions, NEW acknowledged \in BOOLEAN,
             Retry(w, n, acknowledged)
      PROVE  /\ report' \in [Reports -> Report]
             /\ \A q \in Reports : Stays(q) /\ MailGrows(q)
  <2> DEFINE r == <<w, n>>
             row == Retried(r)
  <2>1. r \in Reports /\ report[r] \in Report
    BY <1>0 DEF Reports
  <2>2. row \in Report
    BY <1>0, <2>1, ReportTimes DEF Retried
  <2>3. report' = [report EXCEPT ![r] = row]
    BY <1>3 DEF Retry
  <2>4. /\ row.status = report[r].status /\ row.active = report[r].active
        /\ row.supersededBy = report[r].supersededBy
        /\ row.isCorrection = report[r].isCorrection /\ row.key = report[r].key
        /\ row.bounced = report[r].bounced /\ row.aged = report[r].aged
        /\ row.delivered = report[r].delivered /\ row.failed = FALSE
    BY <2>1 DEF Retried, Report
  <2> HIDE DEF row, r
  <2> QED
    BY <1>2, <2>1, <2>2, <2>3, <2>4
<1>4. ASSUME NEW x \in runs, RecordFailure(x)
      PROVE  /\ report' \in [Reports -> Report]
             /\ \A q \in Reports : Stays(q) /\ MailGrows(q)
  <2> DEFINE r == Subject(x.job)
             row == [report[r] EXCEPT !.failed = TRUE, !.activity = clock, !.quiet = FALSE]
  <2>1. r \in Reports /\ report[r] \in Report
    BY <1>0, JobRow DEF TypeInv, JobInv
  <2>2. row \in Report
    BY <1>0, <2>1, ReportTimes
  <2>3. report' = report \/ (report' = [report EXCEPT ![r] = row] /\ ~ report[r].delivered)
    BY <1>4 DEF RecordFailure, FailureCounts
  <2>4. /\ row.status = report[r].status /\ row.active = report[r].active
        /\ row.supersededBy = report[r].supersededBy
        /\ row.isCorrection = report[r].isCorrection /\ row.key = report[r].key
        /\ row.bounced = report[r].bounced /\ row.aged = report[r].aged
        /\ row.delivered = report[r].delivered
    BY <2>1 DEF Report
  <2> HIDE DEF row, r
  <2> QED
    BY <1>1, <1>2, <2>1, <2>2, <2>3, <2>4
<1>5. ASSUME NEW x \in runs, RecordDelivery(x)
      PROVE  /\ report' \in [Reports -> Report]
             /\ \A q \in Reports : Stays(q) /\ MailGrows(q)
  <2> DEFINE r == Subject(x.job)
             row == [report[r] EXCEPT !.delivered = TRUE, !.failed = FALSE,
                                      !.activity = clock, !.quiet = FALSE]
  <2>1. r \in Reports /\ report[r] \in Report
    BY <1>0, JobRow DEF TypeInv, JobInv
  <2>2. row \in Report
    BY <1>0, <2>1, ReportTimes
  <2>3. report' = report \/ report' = [report EXCEPT ![r] = row]
    BY <1>5 DEF RecordDelivery
  <2>4. /\ row.status = report[r].status /\ row.active = report[r].active
        /\ row.supersededBy = report[r].supersededBy
        /\ row.isCorrection = report[r].isCorrection /\ row.key = report[r].key
        /\ row.bounced = report[r].bounced /\ row.aged = report[r].aged
        /\ row.delivered = TRUE /\ row.failed = FALSE
    BY <2>1 DEF Report
  <2>5. \E y \in runs : y.phase = "accepted" /\ Subject(y.job) = r
    BY <1>5 DEF RecordDelivery
  <2> HIDE DEF row, r
  <2> QED
    BY <1>1, <1>2, <2>1, <2>2, <2>3, <2>4, <2>5
<1>6. ASSUME NEW r \in Reports, Bounce(r) \/ Age(r)
      PROVE  /\ report' \in [Reports -> Report]
             /\ \A q \in Reports : Stays(q) /\ MailGrows(q)
  <2>1. report[r] \in Report
    BY <1>0
  <2>2. PICK row \in Report :
          /\ report' = [report EXCEPT ![r] = row]
          /\ row = [report[r] EXCEPT !.bounced = TRUE] \/ row = [report[r] EXCEPT !.aged = TRUE]
    BY <1>6, <2>1, ReportEdits DEF Bounce, Age
  <2>3. /\ row.status = report[r].status /\ row.active = report[r].active
        /\ row.supersededBy = report[r].supersededBy
        /\ row.isCorrection = report[r].isCorrection /\ row.key = report[r].key
        /\ report[r].bounced => row.bounced
        /\ report[r].aged => row.aged
        /\ row.delivered = report[r].delivered /\ row.failed = report[r].failed
    BY <2>1, <2>2 DEF Report
  <2> QED
    BY <1>2, <2>2, <2>3
<1> QED
  BY <1>1, <1>3, <1>4, <1>5, <1>6 DEF TameStep, RunStep, Start, Redeliver, LastLook,
     ProviderAccepts, ProviderFails, RecordLost, Forget

\* What the other three do, column by column.
LEMMA InsertEffect ==
  ASSUME TypeInv, NEW w \in Weeks, NEW n \in Versions, Inserts(w, n)
  PROVE  /\ report' \in [Reports -> Report]
         /\ \A q \in Reports : q # <<w, n>> => report'[q] = report[q]
         /\ report[<<w, n>>].status = "absent"
         /\ \A m \in Existing(w) : m < n
         /\ report'[<<w, n>>].status = "approved"
         /\ report'[<<w, n>>].supersededBy = 0
         /\ ~ report'[<<w, n>>].delivered
<1>1. <<w, n>> \in Reports /\ n \in Nat
  BY SendAssumption DEF Reports, Versions
<1>2. \A m \in Existing(w) : m < n
  BY InsertReport DEF IsNextVersion
<1>3. report[<<w, n>>].status = "absent"
  BY <1>1, <1>2 DEF Existing
<1>4. PICK row \in Report :
        /\ row = [NoReport EXCEPT !.status = "approved", !.active = TRUE]
        /\ report' = [report EXCEPT ![<<w, n>>] = row]
  BY InsertReport
<1>5. row.status = "approved" /\ row.supersededBy = 0 /\ ~ row.delivered
  BY <1>4 DEF NoReport
<1> QED
  BY <1>1, <1>2, <1>3, <1>4, <1>5, RowEdit

LEMMA SendEffect ==
  ASSUME TypeInv, NEW w \in Weeks, NEW n \in Versions, Send(w, n)
  PROVE  /\ report' \in [Reports -> Report]
         /\ \A q \in Reports : MailStays(q) /\ report'[q].active = report[q].active
         /\ \A q \in Reports :
              q # <<w, n>> => /\ report'[q].status = report[q].status
                              /\ report'[q].key = report[q].key
                              /\ report'[q].isCorrection = report[q].isCorrection
         /\ report[<<w, n>>].status = "approved"
         /\ report'[<<w, n>>].status = "sent"
         /\ report'[<<w, n>>].key = n
         /\ report'[<<w, n>>].supersededBy = report[<<w, n>>].supersededBy
         /\ \A q \in Reports :
              report'[q].supersededBy =
                IF q[1] = w /\ q[2] \in Superseded(w, n) THEN n ELSE report[q].supersededBy
<1>1. \A q \in Reports : report[q] \in Report
  BY DEF TypeInv, TypeOK
<1>2. <<w, n>> \in Reports
  BY DEF Reports
<1>3. n \notin Superseded(w, n)
  BY SendAssumption DEF Superseded, Versions
<1>4. report'[<<w, n>>] = SentRow(report[<<w, n>>], n, PriorReached(w, n), clock)
  BY <1>2 DEF Send, SentRow
<1>5. LET s == SentRow(report[<<w, n>>], n, PriorReached(w, n), clock)
          r == report[<<w, n>>]
      IN  /\ s.status = "sent" /\ s.key = n /\ s.isCorrection = PriorReached(w, n)
          /\ s.active = r.active /\ s.supersededBy = r.supersededBy
          /\ s.delivered = r.delivered /\ s.failed = r.failed
          /\ s.bounced = r.bounced /\ s.aged = r.aged
  BY <1>1, <1>2 DEF SentRow, Report
<1>6. ASSUME NEW q \in Reports, q # <<w, n>>
      PROVE  report'[q] = IF q[1] = w /\ q[2] \in Superseded(w, n)
                          THEN SupersededRow(report[q], n)
                          ELSE report[q]
  BY <1>6 DEF Send, SupersededRow
<1>7. ASSUME NEW q \in Reports
      PROVE  LET s == SupersededRow(report[q], n)
                 r == report[q]
             IN  /\ s.status = r.status /\ s.key = r.key
                 /\ s.isCorrection = r.isCorrection
                 /\ s.active = r.active /\ s.supersededBy = n
                 /\ s.delivered = r.delivered /\ s.failed = r.failed
                 /\ s.bounced = r.bounced /\ s.aged = r.aged
  BY <1>1 DEF Report, SupersededRow
<1>8. report' \in [Reports -> Report]
  BY SendReport
<1>9. report[<<w, n>>].status = "approved"
  BY DEF Send
<1>10. \A q \in Reports : q # <<w, n>> =>
         /\ MailStays(q) /\ report'[q].active = report[q].active
         /\ report'[q].status = report[q].status
         /\ report'[q].key = report[q].key
         /\ report'[q].isCorrection = report[q].isCorrection
         /\ report'[q].supersededBy =
              IF q[1] = w /\ q[2] \in Superseded(w, n) THEN n ELSE report[q].supersededBy
  BY <1>6, <1>7 DEF MailStays
<1>11. MailStays(<<w, n>>) /\ report'[<<w, n>>].active = report[<<w, n>>].active
  BY <1>4, <1>5 DEF MailStays
<1>12. /\ report'[<<w, n>>].status = "sent"
       /\ report'[<<w, n>>].key = n
       /\ report'[<<w, n>>].supersededBy = report[<<w, n>>].supersededBy
  BY <1>4, <1>5
<1> HIDE DEF PriorReached
<1> QED
  BY <1>3, <1>8, <1>9, <1>10, <1>11, <1>12

\* The same for the versions of one week, one column at a time.
LEMMA SendStatus ==
  ASSUME TypeInv, NEW v \in Weeks, NEW k \in Versions, Send(v, k), NEW q \in Reports
  PROVE  /\ report'[q].active = report[q].active
         /\ q # <<v, k>> => report'[q].status = report[q].status
         /\ q # <<v, k>> => report'[q].isCorrection = report[q].isCorrection
         /\ report[<<v, k>>].status = "approved"
         /\ report[<<v, k>>].active
BY SendEffect DEF Send

LEMMA SendSupersedes ==
  ASSUME TypeInv, NEW v \in Weeks, NEW k \in Versions, Send(v, k),
         NEW w \in Weeks, NEW m \in Versions
  PROVE  /\ report'[<<w, m>>].supersededBy \in {k, report[<<w, m>>].supersededBy}
         /\ w = v /\ m \in Superseded(v, k) => report'[<<w, m>>].supersededBy = k
<1>1. <<w, m>> \in Reports /\ <<w, m>>[1] = w /\ <<w, m>>[2] = m /\ <<v, k>> \in Reports
  BY DEF Reports
<1>2. CASE <<w, m>> = <<v, k>>
  <2>1. m \notin Superseded(v, k)
    BY <1>2, SendAssumption DEF Superseded, Versions
  <2> QED
    BY <1>2, <2>1, SendEffect
<1>3. CASE <<w, m>> # <<v, k>>
  <2>1. report'[<<w, m>>] = IF w = v /\ m \in Superseded(v, k)
                            THEN SupersededRow(report[<<w, m>>], k)
                            ELSE report[<<w, m>>]
    BY <1>1, <1>3 DEF Send, SupersededRow
  <2>2. report[<<w, m>>] \in Report
    BY <1>1 DEF TypeInv, TypeOK
  <2>3. SupersededRow(report[<<w, m>>], k).supersededBy = k
    BY <2>2 DEF SupersededRow, Report
  <2> QED
    BY <2>1, <2>3
<1> QED
  BY <1>2, <1>3

LEMMA SendAdmits ==
  ASSUME TypeInv, NEW v \in Weeks, NEW k \in Versions, Send(v, k)
  PROVE  report'[<<v, k>>].isCorrection <=> PriorReached(v, k)
<1>1. <<v, k>> \in Reports /\ report[<<v, k>>] \in Report
  BY DEF Reports, TypeInv, TypeOK
<1>2. PICK b \in BOOLEAN : b <=> PriorReached(v, k)
  OBVIOUS
<1>3. report'[<<v, k>>] = SentRow(report[<<v, k>>], k, b, clock)
  BY <1>1, <1>2 DEF Send, SentRow, PriorReached
<1>4. SentRow(report[<<v, k>>], k, b, clock).isCorrection = b
  BY <1>1 DEF SentRow, Report
<1> QED
  BY <1>2, <1>3, <1>4

LEMMA DeleteEffect ==
  ASSUME TypeInv, NEW w \in Weeks, NEW n \in Versions, Delete(w, n)
  PROVE  /\ report' \in [Reports -> Report]
         /\ \A q \in Reports : /\ MailStays(q)
                               /\ report'[q].status = report[q].status
                               /\ report'[q].key = report[q].key
                               /\ report'[q].isCorrection = report[q].isCorrection
                               /\ report'[q].supersededBy = report[q].supersededBy
                               /\ report'[q].active = (report[q].active /\ q # <<w, n>>)
<1>1. <<w, n>> \in Reports /\ report[<<w, n>>] \in Report
  BY DEF Reports, TypeInv, TypeOK
<1>2. PICK row \in Report : /\ row = [report[<<w, n>>] EXCEPT !.active = FALSE]
                            /\ report' = [report EXCEPT ![<<w, n>>] = row]
  BY <1>1, ReportEdits DEF Delete
<1>3. /\ row.status = report[<<w, n>>].status /\ row.key = report[<<w, n>>].key
      /\ row.isCorrection = report[<<w, n>>].isCorrection
      /\ row.supersededBy = report[<<w, n>>].supersededBy
      /\ row.delivered = report[<<w, n>>].delivered
      /\ row.failed = report[<<w, n>>].failed
      /\ row.bounced = report[<<w, n>>].bounced /\ row.aged = report[<<w, n>>].aged
      /\ row.active = FALSE
  BY <1>1, <1>2 DEF Report
<1>4. /\ report' \in [Reports -> Report]
      /\ report'[<<w, n>>] = row
      /\ \A q \in Reports : q # <<w, n>> => report'[q] = report[q]
  BY <1>1, <1>2, RowEdit
<1>5. \A q \in Reports : report[q].active \in BOOLEAN
  BY DEF TypeInv, TypeOK, Report
<1> QED
  BY <1>3, <1>4, <1>5 DEF MailStays

-----------------------------------------------------------------------------
(* What a step does to the provider's side *)

\* A message goes out only by a run past its last look, under a key the
\* provider does not recognise, and a key is forgotten only when it has aged.
LEMMA MailStep ==
  ASSUME TypeInv, SendNext
  PROVE  /\ copies' \in [Reports -> Nat] /\ remembered' \subseteq Reports \X Nat
         /\ \A r \in Reports :
              \/ copies'[r] = copies[r]
              \/ /\ copies'[r] = copies[r] + 1
                 /\ \E x \in runs : /\ x.phase = "looked" /\ Subject(x.job) = r
                                    /\ <<r, jobs[x.job].key>> \notin remembered
                                    /\ <<r, jobs[x.job].key>> \in remembered'
         /\ \A k \in remembered : k \in remembered' \/ report[k[1]].aged
         /\ \A k \in remembered' :
              \/ k \in remembered
              \/ copies'[k[1]] > 0
<1>0. copies \in [Reports -> Nat] /\ remembered \subseteq Reports \X Nat
  BY DEF TypeInv, TypeOK
<1>1. CASE copies' = copies /\ remembered' = remembered
  BY <1>0, <1>1
<1>2. ASSUME NEW x \in runs, x.phase = "looked", Taken(x)
      PROVE  /\ copies' \in [Reports -> Nat] /\ remembered' \subseteq Reports \X Nat
             /\ \A r \in Reports :
                  \/ copies'[r] = copies[r]
                  \/ /\ copies'[r] = copies[r] + 1
                     /\ x.phase = "looked" /\ Subject(x.job) = r
                     /\ <<r, jobs[x.job].key>> \notin remembered
                     /\ <<r, jobs[x.job].key>> \in remembered'
             /\ \A k \in remembered : k \in remembered' \/ report[k[1]].aged
             /\ \A k \in remembered' :
                  \/ k \in remembered
                  \/ copies'[k[1]] > 0
  <2> DEFINE r == Subject(x.job)
             key == jobs[x.job].key
  <2>1. r \in Reports /\ key \in Nat
    BY JobRow DEF TypeInv, JobInv, Job
  <2>2. /\ remembered' = remembered \cup {<<r, key>>}
        /\ copies' = IF <<r, key>> \in remembered THEN copies
                     ELSE [copies EXCEPT ![r] = copies[r] + 1]
    BY <1>2 DEF Taken, IdempotencyKey
  <2> HIDE DEF r, key
  <2>3. /\ copies' \in [Reports -> Nat]
        /\ \A q \in Reports : \/ copies'[q] = copies[q]
                              \/ copies'[q] = copies[q] + 1 /\ q = r /\ <<r, key>> \notin remembered
    BY <1>0, <2>1, <2>2
  <2>4. copies'[r] > 0 \/ <<r, key>> \in remembered
    BY <1>0, <2>1, <2>2
  <2> QED
    BY <1>0, <1>2, <2>1, <2>2, <2>3, <2>4 DEF r, key
<1>3. CASE \E x \in runs : \/ ProviderAccepts(x)
                           \/ \E taken \in BOOLEAN : ProviderFails(x, taken)
  <2>1. PICK x \in runs : \/ ProviderAccepts(x)
                          \/ \E taken \in BOOLEAN : ProviderFails(x, taken)
    BY <1>3
  <2>2. x.phase = "looked" /\ (Taken(x) \/ (copies' = copies /\ remembered' = remembered))
    BY <2>1 DEF ProviderAccepts, ProviderFails
  <2> QED
    BY <1>0, <1>2, <2>2
<1>4. CASE \E k \in remembered : Forget(k)
  BY <1>0, <1>4 DEF Forget
<1>5. CASE \E w \in Weeks, n \in Versions :
             \/ Inserts(w, n) \/ Send(w, n) \/ Delete(w, n)
             \/ \E acknowledged \in BOOLEAN : Retry(w, n, acknowledged)
  BY <1>1, <1>5, InsertReport DEF Send, Delete, Retry
<1>6. CASE \E j \in DOMAIN jobs : Start(j) \/ \E died \in BOOLEAN : Redeliver(j, died)
  BY <1>1, <1>6 DEF Start, Redeliver
<1>7. CASE \E x \in runs : LastLook(x) \/ RecordFailure(x) \/ RecordDelivery(x) \/ RecordLost(x)
  BY <1>1, <1>7 DEF LastLook, RecordFailure, RecordDelivery, RecordLost
<1>8. CASE \E r \in Reports : Bounce(r) \/ Age(r)
  BY <1>1, <1>8 DEF Bounce, Age
<1> QED
  BY <1>3, <1>4, <1>5, <1>6, <1>7, <1>8, SendCases DEF RunStep

-----------------------------------------------------------------------------
(* Type correctness of a step *)

LEMMA QueueStep ==
  ASSUME TypeInv, SendNext
  PROVE  JobsTyped' /\ JobsPersist /\ \A y \in runs' : y \in Run /\ y.job \in DOMAIN jobs'
<1>1. \A y \in runs : y \in Run /\ y.job \in DOMAIN jobs
  BY DEF TypeInv, TypeOK, JobInv
<1>2. faults \in Nat
  BY SendAssumption DEF TypeInv, TypeOK
<1>3. CASE \E w \in Weeks, n \in Versions : Inserts(w, n) \/ Delete(w, n)
  <2>1. jobs' = jobs /\ runs' = runs /\ faults' = faults
    BY <1>3, InsertReport DEF Delete
  <2> QED
    BY <1>1, <1>2, <2>1, JobKept DEF FaultsKept
<1>4. CASE \E w \in Weeks, n \in Versions :
             Send(w, n) \/ \E acknowledged \in BOOLEAN : Retry(w, n, acknowledged)
  <2>1. PICK w \in Weeks, n \in Versions :
          Send(w, n) \/ \E acknowledged \in BOOLEAN : Retry(w, n, acknowledged)
    BY <1>4
  <2>2. PICK key \in Nat : QueueJob(w, n, key)
    <3>0. <<w, n>> \in Reports /\ n \in Nat
      BY SendAssumption DEF Reports, Versions
    <3>1. report[<<w, n>>].key \in Nat /\ n \in Nat
      BY <3>0, ReportRow DEF Report
    <3> QED
      BY <2>1, <3>1 DEF Send, Retry
  <2>3. runs' = runs /\ faults' = faults
    BY <2>1 DEF Send, Retry
  <2>4. FaultsKept
    BY <1>2, <2>3 DEF FaultsKept
  <2>5. JobsTyped' /\ JobsPersist
    BY <2>2, <2>4, JobAdded
  <2> QED
    BY <1>1, <2>3, <2>5 DEF JobsPersist
<1>5. CASE \E j \in DOMAIN jobs : Start(j)
  <2>1. PICK j \in DOMAIN jobs : Start(j)
    BY <1>5
  <2>2. /\ JobsTyped' /\ JobsPersist
        /\ runs' \subseteq runs \cup {[job |-> j, att |-> jobs[j].attempts + 1, phase |-> "render"]}
        /\ [job |-> j, att |-> jobs[j].attempts + 1, phase |-> "render"] \in Run
    BY <2>1, StartKeeps
  <2> QED
    BY <1>1, <2>2 DEF JobsPersist
<1>6. CASE \E j \in DOMAIN jobs, died \in BOOLEAN : Redeliver(j, died)
  <2>1. JobsTyped' /\ JobsPersist /\ runs' \subseteq runs
    BY <1>6, RedeliverKeeps
  <2> QED
    BY <1>1, <2>1 DEF JobsPersist
<1>7. CASE \E x \in runs : RunStep(x)
  BY <1>7, RunStepKeeps, RunsKeepType
<1>8. CASE (\E r \in Reports : Bounce(r) \/ Age(r)) \/ \E k \in remembered : Forget(k)
  <2>1. jobs' = jobs /\ runs' = runs /\ faults' = faults
    BY <1>8 DEF Bounce, Age, Forget
  <2> QED
    BY <1>1, <1>2, <2>1, JobKept DEF FaultsKept
<1> QED
  BY <1>3, <1>4, <1>5, <1>6, <1>7, <1>8, SendCases

\* The other steps of the model than inserts, sends and deletes.
LEMMA TameCases ==
  ASSUME SendNext
  PROVE  \/ \E w \in Weeks, n \in Versions : Inserts(w, n) \/ Send(w, n) \/ Delete(w, n)
         \/ TameStep
BY SendCases DEF TameStep

LEMMA SendTypeInit == Init => TypeInv
<1> SUFFICES ASSUME Init PROVE TypeInv
  OBVIOUS
<1>1. NoReport \in Report
  BY SendAssumption DEF NoReport, Report
<1> QED
  BY <1>1, SendAssumption DEF Init, TypeInv, TypeOK, JobInv

LEMMA SendTypeStep == TypeInv /\ [SendNext]_sendVars => TypeInv'
<1> SUFFICES ASSUME TypeInv, [SendNext]_sendVars PROVE TypeInv'
  OBVIOUS
<1>1. CASE UNCHANGED sendVars
  BY <1>1 DEF sendVars, TypeInv, TypeOK, JobInv
<1>2. CASE SendNext
  <2>1. JobsTyped' /\ \A y \in runs' : y \in Run /\ y.job \in DOMAIN jobs'
    BY <1>2, QueueStep
  <2>2. report' \in [Reports -> Report]
    BY <1>2, TameCases, TameReports, InsertEffect, SendEffect, DeleteEffect
  <2>3. copies' \in [Reports -> Nat] /\ remembered' \subseteq Reports \X Nat
    BY <1>2, MailStep
  <2>4. excused' \in [Reports -> SUBSET Versions] /\ clock' = clock
        /\ faults' \in 0 .. MaxFaults
    <3>1. excused \in [Reports -> SUBSET Versions] /\ faults \in 0 .. MaxFaults /\ MaxFaults \in Nat
      BY SendAssumption DEF TypeInv, TypeOK
    <3>2. CASE \E w \in Weeks, n \in Versions : Send(w, n)
      BY <3>1, <3>2 DEF Send, OutOfSight, Existing
    <3>3. CASE \E w \in Weeks, n \in Versions : Inserts(w, n) \/ Delete(w, n)
      BY <3>1, <3>3, InsertReport DEF Delete
    <3>4. CASE TameStep
      <4>1. excused' = excused /\ clock' = clock
        BY <3>4 DEF TameStep, Retry, Start, Redeliver, RunStep, LastLook, ProviderAccepts,
           ProviderFails, RecordFailure, RecordDelivery, RecordLost, Bounce, Age, Forget
      <4>2. faults' = faults \/ Fault
        BY <3>4 DEF TameStep, Retry, Start, Redeliver, RunStep, LastLook, ProviderAccepts,
           ProviderFails, RecordFailure, RecordDelivery, RecordLost, Bounce, Age, Forget
      <4> QED
        BY <3>1, <4>1, <4>2 DEF Fault
    <3> QED
      BY <1>2, <3>2, <3>3, <3>4, TameCases
  <2>5. \A j \in DOMAIN jobs' : jobs'[j].attempts <= MaxAttempts + MaxFaults
    <3> SUFFICES ASSUME NEW j \in DOMAIN jobs' PROVE jobs'[j].attempts <= MaxAttempts + MaxFaults
      OBVIOUS
    <3>0. jobs'[j] \in Job
      BY <2>1 DEF JobsTyped
    <3>1. jobs'[j].attempts \in Nat /\ jobs'[j].attempts <= MaxAttempts + faults'
      BY <2>1, <3>0 DEF JobsTyped, Job
    <3> QED
      BY <2>4, <3>1, SendAssumption
  <2> QED
    BY <2>1, <2>2, <2>3, <2>4, <2>5 DEF TypeInv, TypeOK, JobInv, JobsTyped
<1> QED
  BY <1>1, <1>2

\* Reports, jobs, runs and the provider's memory stay in their domains, and a
\* job is claimed no oftener than its attempts and the faults allow.
THEOREM SendTypeCorrect == Spec => []TypeOK
<1>1. TypeInv => TypeOK
  BY DEF TypeInv
<1> QED
  BY <1>1, SendTypeInit, SendTypeStep, PTL DEF Spec

-----------------------------------------------------------------------------
(* The versions of a week *)

\* A version that is still to be sent is the newest of its week.
ApprovedIsLatest ==
  \A w \in Weeks : \A n \in Active(w) :
    report[<<w, n>>].status = "approved" => \A m \in Existing(w) : m <= n

VersionInv == ApprovedIsLatest /\ SuccessorOnFile /\ OneLiveVersion

LEMMA VersionsStay ==
  ASSUME TypeInv, VersionInv, \A q \in Reports : Stays(q)
  PROVE  VersionInv'
<1>1. \A w \in Weeks, n \in Versions : Stays(<<w, n>>)
  BY DEF Reports
<1>2. \A w \in Weeks : /\ Existing(w)' = Existing(w) /\ Active(w)' = Active(w)
                       /\ ActiveSent(w)' = ActiveSent(w)
  BY <1>1 DEF Existing, Active, ActiveSent, Stays
<1>3. \A w \in Weeks : Active(w) \subseteq Versions /\ ActiveSent(w) \subseteq Versions
  BY DEF Existing, Active, ActiveSent
<1> QED
  BY <1>1, <1>2, <1>3 DEF VersionInv, ApprovedIsLatest, SuccessorOnFile, OneLiveVersion, Stays

\* What an insert, a send and a delete make of the sets of versions.
LEMMA InsertVersions ==
  ASSUME TypeInv, NEW w \in Weeks, NEW n \in Versions, Inserts(w, n)
  PROVE  /\ \A v \in Weeks : ActiveSent(v)' = ActiveSent(v)
         /\ \A v \in Weeks \ {w} : Existing(v)' = Existing(v) /\ Active(v)' = Active(v)
         /\ Existing(w)' = Existing(w) \cup {n}
         /\ Active(w)' \subseteq Active(w) \cup {n}
         /\ n \notin Existing(w)
<1>1. /\ report' \in [Reports -> Report]
      /\ \A q \in Reports : q # <<w, n>> => report'[q] = report[q]
      /\ report[<<w, n>>].status = "absent"
      /\ report'[<<w, n>>].status = "approved"
  BY InsertEffect
<1>2. \A v \in Weeks, m \in Versions :
        v # w \/ m # n => report'[<<v, m>>] = report[<<v, m>>]
  BY <1>1 DEF Reports
<1>3. \A v \in Weeks : ActiveSent(v)' = ActiveSent(v)
  BY <1>1, <1>2 DEF ActiveSent, Active, Existing
<1>4. \A v \in Weeks \ {w} : Existing(v)' = Existing(v) /\ Active(v)' = Active(v)
  BY <1>2 DEF Active, Existing
<1>5. Existing(w)' = Existing(w) \cup {n} /\ n \notin Existing(w)
  BY <1>1, <1>2 DEF Existing
<1>6. Active(w)' \subseteq Active(w) \cup {n}
  BY <1>1, <1>2 DEF Active, Existing
<1> QED
  BY <1>3, <1>4, <1>5, <1>6

LEMMA SendVersions ==
  ASSUME TypeInv, NEW w \in Weeks, NEW n \in Versions, Send(w, n)
  PROVE  /\ \A v \in Weeks : Existing(v)' = Existing(v) /\ Active(v)' = Active(v)
         /\ \A v \in Weeks \ {w} : ActiveSent(v)' = ActiveSent(v)
         /\ ActiveSent(w)' = ActiveSent(w) \cup {n}
         /\ n \in Active(w) /\ n \notin ActiveSent(w)
<1>1. /\ \A q \in Reports : report'[q].active = report[q].active
      /\ \A q \in Reports : q # <<w, n>> => report'[q].status = report[q].status
      /\ report[<<w, n>>].status = "approved"
      /\ report'[<<w, n>>].status = "sent"
  BY SendEffect
<1>2. report[<<w, n>>].active
  BY DEF Send
<1>3. \A v \in Weeks, m \in Versions :
        /\ report'[<<v, m>>].active = report[<<v, m>>].active
        /\ v # w \/ m # n => report'[<<v, m>>].status = report[<<v, m>>].status
  BY <1>1 DEF Reports
<1>4. \A v \in Weeks : Existing(v)' = Existing(v) /\ Active(v)' = Active(v)
  BY <1>1, <1>3 DEF Active, Existing
<1>5. \A v \in Weeks \ {w} : ActiveSent(v)' = ActiveSent(v)
  BY <1>3 DEF ActiveSent, Active, Existing
<1>6. ActiveSent(w)' = ActiveSent(w) \cup {n}
  BY <1>1, <1>2, <1>3 DEF ActiveSent, Active, Existing
<1>7. n \in Active(w) /\ n \notin ActiveSent(w)
  BY <1>1, <1>2 DEF ActiveSent, Active, Existing
<1> QED
  BY <1>4, <1>5, <1>6, <1>7

LEMMA DeleteVersions ==
  ASSUME TypeInv, NEW w \in Weeks, NEW n \in Versions, Delete(w, n)
  PROVE  /\ \A v \in Weeks : Existing(v)' = Existing(v)
         /\ \A v \in Weeks \ {w} : Active(v)' = Active(v) /\ ActiveSent(v)' = ActiveSent(v)
         /\ Active(w)' = Active(w) \ {n}
         /\ ActiveSent(w)' = ActiveSent(w) \ {n}
<1>1. \A q \in Reports : /\ report'[q].status = report[q].status
                         /\ report'[q].active = (report[q].active /\ q # <<w, n>>)
  BY DeleteEffect
<1>2. \A v \in Weeks, m \in Versions :
        /\ report'[<<v, m>>].status = report[<<v, m>>].status
        /\ report'[<<v, m>>].active <=> report[<<v, m>>].active /\ (v # w \/ m # n)
  BY <1>1 DEF Reports
<1>3. \A v \in Weeks : Existing(v)' = Existing(v)
  BY <1>2 DEF Existing
<1>4. \A v \in Weeks \ {w} : Active(v)' = Active(v) /\ ActiveSent(v)' = ActiveSent(v)
  BY <1>2 DEF Active, ActiveSent, Existing
<1>5. Active(w)' = Active(w) \ {n} /\ ActiveSent(w)' = ActiveSent(w) \ {n}
  BY <1>2 DEF Active, ActiveSent, Existing
<1> QED
  BY <1>3, <1>4, <1>5

LEMMA InsertKeepsVersions ==
  ASSUME TypeInv, VersionInv, NEW w \in Weeks, NEW n \in Versions, Inserts(w, n)
  PROVE  VersionInv'
<1>1. /\ \A q \in Reports : q # <<w, n>> => report'[q] = report[q]
      /\ \A m \in Existing(w) : m < n
      /\ report'[<<w, n>>].supersededBy = 0
  BY InsertEffect
<1>2. /\ \A v \in Weeks : ActiveSent(v)' = ActiveSent(v)
      /\ \A v \in Weeks \ {w} : Existing(v)' = Existing(v) /\ Active(v)' = Active(v)
      /\ Existing(w)' = Existing(w) \cup {n}
      /\ Active(w)' \subseteq Active(w) \cup {n}
      /\ n \notin Existing(w)
  BY InsertVersions
<1>3. \A v \in Weeks : /\ Active(v) \subseteq Existing(v) /\ Existing(v) \subseteq Versions
                       /\ ActiveSent(v) \subseteq Active(v)
  BY DEF Active, Existing, ActiveSent
<1>4. \A v \in Weeks : \A m \in Existing(v) : report'[<<v, m>>] = report[<<v, m>>]
  BY <1>1, <1>2, <1>3 DEF Reports
<1>5. \A m \in Active(w) : report[<<w, m>>].status # "approved"
  <2> SUFFICES ASSUME NEW m \in Active(w), report[<<w, m>>].status = "approved" PROVE FALSE
    OBVIOUS
  <2>1. \A k \in Existing(w) : k <= m
    BY DEF VersionInv, ApprovedIsLatest
  <2>2. PICK source \in ActiveSent(w) : \A k \in Active(w) : k <= source
    BY DEF Inserts, Draft, Correct
  <2>3. source \in Existing(w) /\ source \in Nat /\ m \in Nat
    BY <1>3, SendAssumption DEF Versions
  <2>4. source = m
    BY <2>1, <2>2, <2>3
  <2> QED
    BY <2>4 DEF ActiveSent
<1>6. ApprovedIsLatest'
  <2> SUFFICES ASSUME NEW v \in Weeks, NEW k \in Active(v)',
                      report'[<<v, k>>].status = "approved", NEW m \in Existing(v)'
               PROVE  m <= k
    BY DEF ApprovedIsLatest
  <2>1. CASE v # w
    BY <1>2, <1>3, <1>4, <2>1 DEF VersionInv, ApprovedIsLatest
  <2>2. CASE v = w
    <3>1. k = n
      BY <1>2, <1>3, <1>4, <1>5, <2>2
    <3>2. m = n \/ m < n
      BY <1>1, <1>2, <2>2
    <3>3. m \in Nat /\ n \in Nat
      BY <1>2, <1>3, <2>2, SendAssumption DEF Versions
    <3> QED
      BY <3>1, <3>2, <3>3
  <2> QED
    BY <2>1, <2>2
<1>7. SuccessorOnFile'
  <2> SUFFICES ASSUME NEW v \in Weeks, NEW m \in Active(v)', report'[<<v, m>>].supersededBy # 0
               PROVE  /\ report'[<<v, m>>].supersededBy > m
                      /\ report'[<<v, m>>].supersededBy \in ActiveSent(v)'
    BY DEF SuccessorOnFile
  <2>1. m \in Active(v)
    BY <1>1, <1>2
  <2>2. report'[<<v, m>>] = report[<<v, m>>]
    BY <1>3, <1>4, <2>1
  <2> QED
    BY <1>2, <2>1, <2>2 DEF VersionInv, SuccessorOnFile
<1>8. OneLiveVersion'
  BY <1>2, <1>3, <1>4 DEF VersionInv, OneLiveVersion
<1> QED
  BY <1>6, <1>7, <1>8 DEF VersionInv

LEMMA SendKeepsVersions ==
  ASSUME TypeInv, VersionInv, NEW w \in Weeks, NEW n \in Versions, Send(w, n)
  PROVE  VersionInv'
<1>1. /\ \A q \in Reports : q # <<w, n>> => report'[q].status = report[q].status
      /\ report[<<w, n>>].status = "approved"
      /\ report'[<<w, n>>].status = "sent"
      /\ \A q \in Reports :
           report'[q].supersededBy =
             IF q[1] = w /\ q[2] \in Superseded(w, n) THEN n ELSE report[q].supersededBy
  BY SendEffect
<1>2. /\ \A v \in Weeks : Existing(v)' = Existing(v) /\ Active(v)' = Active(v)
      /\ \A v \in Weeks \ {w} : ActiveSent(v)' = ActiveSent(v)
      /\ ActiveSent(w)' = ActiveSent(w) \cup {n}
      /\ n \in Active(w) /\ n \notin ActiveSent(w)
  BY SendVersions
<1>3. \A v \in Weeks : /\ Active(v) \subseteq Existing(v) /\ Existing(v) \subseteq Versions
                       /\ ActiveSent(v) \subseteq Active(v)
  BY DEF Active, Existing, ActiveSent
<1>4. \A v \in Weeks, m \in Versions :
        /\ v # w \/ m # n => report'[<<v, m>>].status = report[<<v, m>>].status
        /\ report'[<<v, m>>].supersededBy =
             IF v = w /\ m \in Superseded(w, n) THEN n ELSE report[<<v, m>>].supersededBy
  BY <1>1 DEF Reports
<1>5. \A m \in Superseded(w, n) : m < n /\ m \in Versions
  BY <1>3 DEF Superseded
<1>6. ApprovedIsLatest'
  BY <1>1, <1>2, <1>3, <1>4 DEF VersionInv, ApprovedIsLatest
<1>7. SuccessorOnFile'
  <2> SUFFICES ASSUME NEW v \in Weeks, NEW m \in Active(v), report'[<<v, m>>].supersededBy # 0
               PROVE  /\ report'[<<v, m>>].supersededBy > m
                      /\ report'[<<v, m>>].supersededBy \in ActiveSent(v)'
    BY <1>2 DEF SuccessorOnFile
  <2>1. m \in Versions
    BY <1>3
  <2>2. CASE v = w /\ m \in Superseded(w, n)
    BY <1>2, <1>4, <1>5, <2>1, <2>2, SendAssumption DEF Versions
  <2>3. CASE ~ (v = w /\ m \in Superseded(w, n))
    BY <1>2, <1>4, <2>1, <2>3 DEF VersionInv, SuccessorOnFile
  <2> QED
    BY <2>2, <2>3
<1>8. OneLiveVersion'
  <2> SUFFICES ASSUME NEW v \in Weeks, NEW m \in ActiveSent(v)', NEW k \in ActiveSent(v)',
                      report'[<<v, m>>].supersededBy = 0, report'[<<v, k>>].supersededBy = 0
               PROVE  m = k
    BY DEF OneLiveVersion
  <2>1. n # 0
    BY SendAssumption DEF Versions
  <2>2. CASE v # w
    BY <1>2, <1>3, <1>4, <2>2 DEF VersionInv, OneLiveVersion
  <2>3. CASE v = w
    <3>1. ASSUME NEW i \in ActiveSent(w), report'[<<w, i>>].supersededBy = 0 PROVE FALSE
      <4>1. i \in Versions /\ i \in Existing(w) /\ i # n
        BY <1>2, <1>3
      <4>2. i <= n
        BY <1>1, <1>2, <4>1 DEF VersionInv, ApprovedIsLatest
      <4>3. i < n
        BY <4>1, <4>2, SendAssumption DEF Versions
      <4>4. report[<<w, i>>].supersededBy = 0
        BY <1>4, <2>1, <3>1, <4>1
      <4>5. i \in Superseded(w, n)
        BY <4>3, <4>4 DEF Superseded
      <4> QED
        BY <1>4, <2>1, <3>1, <4>1, <4>5
    <3> QED
      BY <1>2, <2>3, <3>1
  <2> QED
    BY <2>2, <2>3
<1> QED
  BY <1>6, <1>7, <1>8 DEF VersionInv

LEMMA DeleteKeepsVersions ==
  ASSUME TypeInv, VersionInv, NEW w \in Weeks, NEW n \in Versions, Delete(w, n)
  PROVE  VersionInv'
<1>1. \A q \in Reports : /\ report'[q].status = report[q].status
                         /\ report'[q].supersededBy = report[q].supersededBy
  BY DeleteEffect
<1>2. /\ \A v \in Weeks : Existing(v)' = Existing(v)
      /\ \A v \in Weeks \ {w} : Active(v)' = Active(v) /\ ActiveSent(v)' = ActiveSent(v)
      /\ Active(w)' = Active(w) \ {n}
      /\ ActiveSent(w)' = ActiveSent(w) \ {n}
  BY DeleteVersions
<1>3. \A v \in Weeks : /\ Active(v) \subseteq Existing(v) /\ Existing(v) \subseteq Versions
                       /\ ActiveSent(v) \subseteq Active(v)
  BY DEF Active, Existing, ActiveSent
<1>4. \A v \in Weeks, m \in Versions :
        /\ report'[<<v, m>>].status = report[<<v, m>>].status
        /\ report'[<<v, m>>].supersededBy = report[<<v, m>>].supersededBy
  BY <1>1 DEF Reports
<1>5. \A m \in Active(w) : report[<<w, m>>].supersededBy # n
  BY DEF Delete, Deletable
<1>6. ApprovedIsLatest'
  BY <1>2, <1>3, <1>4 DEF VersionInv, ApprovedIsLatest
<1>7. SuccessorOnFile'
  BY <1>2, <1>3, <1>4, <1>5 DEF VersionInv, SuccessorOnFile
<1>8. OneLiveVersion'
  BY <1>2, <1>3, <1>4 DEF VersionInv, OneLiveVersion
<1> QED
  BY <1>6, <1>7, <1>8 DEF VersionInv

LEMMA VersionStep == TypeInv /\ VersionInv /\ [SendNext]_sendVars => VersionInv'
<1> SUFFICES ASSUME TypeInv, VersionInv, [SendNext]_sendVars PROVE VersionInv'
  OBVIOUS
<1>1. CASE UNCHANGED sendVars
  BY <1>1, VersionsStay DEF sendVars, Stays
<1>2. CASE SendNext
  BY <1>2, TameCases, TameReports, VersionsStay, InsertKeepsVersions, SendKeepsVersions,
     DeleteKeepsVersions
<1> QED
  BY <1>1, <1>2

LEMMA VersionInit == Init => VersionInv
BY DEF Init, NoReport, Reports, VersionInv, ApprovedIsLatest, SuccessorOnFile, OneLiveVersion,
   Existing, Active, ActiveSent

\* A week never loses its live report: a superseded report that is still on file
\* is followed by a sent one that is on file too, whatever was deleted in between
\* (SuccessorOnFile).
THEOREM SuccessorsStayOnFile == Spec => []SuccessorOnFile
<1>1. VersionInv => SuccessorOnFile
  BY DEF VersionInv
<1> QED
  BY <1>1, SendTypeInit, SendTypeStep, VersionInit, VersionStep, PTL DEF Spec

\* A week never has two live reports: of the sent versions on file at most one is
\* not superseded, whatever was sent, corrected, retried and removed in between
\* (OneLiveVersion).
THEOREM WeekKeepsOneLiveReport == Spec => []OneLiveVersion
<1>1. VersionInv => OneLiveVersion
  BY DEF VersionInv
<1> QED
  BY <1>1, SendTypeInit, SendTypeStep, VersionInit, VersionStep, PTL DEF Spec

-----------------------------------------------------------------------------
(* The message and its stamp *)

\* Every job carries the key its report was sent under.
KeyInv ==
  \A j \in DOMAIN jobs : /\ report[Subject(j)].status = "sent"
                         /\ report[Subject(j)].key = jobs[j].key

\* What the provider took, or a run knows it took, reached the client, and only
\* a sent report does; while it is not a day old its key is recognised.
TakenInv ==
  /\ \A x \in runs : x.phase = "accepted" => copies[Subject(x.job)] > 0
  /\ \A k \in remembered : copies[k[1]] > 0
  /\ \A r \in Reports : copies[r] > 0 => report[r].status = "sent"
  /\ \A r \in Reports :
       copies[r] > 0 => report[r].aged \/ <<r, report[r].key>> \in remembered

MailInv == KeyInv /\ TakenInv /\ DeliveryIsReal /\ OneCopyInsideWindow

\* The subject of a job does not change, nor does that of its runs.
LEMMA SubjectsPersist ==
  ASSUME TypeInv, JobsPersist
  PROVE  /\ \A j \in DOMAIN jobs : Subject(j)' = Subject(j) /\ jobs'[j].key = jobs[j].key
         /\ \A x \in runs : Subject(x.job)' = Subject(x.job) /\ x.job \in DOMAIN jobs
BY DEF JobsPersist, Subject, TypeInv, JobInv

\* New jobs are those of a send or a retry, under the key of the report.
LEMMA NewJobs ==
  ASSUME TypeInv, SendNext, NEW j \in DOMAIN jobs', j \notin DOMAIN jobs
  PROVE  \E w \in Weeks, n \in Versions :
           /\ Subject(j)' = <<w, n>>
           /\ \/ Send(w, n) /\ jobs'[j].key = n
              \/ /\ \E acknowledged \in BOOLEAN : Retry(w, n, acknowledged)
                 /\ report[<<w, n>>].status = "sent"
                 /\ jobs'[j].key = report[<<w, n>>].key
<1>1. ASSUME NEW w \in Weeks, NEW n \in Versions, NEW key \in Nat, QueueJob(w, n, key),
             faults' = faults
      PROVE  Subject(j)' = <<w, n>> /\ jobs'[j].key = key
  <2>1. FaultsKept
    BY <1>1, SendAssumption DEF FaultsKept, TypeInv, TypeOK
  <2>2. /\ DOMAIN jobs' = DOMAIN jobs \cup {Len(jobs) + 1}
        /\ jobs'[Len(jobs) + 1].week = w
        /\ jobs'[Len(jobs) + 1].version = n
        /\ jobs'[Len(jobs) + 1].key = key
    BY <1>1, <2>1, JobAdded
  <2>3. j = Len(jobs) + 1
    BY <2>2
  <2> QED
    BY <2>2, <2>3 DEF Subject
<1>2. CASE \E w \in Weeks, n \in Versions :
             Send(w, n) \/ \E acknowledged \in BOOLEAN : Retry(w, n, acknowledged)
  <2>1. PICK w \in Weeks, n \in Versions :
          Send(w, n) \/ \E acknowledged \in BOOLEAN : Retry(w, n, acknowledged)
    BY <1>2
  <2>2. <<w, n>> \in Reports /\ n \in Nat
    BY SendAssumption DEF Reports, Versions
  <2>3. report[<<w, n>>].key \in Nat
    BY <2>2, ReportRow DEF Report
  <2>4. CASE Send(w, n)
    BY <1>1, <2>2, <2>4 DEF Send
  <2>5. CASE \E acknowledged \in BOOLEAN : Retry(w, n, acknowledged)
    <3>1. QueueJob(w, n, report[<<w, n>>].key) /\ faults' = faults
          /\ report[<<w, n>>].status = "sent"
      BY <2>5 DEF Retry, ActiveSent
    <3> QED
      BY <1>1, <2>3, <2>5, <3>1
  <2> QED
    BY <2>1, <2>4, <2>5
<1>3. ASSUME NEW w \in Weeks, NEW n \in Versions, Inserts(w, n) \/ Delete(w, n)
      PROVE  FALSE
  BY <1>3, InsertReport DEF Delete
<1>4. CASE \E k \in DOMAIN jobs : Start(k) \/ \E died \in BOOLEAN : Redeliver(k, died)
  <2>1. DOMAIN jobs' = DOMAIN jobs
    BY <1>4 DEF Start, Redeliver
  <2> QED
    BY <2>1
<1>5. CASE \E x \in runs : RunStep(x)
  <2>1. DOMAIN jobs' = DOMAIN jobs
    BY <1>5 DEF RunStep, LastLook, ProviderAccepts, ProviderFails, RecordFailure,
       RecordDelivery, RecordLost, Settled
  <2> QED
    BY <2>1
<1>6. CASE (\E r \in Reports : Bounce(r) \/ Age(r)) \/ \E k \in remembered : Forget(k)
  BY <1>6 DEF Bounce, Age, Forget
<1> QED
  BY <1>2, <1>3, <1>4, <1>5, <1>6, SendCases

\* A run that is new or in a new phase has had the last look's permission, or
\* the provider's answer.
LEMMA NewPhases ==
  ASSUME TypeInv, SendNext, NEW y \in runs', y \notin runs
  PROVE  /\ y.phase = "looked" => y.job \in DOMAIN jobs /\ MayDeliver(y.job)
         /\ y.phase = "accepted" =>
              \E x \in runs : /\ x.phase = "looked" /\ y.job = x.job
                              /\ Taken(x)
<1>0. \A x \in runs : x \in Run /\ x.job \in DOMAIN jobs
  BY DEF TypeInv, TypeOK, JobInv
<1>1. ASSUME NEW x \in runs, NEW p \in Phase, y = [x EXCEPT !.phase = p]
      PROVE  y.phase = p /\ y.job = x.job
  BY <1>0, <1>1 DEF Run
<1>2. CASE \E x \in runs : RunStep(x)
  <2>1. PICK x \in runs : RunStep(x)
    BY <1>2
  <2>2. CASE LastLook(x)
    <3>1. MayDeliver(x.job) /\ y = [x EXCEPT !.phase = "looked"]
      BY <2>2 DEF LastLook, Advance
    <3> QED
      BY <1>0, <1>1, <3>1 DEF Phase
  <2>3. CASE ProviderAccepts(x)
    <3>1. Taken(x) /\ x.phase = "looked" /\ y = [x EXCEPT !.phase = "accepted"]
      BY <2>3 DEF ProviderAccepts, Advance
    <3> QED
      BY <1>1, <3>1 DEF Phase
  <2>4. CASE \E taken \in BOOLEAN : ProviderFails(x, taken)
    <3>1. y = [x EXCEPT !.phase = "failed"]
      BY <2>4 DEF ProviderFails, Advance
    <3> QED
      BY <1>1, <3>1 DEF Phase
  <2>5. CASE RecordFailure(x) \/ RecordDelivery(x) \/ RecordLost(x)
    BY <2>5 DEF RecordFailure, RecordDelivery, RecordLost
  <2> QED
    BY <2>1, <2>2, <2>3, <2>4, <2>5 DEF RunStep
<1>3. CASE \E j \in DOMAIN jobs : Start(j)
  <2>1. y.phase = "render"
    BY <1>3 DEF Start
  <2> QED
    BY <2>1
<1>4. CASE \E j \in DOMAIN jobs, died \in BOOLEAN : Redeliver(j, died)
  BY <1>4 DEF Redeliver
<1>5. CASE \E w \in Weeks, n \in Versions :
             \/ Inserts(w, n) \/ Send(w, n) \/ Delete(w, n)
             \/ \E acknowledged \in BOOLEAN : Retry(w, n, acknowledged)
  BY <1>5, InsertReport DEF Send, Delete, Retry
<1>6. CASE (\E r \in Reports : Bounce(r) \/ Age(r)) \/ \E k \in remembered : Forget(k)
  BY <1>6 DEF Bounce, Age, Forget
<1> QED
  BY <1>2, <1>3, <1>4, <1>5, <1>6, SendCases

\* A report that is sent stays sent, under its key.
LEMMA SentStays ==
  ASSUME TypeInv, SendNext, NEW r \in Reports, report[r].status = "sent"
  PROVE  /\ report'[r].status = "sent"
         /\ report'[r].key = report[r].key
         /\ MailGrows(r)
<1>1. CASE TameStep
  BY <1>1, TameReports DEF Stays
<1>2. ASSUME NEW w \in Weeks, NEW n \in Versions, Inserts(w, n)
      PROVE  report'[r] = report[r]
  BY <1>2, InsertEffect
<1>3. ASSUME NEW w \in Weeks, NEW n \in Versions, Send(w, n) \/ Delete(w, n)
      PROVE  report'[r].status = "sent" /\ report'[r].key = report[r].key /\ MailStays(r)
  BY <1>3, SendEffect, DeleteEffect
<1> QED
  BY <1>1, <1>2, <1>3, TameCases DEF MailStays, MailGrows

LEMMA KeyStep ==
  ASSUME TypeInv, KeyInv, SendNext
  PROVE  KeyInv'
<1>1. JobsPersist
  BY QueueStep
<1> SUFFICES ASSUME NEW j \in DOMAIN jobs'
             PROVE  report'[Subject(j)'].status = "sent" /\ report'[Subject(j)'].key = jobs'[j].key
  BY DEF KeyInv
<1>2. CASE j \in DOMAIN jobs
  <2>1. Subject(j)' = Subject(j) /\ jobs'[j].key = jobs[j].key
    BY <1>1, <1>2, SubjectsPersist
  <2>2. Subject(j) \in Reports
    BY <1>2, JobRow DEF TypeInv
  <2> QED
    BY <1>2, <2>1, <2>2, SentStays DEF KeyInv
<1>3. CASE j \notin DOMAIN jobs
  <2>1. PICK w \in Weeks, n \in Versions :
           /\ Subject(j)' = <<w, n>>
           /\ \/ Send(w, n) /\ jobs'[j].key = n
              \/ /\ \E acknowledged \in BOOLEAN : Retry(w, n, acknowledged)
                 /\ report[<<w, n>>].status = "sent"
                 /\ jobs'[j].key = report[<<w, n>>].key
    BY <1>3, NewJobs
  <2>2. CASE Send(w, n) /\ jobs'[j].key = n
    BY <2>1, <2>2, SendEffect
  <2>3. CASE report[<<w, n>>].status = "sent" /\ jobs'[j].key = report[<<w, n>>].key
    <3>1. <<w, n>> \in Reports
      BY DEF Reports
    <3> QED
      BY <2>1, <2>3, <3>1, SentStays
  <2> QED
    BY <2>1, <2>2, <2>3
<1> QED
  BY <1>2, <1>3

LEMMA TakenStep ==
  ASSUME TypeInv, KeyInv, TakenInv, SendNext
  PROVE  TakenInv'
<1>0. copies \in [Reports -> Nat] /\ remembered \subseteq Reports \X Nat
      /\ report \in [Reports -> Report]
  BY DEF TypeInv, TypeOK
<1>1. /\ copies' \in [Reports -> Nat] /\ remembered' \subseteq Reports \X Nat
      /\ \A r \in Reports :
           \/ copies'[r] = copies[r]
           \/ /\ copies'[r] = copies[r] + 1
              /\ \E x \in runs : /\ x.phase = "looked" /\ Subject(x.job) = r
                                 /\ <<r, jobs[x.job].key>> \notin remembered
                                 /\ <<r, jobs[x.job].key>> \in remembered'
      /\ \A k \in remembered : k \in remembered' \/ report[k[1]].aged
      /\ \A k \in remembered' :
           \/ k \in remembered
           \/ copies'[k[1]] > 0
  BY MailStep
<1>2. \A r \in Reports : copies[r] > 0 => copies'[r] > 0
  BY <1>0, <1>1
<1>3. JobsPersist
  BY QueueStep
<1>4. \A x \in runs : Subject(x.job) \in Reports /\ Subject(x.job)' = Subject(x.job)
                      /\ x.job \in DOMAIN jobs
  BY <1>3, SubjectsPersist, JobRow DEF TypeInv
<1>5. ASSUME NEW y \in runs', y.phase = "accepted"
      PROVE  copies'[Subject(y.job)'] > 0
  <2>1. CASE y \in runs
    BY <1>2, <1>4, <1>5, <2>1 DEF TakenInv
  <2>2. CASE y \notin runs
    <3>1. PICK x \in runs : y.job = x.job /\ Taken(x)
      BY <1>5, <2>2, NewPhases
    <3>2. <<Subject(x.job), jobs[x.job].key>> \in remembered'
      BY <3>1 DEF Taken, IdempotencyKey
    <3>3. <<Subject(x.job), jobs[x.job].key>> \in remembered => copies[Subject(x.job)] > 0
      BY DEF TakenInv
    <3>4. copies'[Subject(x.job)] > 0
      BY <1>1, <1>2, <1>4, <3>2, <3>3
    <3> QED
      BY <1>4, <3>1, <3>4
  <2> QED
    BY <2>1, <2>2
<1>6. ASSUME NEW k \in remembered'
      PROVE  copies'[k[1]] > 0
  BY <1>0, <1>1, <1>2 DEF TakenInv
<1>7. ASSUME NEW r \in Reports, copies'[r] > 0
      PROVE  /\ report'[r].status = "sent"
             /\ report'[r].aged \/ <<r, report'[r].key>> \in remembered'
  <2>1. CASE copies'[r] = copies[r]
    <3>1. report[r].status = "sent" /\ (report[r].aged \/ <<r, report[r].key>> \in remembered)
      BY <1>7, <2>1 DEF TakenInv
    <3>2. report'[r].status = "sent" /\ report'[r].key = report[r].key
          /\ (report[r].aged => report'[r].aged)
      BY <3>1, SentStays DEF MailGrows
    <3>3. report[r].aged \/ <<r, report[r].key>> \in remembered'
      BY <1>1, <3>1
    <3> QED
      BY <3>2, <3>3
  <2>2. CASE copies'[r] # copies[r]
    <3>1. PICK x \in runs : Subject(x.job) = r /\ <<r, jobs[x.job].key>> \in remembered'
      BY <1>1, <2>2
    <3>2. report[r].status = "sent" /\ report[r].key = jobs[x.job].key
      BY <1>4, <3>1 DEF KeyInv
    <3>3. report'[r].status = "sent" /\ report'[r].key = report[r].key
      BY <3>2, SentStays
    <3> QED
      BY <3>1, <3>2, <3>3
  <2> QED
    BY <2>1, <2>2
<1> QED
  BY <1>5, <1>6, <1>7 DEF TakenInv

LEMMA DeliveryStep ==
  ASSUME TypeInv, KeyInv, TakenInv, DeliveryIsReal, SendNext
  PROVE  DeliveryIsReal'
<1> SUFFICES ASSUME NEW r \in Reports, report'[r].delivered
             PROVE  copies'[r] > 0 /\ ~ report'[r].failed
  BY DEF DeliveryIsReal
<1>1. copies[r] > 0 => copies'[r] > 0
  <2>1. copies[r] \in Nat /\ (copies'[r] = copies[r] \/ copies'[r] = copies[r] + 1)
    BY MailStep DEF TypeInv, TypeOK
  <2> QED
    BY <2>1
<1>2. CASE TameStep
  <2>1. MailGrows(r)
    BY <1>2, TameReports
  <2>2. CASE report[r].delivered /\ (report'[r].failed => report[r].failed)
    BY <1>1, <2>2 DEF DeliveryIsReal
  <2>3. CASE ~ report'[r].failed /\ \E x \in runs : x.phase = "accepted" /\ Subject(x.job) = r
    BY <1>1, <2>3 DEF TakenInv
  <2> QED
    BY <2>1, <2>2, <2>3 DEF MailGrows
<1>3. ASSUME NEW w \in Weeks, NEW n \in Versions, Inserts(w, n)
      PROVE  report'[r] = report[r]
  BY <1>3, InsertEffect
<1>4. ASSUME NEW w \in Weeks, NEW n \in Versions, Send(w, n) \/ Delete(w, n)
      PROVE  MailStays(r)
  BY <1>4, SendEffect, DeleteEffect
<1> QED
  BY <1>1, <1>2, <1>3, <1>4, TameCases DEF MailStays, DeliveryIsReal

LEMMA WindowStep ==
  ASSUME TypeInv, KeyInv, TakenInv, OneCopyInsideWindow, SendNext
  PROVE  OneCopyInsideWindow'
<1> SUFFICES ASSUME NEW r \in Reports, copies'[r] > 1
             PROVE  report'[r].aged
  BY DEF OneCopyInsideWindow
<1>1. /\ copies[r] \in Nat
      /\ \/ copies'[r] = copies[r]
         \/ /\ copies'[r] = copies[r] + 1
            /\ \E x \in runs : Subject(x.job) = r /\ <<r, jobs[x.job].key>> \notin remembered
  BY MailStep DEF TypeInv, TypeOK
<1>2. report[r].aged
  <2>1. CASE copies'[r] = copies[r]
    BY <2>1 DEF OneCopyInsideWindow
  <2>2. CASE copies'[r] = copies[r] + 1 /\ copies'[r] # copies[r]
    <3>1. PICK x \in runs : Subject(x.job) = r /\ <<r, jobs[x.job].key>> \notin remembered
      BY <1>1, <2>2
    <3>2. report[r].key = jobs[x.job].key
      BY <3>1 DEF KeyInv, TypeInv, JobInv
    <3>3. copies[r] > 0
      BY <1>1, <2>2
    <3> QED
      BY <3>1, <3>2, <3>3 DEF TakenInv
  <2> QED
    BY <1>1, <2>1, <2>2
<1>3. report[r].status = "sent"
  <2>1. CASE copies[r] > 0
    BY <2>1 DEF TakenInv
  <2>2. CASE copies[r] = 0
    BY <1>1, <2>2
  <2> QED
    BY <1>1, <2>1, <2>2
<1> QED
  BY <1>2, <1>3, SentStays DEF MailGrows

LEMMA MailInvStep == TypeInv /\ MailInv /\ [SendNext]_sendVars => MailInv'
<1> SUFFICES ASSUME TypeInv, MailInv, [SendNext]_sendVars PROVE MailInv'
  OBVIOUS
<1>1. CASE UNCHANGED sendVars
  BY <1>1 DEF sendVars, MailInv, KeyInv, TakenInv, DeliveryIsReal, OneCopyInsideWindow, Subject
<1>2. CASE SendNext
  BY <1>2, KeyStep, TakenStep, DeliveryStep, WindowStep DEF MailInv
<1> QED
  BY <1>1, <1>2

LEMMA MailInit == Init => MailInv
BY DEF Init, NoReport, Reports, MailInv, KeyInv, TakenInv, DeliveryIsReal, OneCopyInsideWindow

\* The stamp tells the truth about the message: what is stamped delivered is in
\* the client's inbox and shows no error.
THEOREM DeliveryStampsAreReal == Spec => []DeliveryIsReal
<1>1. MailInv => DeliveryIsReal
  BY DEF MailInv
<1> QED
  BY <1>1, SendTypeInit, SendTypeStep, MailInit, MailInvStep, PTL DEF Spec

\* Inside the provider's window a report reaches the client once, whatever is
\* retried, redelivered, lost or run twice.
THEOREM OneCopyReachesTheClient == Spec => []OneCopyInsideWindow
<1>1. MailInv => OneCopyInsideWindow
  BY DEF MailInv
<1> QED
  BY <1>1, SendTypeInit, SendTypeStep, MailInit, MailInvStep, PTL DEF Spec

-----------------------------------------------------------------------------
(* What a correction admits *)

\* No message about version m has left, none is past its last look, and the
\* last look would let none pass any more.
Closed(r) ==
  report[r].status = "absent" \/ ~ report[r].active \/ report[r].supersededBy # 0

Sealed(r) ==
  /\ copies[r] = 0
  /\ \A x \in runs : Subject(x.job) = r => x.phase # "looked"
  /\ Closed(r)

\* Of a version before a sent one, either the client is told, or the send could
\* not know, or its message will never go out.
AdmissionInv ==
  \A w \in Weeks : \A m, n \in Versions :
    m < n /\ report[<<w, n>>].status = "sent" =>
      \/ report[<<w, n>>].isCorrection
      \/ m \in excused[<<w, n>>]
      \/ Sealed(<<w, m>>)

LEMMA SealedStays ==
  ASSUME TypeInv, SendNext, NEW w \in Weeks, NEW m \in Versions, NEW n \in Versions, m < n,
         report[<<w, n>>].status # "absent", Sealed(<<w, m>>)
  PROVE  Sealed(<<w, m>>)'
<1> DEFINE r == <<w, m>>
<1>0. r \in Reports /\ <<w, n>> \in Reports /\ m \in Nat /\ n \in Nat
  BY SendAssumption DEF Reports, Versions
<1>1. copies'[r] = 0
  <2>1. \/ copies'[r] = copies[r]
        \/ \E x \in runs : x.phase = "looked" /\ Subject(x.job) = r
    BY <1>0, MailStep
  <2> QED
    BY <2>1 DEF Sealed
<1>2. ASSUME NEW y \in runs', Subject(y.job)' = r, y.phase = "looked"
      PROVE  FALSE
  <2>1. JobsPersist
    BY QueueStep
  <2>2. CASE y \in runs
    BY <1>2, <2>1, <2>2, SubjectsPersist DEF Sealed
  <2>3. CASE y \notin runs
    <3>1. y.job \in DOMAIN jobs /\ MayDeliver(y.job)
      BY <1>2, <2>3, NewPhases
    <3>2. Subject(y.job) = r
      BY <1>2, <2>1, <3>1, SubjectsPersist
    <3> QED
      BY <3>1, <3>2 DEF MayDeliver, Sealed, Closed
  <2> QED
    BY <2>2, <2>3
<1>3. Closed(r)'
  <2>1. CASE TameStep
    BY <1>0, <2>1, TameReports DEF Sealed, Closed, Stays
  <2>2. ASSUME NEW v \in Weeks, NEW k \in Versions, Inserts(v, k)
        PROVE  Closed(r)'
    <3>1. /\ r # <<v, k>> => report'[r] = report[r]
          /\ \A i \in Existing(v) : i < k
      BY <1>0, <2>2, InsertEffect
    <3>2. r # <<v, k>>
      <4> SUFFICES ASSUME v = w, k = m PROVE FALSE
        OBVIOUS
      <4>1. n \in Existing(w)
        BY DEF Existing
      <4> QED
        BY <1>0, <3>1, <4>1
    <3> QED
      BY <3>1, <3>2 DEF Sealed, Closed
  <2>3. ASSUME NEW v \in Weeks, NEW k \in Versions, Send(v, k)
        PROVE  Closed(r)'
    <3>1. /\ report'[r].active = report[r].active
          /\ r # <<v, k>> => report'[r].status = report[r].status
          /\ report[<<v, k>>].status = "approved"
          /\ report[<<v, k>>].active
      BY <1>0, <2>3, SendStatus
    <3>2. report'[r].supersededBy \in {k, report[r].supersededBy}
      BY <2>3, SendSupersedes
    <3>3. k # 0
      BY SendAssumption DEF Versions
    <3>4. CASE r = <<v, k>>
      BY <3>1, <3>2, <3>3, <3>4 DEF Sealed, Closed
    <3>5. CASE r # <<v, k>>
      BY <3>1, <3>2, <3>3, <3>5 DEF Sealed, Closed
    <3> QED
      BY <3>4, <3>5
  <2>4. ASSUME NEW v \in Weeks, NEW k \in Versions, Delete(v, k)
        PROVE  Closed(r)'
    <3>1. /\ report'[r].status = report[r].status
          /\ report'[r].supersededBy = report[r].supersededBy
          /\ report'[r].active => report[r].active
      BY <1>0, <2>4, DeleteEffect
    <3> QED
      BY <3>1 DEF Sealed, Closed
  <2> QED
    BY <2>1, <2>2, <2>3, <2>4, TameCases
<1> QED
  BY <1>1, <1>2, <1>3 DEF Sealed

\* What the transaction of a send knows of the older versions.
LEMMA SendSeals ==
  ASSUME TypeInv, VersionInv, MailInv, NEW w \in Weeks, NEW m \in Versions, NEW n \in Versions,
         m < n, Send(w, n), ~ PriorReached(w, n), m \notin OutOfSight(w, n)
  PROVE  Sealed(<<w, m>>)'
<1> DEFINE r == <<w, m>>
<1>0. r \in Reports /\ m \in Nat /\ n \in Nat /\ n # 0 /\ r # <<w, n>>
  BY SendAssumption DEF Reports, Versions
<1>1. copies' = copies /\ runs' = runs /\ JobsPersist
  <2>1. SendNext
    BY DEF SendNext, DeliveryNext, ServerStep
  <2> QED
    BY <2>1, QueueStep DEF Send
<1>2. /\ report'[r].active = report[r].active
      /\ report'[r].status = report[r].status
      /\ report[<<w, n>>].status = "approved" /\ report[<<w, n>>].active
  BY <1>0, SendStatus
<1>5. /\ report'[r].supersededBy \in {n, report[r].supersededBy}
      /\ m \in Superseded(w, n) => report'[r].supersededBy = n
  BY SendSupersedes
<1>3. copies[r] = 0 /\ \A x \in runs : Subject(x.job) = r => x.phase # "looked"
  <2>0. copies[r] \in Nat
    BY <1>0 DEF TypeInv, TypeOK
  <2>1. CASE m \in Existing(w)
    <3>1. ~ report[r].delivered /\ ~ report[r].bounced
      BY <2>1 DEF PriorReached, OutOfSight
    <3> QED
      BY <2>0, <2>1, <3>1 DEF OutOfSight
  <2>2. CASE m \notin Existing(w)
    <3>1. report[r].status = "absent"
      BY <2>2 DEF Existing
    <3> QED
      BY <1>0, <2>0, <3>1 DEF MailInv, TakenInv, KeyInv, TypeInv, JobInv
  <2> QED
    BY <2>1, <2>2
<1>4. Closed(r)'
  <2>1. CASE report[r].status # "absent" /\ report[r].active
    <3>1. report[r].status = "sent"
      <4>1. report[r].status \in {"absent", "approved", "sent"}
        BY <1>0, ReportRow DEF Report
      <4>2. n \in Existing(w) /\ m \in Active(w)
        BY <1>2, <2>1 DEF Existing, Active
      <4>3. report[r].status # "approved"
        BY <1>0, <4>2 DEF VersionInv, ApprovedIsLatest
      <4> QED
        BY <2>1, <4>1, <4>3
    <3>2. m \in ActiveSent(w)
      BY <2>1, <3>1 DEF ActiveSent, Active, Existing
    <3> QED
      BY <1>0, <1>2, <1>5, <3>2 DEF Superseded, Closed
  <2>2. CASE report[r].status = "absent" \/ ~ report[r].active
    BY <1>2, <2>2 DEF Closed
  <2> QED
    BY <2>1, <2>2
<1> QED
  BY <1>1, <1>3, <1>4, SubjectsPersist DEF Sealed

LEMMA AdmissionStep ==
  ASSUME TypeInv, VersionInv, MailInv, AdmissionInv, SendNext
  PROVE  AdmissionInv'
<1> SUFFICES ASSUME NEW w \in Weeks, NEW m \in Versions, NEW n \in Versions,
                    m < n, report'[<<w, n>>].status = "sent",
                    ~ report'[<<w, n>>].isCorrection, m \notin excused'[<<w, n>>]
             PROVE  Sealed(<<w, m>>)'
  BY DEF AdmissionInv
<1>0. <<w, n>> \in Reports /\ excused \in [Reports -> SUBSET Versions]
  BY DEF Reports, TypeInv, TypeOK
<1>1. ASSUME report[<<w, n>>].status = "sent",
             report'[<<w, n>>].isCorrection = report[<<w, n>>].isCorrection,
             excused'[<<w, n>>] = excused[<<w, n>>]
      PROVE  Sealed(<<w, m>>)'
  BY <1>1, SealedStays DEF AdmissionInv
<1>2. CASE TameStep
  <2>1. excused' = excused
    BY <1>2 DEF TameStep, Retry, Start, Redeliver, RunStep, LastLook, ProviderAccepts,
       ProviderFails, RecordFailure, RecordDelivery, RecordLost, Bounce, Age, Forget
  <2> QED
    BY <1>0, <1>1, <1>2, <2>1, TameReports DEF Stays
<1>3. ASSUME NEW v \in Weeks, NEW k \in Versions, Inserts(v, k)
      PROVE  Sealed(<<w, m>>)'
  <2>1. /\ <<w, n>> # <<v, k>> => report'[<<w, n>>] = report[<<w, n>>]
        /\ report'[<<v, k>>].status = "approved"
        /\ excused' = excused
    BY <1>0, <1>3, InsertEffect, InsertReport
  <2> QED
    BY <1>1, <2>1
<1>4. ASSUME NEW v \in Weeks, NEW k \in Versions, Delete(v, k)
      PROVE  Sealed(<<w, m>>)'
  <2>1. /\ report'[<<w, n>>].status = report[<<w, n>>].status
        /\ report'[<<w, n>>].isCorrection = report[<<w, n>>].isCorrection
        /\ excused' = excused
    BY <1>0, <1>4, DeleteEffect DEF Delete
  <2> QED
    BY <1>1, <2>1
<1>5. ASSUME NEW v \in Weeks, NEW k \in Versions, Send(v, k)
      PROVE  Sealed(<<w, m>>)'
  <2>1. excused' = [excused EXCEPT ![<<v, k>>] = OutOfSight(v, k)]
    BY <1>5 DEF Send
  <2>2. CASE <<w, n>> # <<v, k>>
    <3>1. /\ report'[<<w, n>>].status = report[<<w, n>>].status
          /\ report'[<<w, n>>].isCorrection = report[<<w, n>>].isCorrection
      BY <1>0, <1>5, <2>2, SendStatus
    <3>2. excused'[<<w, n>>] = excused[<<w, n>>]
      BY <1>0, <2>1, <2>2
    <3> QED
      BY <1>1, <3>1, <3>2
  <2>3. CASE w = v /\ n = k
    <3>1. ~ PriorReached(w, n)
      BY <1>5, <2>3, SendAdmits
    <3>2. m \notin OutOfSight(w, n)
      BY <1>0, <2>1, <2>3
    <3> QED
      BY <1>5, <2>3, <3>1, <3>2, SendSeals
  <2> QED
    BY <2>2, <2>3
<1> QED
  BY <1>2, <1>3, <1>4, <1>5, TameCases

LEMMA AdmissionKept ==
  TypeInv /\ VersionInv /\ MailInv /\ AdmissionInv /\ [SendNext]_sendVars => AdmissionInv'
<1>1. AdmissionInv /\ UNCHANGED sendVars => AdmissionInv'
  BY DEF sendVars, AdmissionInv, Sealed, Closed, Subject
<1> QED
  BY <1>1, AdmissionStep

LEMMA AdmissionInit == Init => AdmissionInv
BY DEF Init, NoReport, Reports, AdmissionInv

LEMMA AdmissionSuffices == TypeInv /\ MailInv /\ AdmissionInv => CorrectionAdmitted
<1> SUFFICES ASSUME TypeInv, MailInv, AdmissionInv, NEW w \in Weeks,
                    NEW m \in Versions, NEW n \in Versions, m < n,
                    copies[<<w, m>>] > 0, copies[<<w, n>>] > 0
             PROVE  \/ report[<<w, n>>].isCorrection
                    \/ m \in excused[<<w, n>>]
  BY DEF CorrectionAdmitted
<1>1. report[<<w, n>>].status = "sent"
  BY DEF MailInv, TakenInv, Reports
<1>2. ~ Sealed(<<w, m>>)
  BY DEF Sealed
<1> QED
  BY <1>1, <1>2 DEF AdmissionInv

\* When two versions of a week reach the client the later one says that it is
\* a correction, but for what its send could not know.
THEOREM CorrectionsAreAdmitted == Spec => []CorrectionAdmitted
BY SendTypeInit, SendTypeStep, VersionInit, VersionStep, MailInit, MailInvStep,
   AdmissionInit, AdmissionKept, AdmissionSuffices, PTL DEF Spec

=============================================================================
