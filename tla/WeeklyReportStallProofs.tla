----------------------- MODULE WeeklyReportStallProofs ----------------------
(***************************************************************************)
(* Theorems about WeeklyReportStall, for every set of weeks and of workers *)
(* and every bound.                                                        *)
(***************************************************************************)
EXTENDS WeeklyReportStall, WeeklyReportSendProofs

-----------------------------------------------------------------------------
(* The invariants *)

\* The sweep's own variables, over those of the sends.
StallTypeInv ==
  /\ TypeInv
  /\ reporting \in BOOLEAN
  /\ sweep \in [Sweepers -> SweepRun]
  /\ lock \in Sweepers \cup {NoSweeper}
  /\ roster \in BOOLEAN
  /\ alertKeys \subseteq Nat \X SUBSET Reports
  /\ told \subseteq Announcement
  /\ muted \subseteq Reports \X Nat

\* A key the provider knows is the key of an alert that went out.
KeyBacked == \A k \in alertKeys : \A r \in k[2] : WentOut(r, k[1])

BackedInv == KeyBacked /\ ClaimIsBacked

\* The claims that stand: of the alerts whose mail was confirmed, and of the
\* runs that hold rows and have not called the provider yet.
Claims ==
  {c \in Announcement :
     \/ c \in told /\ c.sure
     \/ \E s \in Sweepers : /\ sweep[s].phase = "claimed"
                            /\ c.stamp = sweep[s].stamp
                            /\ c.queued = sweep[s].queued
                            /\ c.about \in sweep[s].rows}

\* Runs carry the time they began, no two the same.
RunStamps ==
  /\ clock > 0
  /\ \A s \in Sweepers :
       sweep[s].phase # "idle" =>
         /\ 0 < sweep[s].stamp
         /\ sweep[s].stamp < clock
         /\ \A t \in Sweepers \ {s} :
              sweep[t].phase # "idle" => sweep[t].stamp # sweep[s].stamp

\* No run carries the stamp of an alert that was confirmed, so that none gives
\* back a claim of it.
ConfirmedApart ==
  \A a \in told : a.sure =>
    /\ 0 < a.stamp
    /\ a.stamp < clock
    /\ \A s \in Sweepers : sweep[s].phase # "idle" => sweep[s].stamp # a.stamp

\* A retry of the report of claim c was queued after it, among the first to jobs.
RetriedBy(c, to) ==
  \E j \in DOMAIN jobs : c.queued < j /\ j <= to /\ Subject(j) = c.about

\* The stamp of a claim is on its row until somebody presses Retry, and from
\* then on the row's activity is later than the claim.
Stands(c) ==
  /\ c.queued <= Len(jobs)
  /\ report[c.about].status = "sent"
  /\ \/ report[c.about].alerted = c.stamp
     \/ RetriedBy(c, Len(jobs)) /\ report[c.about].activity > c.stamp

ClaimStands == \A c \in Claims : Stands(c)

\* Between two claims on a report somebody pressed Retry.
ClaimsApart ==
  \A c, d \in Claims :
    c.about = d.about /\ c.stamp < d.stamp => RetriedBy(c, d.queued)

AlertInv == RunStamps /\ ConfirmedApart /\ ClaimStands /\ ClaimsApart

-----------------------------------------------------------------------------
(* What a run of the sweep does to the reports *)

\* A row stamped with time t.
WithAlert(row, t) == [row EXCEPT !.alerted = t]

LEMMA WithAlertRow ==
  ASSUME NEW row \in Report, NEW t \in Nat
  PROVE  /\ WithAlert(row, t) \in Report
         /\ WithAlert(row, t).alerted = t
         /\ WithAlert(row, t).status = row.status
         /\ WithAlert(row, t).active = row.active
         /\ WithAlert(row, t).supersededBy = row.supersededBy
         /\ WithAlert(row, t).isCorrection = row.isCorrection
         /\ WithAlert(row, t).key = row.key
         /\ WithAlert(row, t).delivered = row.delivered
         /\ WithAlert(row, t).failed = row.failed
         /\ WithAlert(row, t).bounced = row.bounced
         /\ WithAlert(row, t).aged = row.aged
         /\ WithAlert(row, t).activity = row.activity
BY DEF Report, WithAlert

LEMMA SweepRow ==
  ASSUME StallTypeInv, NEW s \in Sweepers
  PROVE  /\ sweep[s] \in SweepRun
         /\ sweep[s].phase \in {"idle", "selected", "claimed", "unsent"}
         /\ sweep[s].stamp \in Nat /\ sweep[s].queued \in Nat
         /\ sweep[s].rows \subseteq Reports
<1>1. sweep[s] \in SweepRun
  BY DEF StallTypeInv
<1> QED
  BY <1>1 DEF SweepRun

\* All the columns but alerted and quiet.
RowStays(q) == Stays(q) /\ MailStays(q) /\ report'[q].activity = report[q].activity

LEMMA RowUnchanged ==
  ASSUME NEW q, report'[q] = report[q]
  PROVE  RowStays(q) /\ report'[q].alerted = report[q].alerted
BY DEF RowStays, Stays, MailStays

LEMMA ClaimRows ==
  ASSUME StallTypeInv, NEW s \in Sweepers, report' = Stamped(s)
  PROVE  /\ report' \in [Reports -> Report]
         /\ \A q \in Reports :
              /\ RowStays(q)
              /\ report'[q].alerted = IF q \in Won(s) THEN sweep[s].stamp
                                      ELSE report[q].alerted
<1>1. ASSUME NEW q \in Reports
      PROVE  /\ report'[q] \in Report
             /\ RowStays(q)
             /\ report'[q].alerted = IF q \in Won(s) THEN sweep[s].stamp
                                     ELSE report[q].alerted
  <2>1. report[q] \in Report /\ sweep[s].stamp \in Nat
    BY ReportRow, SweepRow DEF StallTypeInv
  <2>2. CASE q \in Won(s)
    <3>1. report'[q] = WithAlert(report[q], sweep[s].stamp)
      BY <2>2 DEF Stamped, WithAlert
    <3> QED
      BY <2>1, <2>2, <3>1, WithAlertRow DEF RowStays, Stays, MailStays
  <2>3. CASE q \notin Won(s)
    <3>1. report'[q] = report[q]
      BY <2>3 DEF Stamped
    <3> QED
      BY <2>1, <2>3, <3>1, RowUnchanged
  <2> QED
    BY <2>2, <2>3
<1>2. report' = [q \in Reports |-> report'[q]]
  BY DEF Stamped
<1> QED
  BY <1>1, <1>2

LEMMA ReleaseRows ==
  ASSUME StallTypeInv, NEW s \in Sweepers, Release(s)
  PROVE  /\ report' \in [Reports -> Report]
         /\ \A q \in Reports :
              /\ RowStays(q)
              /\ report'[q].alerted =
                   IF q \in sweep[s].rows /\ report[q].alerted = sweep[s].stamp
                   THEN 0 ELSE report[q].alerted
<1>1. ASSUME NEW q \in Reports
      PROVE  /\ report'[q] \in Report
             /\ RowStays(q)
             /\ report'[q].alerted =
                  IF q \in sweep[s].rows /\ report[q].alerted = sweep[s].stamp
                  THEN 0 ELSE report[q].alerted
  <2>1. report[q] \in Report
    BY ReportRow DEF StallTypeInv
  <2>2. CASE q \in sweep[s].rows /\ report[q].alerted = sweep[s].stamp
    <3>1. report'[q] = WithAlert(report[q], 0)
      BY <2>2 DEF Release, WithAlert
    <3> QED
      BY <2>1, <2>2, <3>1, WithAlertRow DEF RowStays, Stays, MailStays
  <2>3. CASE ~ (q \in sweep[s].rows /\ report[q].alerted = sweep[s].stamp)
    <3>1. report'[q] = report[q]
      BY <2>3 DEF Release
    <3> QED
      BY <2>1, <2>3, <3>1, RowUnchanged
  <2> QED
    BY <2>2, <2>3
<1>2. report' = [q \in Reports |-> report'[q]]
  BY DEF Release
<1> QED
  BY <1>1, <1>2

LEMMA QuietRow ==
  ASSUME StallTypeInv, NEW r \in Reports, FallQuiet(r)
  PROVE  /\ report' \in [Reports -> Report]
         /\ \A q \in Reports : RowStays(q) /\ report'[q].alerted = report[q].alerted
<1>1. report[r] \in Report /\ report \in [Reports -> Report]
  BY DEF StallTypeInv, TypeInv, TypeOK
<1>2. PICK row \in Report : /\ row = [report[r] EXCEPT !.quiet = TRUE]
                            /\ report' = [report EXCEPT ![r] = row]
  BY <1>1, ReportEdits DEF FallQuiet
<1>3. /\ row.status = report[r].status /\ row.active = report[r].active
      /\ row.supersededBy = report[r].supersededBy
      /\ row.isCorrection = report[r].isCorrection /\ row.key = report[r].key
      /\ row.delivered = report[r].delivered /\ row.failed = report[r].failed
      /\ row.bounced = report[r].bounced /\ row.aged = report[r].aged
      /\ row.alerted = report[r].alerted /\ row.activity = report[r].activity
  BY <1>1, <1>2 DEF Report
<1>4. /\ report' \in [Reports -> Report] /\ report'[r] = row
      /\ \A q \in Reports : q # r => report'[q] = report[q]
  BY <1>1, <1>2
<1>5. RowStays(r) /\ report'[r].alerted = report[r].alerted
  BY <1>3, <1>4 DEF RowStays, Stays, MailStays
<1> QED
  BY <1>4, <1>5, RowUnchanged

\* The steps of the sweep and of its surroundings.
SweepSide ==
  \/ \E s \in Sweepers : SweepStep(s)
  \/ \E r \in Reports : FallQuiet(r)
  \/ FillRoster
  \/ StopReporting

LEMMA SweepReports ==
  ASSUME StallTypeInv, SweepSide
  PROVE  /\ report' \in [Reports -> Report]
         /\ \A q \in Reports : RowStays(q)
         /\ UNCHANGED <<jobs, runs, remembered, copies, excused>>
         /\ faults' = faults \/ Fault
         /\ clock' = clock \/ clock' = clock + 1
<1>1. CASE report' = report
  <2>1. report \in [Reports -> Report]
    BY DEF StallTypeInv, TypeInv, TypeOK
  <2>2. \A q \in Reports : RowStays(q)
    BY <1>1, RowUnchanged
  <2>3. /\ UNCHANGED <<jobs, runs, remembered, copies, excused>>
        /\ faults' = faults \/ Fault
        /\ clock' = clock \/ clock' = clock + 1
    BY DEF SweepSide, SweepStep, Select, ClaimAlerts, ClaimAnswerLost, AlertTaken, AlertFails,
       Release, Abandon, LoseLock, FillRoster, StopReporting, FallQuiet, sendVars
  <2> QED
    BY <1>1, <2>1, <2>2, <2>3
<1>2. CASE \E s \in Sweepers : ClaimAlerts(s) \/ ClaimAnswerLost(s)
  BY <1>2, ClaimRows DEF ClaimAlerts, ClaimAnswerLost
<1>3. CASE \E s \in Sweepers : Release(s)
  <2>1. PICK s \in Sweepers : Release(s)
    BY <1>3
  <2> QED
    BY <2>1, ReleaseRows DEF Release
<1>4. CASE \E r \in Reports : FallQuiet(r)
  <2>1. PICK r \in Reports : FallQuiet(r)
    BY <1>4
  <2> QED
    BY <2>1, QuietRow DEF FallQuiet
<1>5. CASE FillRoster \/ StopReporting
  BY <1>1, <1>5 DEF FillRoster, StopReporting, sendVars
<1>6. CASE \E s \in Sweepers : \/ Select(s) \/ AlertTaken(s) \/ Abandon(s) \/ LoseLock(s)
                               \/ \E taken \in BOOLEAN : AlertFails(s, taken)
  <2>1. report' = report
    BY <1>6 DEF Select, AlertTaken, Abandon, LoseLock, AlertFails, sendVars
  <2> QED
    BY <1>1, <2>1
<1> QED
  BY <1>2, <1>3, <1>4, <1>5, <1>6 DEF SweepSide, SweepStep

LEMMA StallCases ==
  ASSUME StallNext
  PROVE  \/ SendNext /\ DeliveryNext /\ UNCHANGED sweepVars
         \/ SweepSide
<1>1. StoppedNext => DeliveryNext
  BY DEF StoppedNext, DeliveryNext, ServerStep
<1> QED
  BY <1>1 DEF StallNext, SendNext, SweepSide

-----------------------------------------------------------------------------
(* Type correctness *)

LEMMA StallTypeInit == StallInit => StallTypeInv
<1> SUFFICES ASSUME StallInit PROVE StallTypeInv
  OBVIOUS
<1>1. TypeInv
  BY SendTypeInit DEF StallInit
<1>2. Idle \in SweepRun
  BY DEF Idle, SweepRun
<1> QED
  BY <1>1, <1>2 DEF StallInit, StallTypeInv

\* What the sweep does to the state of the sends is typed.
LEMMA SweepKeepsSends ==
  ASSUME StallTypeInv, SweepSide
  PROVE  TypeInv'
<1>1. /\ report' \in [Reports -> Report]
      /\ UNCHANGED <<jobs, runs, remembered, copies, excused>>
      /\ faults' = faults \/ Fault
      /\ clock' = clock \/ clock' = clock + 1
  BY SweepReports
<1>2. TypeInv
  BY DEF StallTypeInv
<1>3. FaultsKept /\ faults' \in 0 .. MaxFaults
  BY <1>1, <1>2, SendAssumption DEF TypeInv, TypeOK, Fault, FaultsKept
<1>4. JobsTyped'
  BY <1>1, <1>2, <1>3, JobKept
<1>5. clock' \in Nat
  BY <1>1, <1>2 DEF TypeInv, TypeOK
<1>6. \A j \in DOMAIN jobs' : jobs'[j].attempts <= MaxAttempts + MaxFaults
  BY <1>1, <1>2 DEF TypeInv, TypeOK
<1>7. \A x \in runs' : x.job \in DOMAIN jobs'
  BY <1>1, <1>2 DEF TypeInv, JobInv
<1>8. /\ runs' \subseteq Run /\ remembered' \subseteq Reports \X Nat
      /\ copies' \in [Reports -> Nat] /\ excused' \in [Reports -> SUBSET Versions]
  BY <1>1, <1>2 DEF TypeInv, TypeOK
<1> QED
  BY <1>1, <1>3, <1>4, <1>5, <1>6, <1>7, <1>8 DEF TypeInv, TypeOK, JobInv, JobsTyped

\* The new row of a run, and the lock.
LEMMA RunEdit ==
  ASSUME StallTypeInv, NEW s \in Sweepers, NEW run \in SweepRun,
         sweep' = [sweep EXCEPT ![s] = run]
  PROVE  /\ sweep' \in [Sweepers -> SweepRun]
         /\ sweep'[s] = run
         /\ \A t \in Sweepers : t # s => sweep'[t] = sweep[t]
BY DEF StallTypeInv

LEMMA FinishRun ==
  ASSUME StallTypeInv, NEW s \in Sweepers, Finish(s)
  PROVE  /\ sweep' \in [Sweepers -> SweepRun]
         /\ sweep'[s].phase = "idle"
         /\ \A t \in Sweepers : t # s => sweep'[t] = sweep[t]
         /\ lock' \in Sweepers \cup {NoSweeper}
<1>1. Idle \in SweepRun /\ Idle.phase = "idle"
  BY DEF Idle, SweepRun
<1> QED
  BY <1>1, RunEdit DEF Finish, StallTypeInv

\* The run that s becomes: one in a later phase, with fewer rows.
LEMMA SelectRun ==
  ASSUME StallTypeInv, NEW s \in Sweepers, Select(s)
  PROVE  /\ sweep' \in [Sweepers -> SweepRun]
         /\ sweep'[s].phase = "selected" /\ sweep'[s].stamp = clock
         /\ \A t \in Sweepers : t # s => sweep'[t] = sweep[t]
<1>1. PICK cohort \in SUBSET Alertable :
        sweep' = [sweep EXCEPT ![s] = [phase |-> "selected", stamp |-> clock,
                                       rows |-> cohort, queued |-> 0]]
  BY DEF Select
<1>2. cohort \subseteq Reports /\ clock \in Nat
  BY DEF Alertable, StallTypeInv, TypeInv, TypeOK
<1>3. [phase |-> "selected", stamp |-> clock, rows |-> cohort, queued |-> 0] \in SweepRun
  BY <1>2 DEF SweepRun
<1> QED
  BY <1>1, <1>3, RunEdit

\* A run that claims, and one whose alert failed.
ClaimedRun(run, won, q) == [run EXCEPT !.phase = "claimed", !.rows = won, !.queued = q]
UnsentRun(run) == [run EXCEPT !.phase = "unsent"]

LEMMA RunRows ==
  ASSUME NEW run \in SweepRun, NEW won \in SUBSET Reports, NEW q \in Nat
  PROVE  /\ ClaimedRun(run, won, q) \in SweepRun
         /\ ClaimedRun(run, won, q).phase = "claimed"
         /\ ClaimedRun(run, won, q).stamp = run.stamp
         /\ ClaimedRun(run, won, q).rows = won
         /\ ClaimedRun(run, won, q).queued = q
         /\ UnsentRun(run) \in SweepRun
         /\ UnsentRun(run).phase = "unsent"
         /\ UnsentRun(run).stamp = run.stamp
         /\ UnsentRun(run).rows = run.rows
         /\ UnsentRun(run).queued = run.queued
BY DEF SweepRun, ClaimedRun, UnsentRun

LEMMA ClaimRun ==
  ASSUME StallTypeInv, NEW s \in Sweepers, ClaimAlerts(s), Won(s) # {}
  PROVE  /\ sweep' \in [Sweepers -> SweepRun]
         /\ sweep'[s].phase = "claimed" /\ sweep'[s].stamp = sweep[s].stamp
         /\ sweep'[s].rows = Won(s) /\ sweep'[s].queued = Len(jobs)
         /\ \A t \in Sweepers : t # s => sweep'[t] = sweep[t]
         /\ lock' = lock
<1>1. /\ sweep[s] \in SweepRun /\ Won(s) \in SUBSET Reports /\ Len(jobs) \in Nat
      /\ sweep \in [Sweepers -> SweepRun]
  BY SweepRow DEF Won, StallTypeInv, TypeInv, TypeOK
<1>2. PICK run : run = ClaimedRun(sweep[s], Won(s), Len(jobs))
  OBVIOUS
<1>3. sweep' = [sweep EXCEPT ![s] = run]
  BY <1>1, <1>2 DEF ClaimAlerts, ClaimedRun
<1>4. /\ run \in SweepRun /\ run.phase = "claimed" /\ run.stamp = sweep[s].stamp
      /\ run.rows = Won(s) /\ run.queued = Len(jobs)
  <2>1. PICK won \in SUBSET Reports, q \in Nat : won = Won(s) /\ q = Len(jobs)
    BY <1>1
  <2>2. run = ClaimedRun(sweep[s], won, q)
    BY <1>2, <2>1
  <2>3. /\ run \in SweepRun /\ run.phase = "claimed" /\ run.stamp = sweep[s].stamp
        /\ run.rows = won /\ run.queued = q
    BY <1>1, <2>2 DEF SweepRun, ClaimedRun
  <2> QED
    BY <2>1, <2>3
<1>5. lock' = lock
  BY DEF ClaimAlerts
<1> QED
  BY <1>3, <1>4, <1>5, RunEdit

LEMMA FailedRun ==
  ASSUME StallTypeInv, NEW s \in Sweepers, NEW taken \in BOOLEAN, AlertFails(s, taken)
  PROVE  /\ sweep' \in [Sweepers -> SweepRun]
         /\ sweep'[s].phase = "unsent" /\ sweep'[s].stamp = sweep[s].stamp
         /\ sweep'[s].rows = sweep[s].rows /\ sweep'[s].queued = sweep[s].queued
         /\ \A t \in Sweepers : t # s => sweep'[t] = sweep[t]
<1>1. sweep[s] \in SweepRun /\ sweep \in [Sweepers -> SweepRun]
  BY SweepRow DEF StallTypeInv
<1>2. PICK run : run = UnsentRun(sweep[s])
  OBVIOUS
<1>3. sweep' = [sweep EXCEPT ![s] = run]
  BY <1>1, <1>2 DEF AlertFails, UnsentRun
<1>4. /\ run \in SweepRun /\ run.phase = "unsent" /\ run.stamp = sweep[s].stamp
      /\ run.rows = sweep[s].rows /\ run.queued = sweep[s].queued
  BY <1>1, <1>2, RunRows
<1> QED
  BY <1>3, <1>4, RunEdit

\* The announcements of a run.
LEMMA MailedType ==
  ASSUME StallTypeInv, NEW s \in Sweepers, NEW sure \in BOOLEAN, Mailed(s, sure)
  PROVE  /\ alertKeys' \subseteq Nat \X SUBSET Reports
         /\ told' \subseteq Announcement
         /\ told \subseteq told'
         /\ \A a \in told' \ told : /\ a.about \in sweep[s].rows
                                    /\ a.stamp = sweep[s].stamp
                                    /\ a.queued = sweep[s].queued
                                    /\ a.sure = sure
<1>1. sweep[s].stamp \in Nat /\ sweep[s].queued \in Nat /\ sweep[s].rows \subseteq Reports
  BY SweepRow
<1>2. AlertKey(s) \in Nat \X SUBSET Reports
  BY <1>1 DEF AlertKey
<1>3. alertKeys \subseteq Nat \X SUBSET Reports /\ told \subseteq Announcement
  BY DEF StallTypeInv
<1>4. alertKeys' \subseteq Nat \X SUBSET Reports
  BY <1>2, <1>3 DEF Mailed
<1> DEFINE new == {[about |-> r, stamp |-> sweep[s].stamp, queued |-> sweep[s].queued,
                    sure |-> sure] : r \in sweep[s].rows}
<1>5. told' = told \/ told' = told \cup new
  BY DEF Mailed
<1>6. \A a \in new : /\ a \in Announcement /\ a.about \in sweep[s].rows
                     /\ a.stamp = sweep[s].stamp /\ a.queued = sweep[s].queued
                     /\ a.sure = sure
  BY <1>1 DEF Announcement
<1> HIDE DEF new
<1> QED
  BY <1>3, <1>4, <1>5, <1>6

LEMMA StallTypeStep == StallTypeInv /\ [StallNext]_stallVars => StallTypeInv'
<1> SUFFICES ASSUME StallTypeInv, [StallNext]_stallVars PROVE StallTypeInv'
  OBVIOUS
<1>0. TypeInv
  BY DEF StallTypeInv
<1>1. CASE UNCHANGED stallVars
  <2>1. UNCHANGED sendVars /\ UNCHANGED sweepVars
    BY <1>1 DEF stallVars
  <2>2. TypeInv'
    BY <1>0, <2>1, SendTypeStep
  <2> QED
    BY <2>1, <2>2 DEF sweepVars, StallTypeInv
<1>2. CASE SendNext /\ UNCHANGED sweepVars
  <2>1. TypeInv'
    BY <1>0, <1>2, SendTypeStep
  <2> QED
    BY <1>2, <2>1 DEF sweepVars, StallTypeInv
<1>3. CASE SweepSide
  <2>1. TypeInv'
    BY <1>3, SweepKeepsSends
  <2>2. /\ reporting' \in BOOLEAN
        /\ sweep' \in [Sweepers -> SweepRun] /\ lock' \in Sweepers \cup {NoSweeper}
        /\ roster' \in BOOLEAN
        /\ alertKeys' \subseteq Nat \X SUBSET Reports /\ told' \subseteq Announcement
        /\ muted' \subseteq Reports \X Nat
    <3>0. /\ reporting \in BOOLEAN
          /\ sweep \in [Sweepers -> SweepRun] /\ lock \in Sweepers \cup {NoSweeper}
          /\ roster \in BOOLEAN
          /\ alertKeys \subseteq Nat \X SUBSET Reports /\ told \subseteq Announcement
          /\ muted \subseteq Reports \X Nat
      BY DEF StallTypeInv
    <3>1. CASE (\E r \in Reports : FallQuiet(r)) \/ FillRoster \/ StopReporting
      BY <3>0, <3>1 DEF FallQuiet, FillRoster, StopReporting, sweepVars
    <3> SUFFICES ASSUME NEW s \in Sweepers, SweepStep(s)
                 PROVE  /\ reporting' \in BOOLEAN
                        /\ sweep' \in [Sweepers -> SweepRun]
                        /\ lock' \in Sweepers \cup {NoSweeper}
                        /\ roster' \in BOOLEAN
                        /\ alertKeys' \subseteq Nat \X SUBSET Reports
                        /\ told' \subseteq Announcement
                        /\ muted' \subseteq Reports \X Nat
      BY <1>3, <3>1 DEF SweepSide
    <3>2. CASE Select(s)
      BY <3>0, <3>2, SelectRun DEF Select
    <3>3. CASE ClaimAlerts(s)
      BY <3>0, <3>3, ClaimRun, FinishRun DEF ClaimAlerts
    <3>4. CASE ClaimAnswerLost(s)
      <4>1. muted' \subseteq Reports \X Nat
        BY <3>0, <3>4, SweepRow DEF ClaimAnswerLost, Won
      <4> QED
        BY <3>0, <3>4, <4>1, FinishRun DEF ClaimAnswerLost
    <3>5. CASE AlertTaken(s)
      BY <3>0, <3>5, FinishRun, MailedType DEF AlertTaken
    <3>6. CASE \E taken \in BOOLEAN : AlertFails(s, taken)
      BY <3>0, <3>6, FailedRun, MailedType DEF AlertFails
    <3>7. CASE Release(s)
      BY <3>0, <3>7, FinishRun DEF Release
    <3>8. CASE Abandon(s)
      <4>1. muted' \subseteq Reports \X Nat
        BY <3>0, <3>8, SweepRow DEF Abandon
      <4> QED
        BY <3>0, <3>8, <4>1, FinishRun DEF Abandon
    <3>9. CASE LoseLock(s)
      BY <3>0, <3>9 DEF LoseLock
    <3> QED
      BY <3>2, <3>3, <3>4, <3>5, <3>6, <3>7, <3>8, <3>9 DEF SweepStep
  <2> QED
    BY <2>1, <2>2 DEF StallTypeInv
<1> QED
  BY <1>1, <1>2, <1>3, StallCases

-----------------------------------------------------------------------------
(* A claim is backed *)

\* What a step of the sends does to the alert of a row: nothing, or a retry
\* takes the stamp off and queues a job about it.
LEMMA AlertEdit ==
  ASSUME TypeInv, NEW r \in Reports, NEW row \in Report,
         report' = [report EXCEPT ![r] = row],
         row.alerted = report[r].alerted, row.activity \in {report[r].activity, clock},
         NEW q \in Reports
  PROVE  /\ report'[q].alerted = report[q].alerted
         /\ report'[q].activity \in {report[q].activity, clock}
<1>1. /\ report'[r] = row
      /\ \A p \in Reports : p # r => report'[p] = report[p]
  BY RowEdit
<1>2. CASE q = r
  BY <1>1, <1>2
<1>3. CASE q # r
  BY <1>1, <1>3
<1> QED
  BY <1>2, <1>3

LEMMA InsertAlert ==
  ASSUME TypeInv, NEW w \in Weeks, NEW n \in Versions, Inserts(w, n), NEW q \in Reports
  PROVE  \/ report'[q] = report[q]
         \/ report'[q].alerted = 0 /\ report[q].status = "absent"
<1>1. /\ report[<<w, n>>].status = "absent"
      /\ \A p \in Reports : p # <<w, n>> => report'[p] = report[p]
  BY InsertEffect
<1>2. <<w, n>> \in Reports /\ report \in [Reports -> Report]
  BY DEF Reports, TypeInv, TypeOK
<1>3. PICK row : /\ row = [NoReport EXCEPT !.status = "approved", !.active = TRUE]
                 /\ report' = [report EXCEPT ![<<w, n>>] = row]
  BY InsertReport
<1>4. row.alerted = 0
  BY <1>3 DEF NoReport
<1>5. report'[<<w, n>>] = row
  BY <1>2, <1>3
<1> QED
  BY <1>1, <1>4, <1>5

LEMMA SendAlert ==
  ASSUME TypeInv, NEW w \in Weeks, NEW n \in Versions, Send(w, n), NEW q \in Reports
  PROVE  /\ report'[q].alerted = report[q].alerted
         /\ report'[q].activity \in {report[q].activity, clock}
<1>1. report[q] \in Report /\ clock \in Nat /\ n \in Nat
  BY SendAssumption DEF TypeInv, TypeOK, Versions
<1>2. PICK b \in BOOLEAN : b = PriorReached(w, n)
  BY DEF PriorReached
<1>3. CASE q = <<w, n>>
  <2>1. report'[q] = SentRow(report[q], n, b, clock)
    BY <1>2, <1>3 DEF Send, SentRow
  <2> QED
    BY <1>1, <2>1 DEF SentRow, Report
<1>4. CASE q # <<w, n>>
  <2>1. report'[q] = report[q] \/ report'[q] = SupersededRow(report[q], n)
    BY <1>4 DEF Send, SupersededRow
  <2> QED
    BY <1>1, <2>1 DEF SupersededRow, Report
<1> QED
  BY <1>3, <1>4

LEMMA RetryAlert ==
  ASSUME TypeInv, NEW w \in Weeks, NEW n \in Versions, NEW acknowledged \in BOOLEAN,
         Retry(w, n, acknowledged), NEW q \in Reports
  PROVE  \/ report'[q] = report[q]
         \/ /\ report'[q].alerted = 0 /\ report'[q].activity = clock
            /\ Len(jobs') = Len(jobs) + 1
            /\ \E j \in Nat : j = Len(jobs) + 1 /\ Subject(j)' = q
<1>1. <<w, n>> \in Reports /\ report[<<w, n>>] \in Report /\ report[<<w, n>>].key \in Nat
      /\ clock \in Nat
  BY ReportRow DEF Reports, Report, TypeInv, TypeOK
<1>2. PICK row \in Report :
        /\ row = [report[<<w, n>>] EXCEPT !.failed = FALSE, !.activity = clock,
                                          !.quiet = FALSE, !.alerted = 0]
        /\ report' = [report EXCEPT ![<<w, n>>] = row]
  BY <1>1, ReportTimes DEF Retry, Retried
<1>3. row.alerted = 0 /\ row.activity = clock
  BY <1>1, <1>2 DEF Report
<1>4. /\ report'[<<w, n>>] = row
      /\ \A p \in Reports : p # <<w, n>> => report'[p] = report[p]
  BY <1>1, <1>2, RowEdit
<1>5. FaultsKept /\ QueueJob(w, n, report[<<w, n>>].key)
  BY SendAssumption DEF FaultsKept, TypeInv, TypeOK, Retry
<1>6. /\ Len(jobs') = Len(jobs) + 1
      /\ jobs'[Len(jobs) + 1].week = w /\ jobs'[Len(jobs) + 1].version = n
  BY <1>1, <1>5, JobAdded
<1>7. PICK j \in Nat : j = Len(jobs) + 1
  BY DEF TypeInv, TypeOK
<1>8. Subject(j)' = <<w, n>>
  BY <1>6, <1>7 DEF Subject
<1> QED
  BY <1>3, <1>4, <1>6, <1>7, <1>8

LEMMA TameAlert ==
  ASSUME TypeInv, NEW q \in Reports,
         \/ \E w \in Weeks, n \in Versions : Delete(w, n)
         \/ \E j \in DOMAIN jobs : Start(j) \/ \E died \in BOOLEAN : Redeliver(j, died)
         \/ \E x \in runs : RunStep(x)
         \/ \E r \in Reports : Bounce(r) \/ Age(r)
         \/ \E k \in remembered : Forget(k)
  PROVE  /\ report'[q].alerted = report[q].alerted
         /\ report'[q].activity \in {report[q].activity, clock}
<1>0. report \in [Reports -> Report] /\ clock \in Nat
  BY DEF TypeInv, TypeOK
<1>1. CASE report' = report
  BY <1>1
<1>2. ASSUME NEW r \in Reports, Bounce(r) \/ Age(r)
      PROVE  /\ report'[q].alerted = report[q].alerted
             /\ report'[q].activity \in {report[q].activity, clock}
  <2>1. PICK row \in Report :
          /\ report' = [report EXCEPT ![r] = row]
          /\ row = [report[r] EXCEPT !.bounced = TRUE] \/ row = [report[r] EXCEPT !.aged = TRUE]
    BY <1>0, <1>2, ReportEdits DEF Bounce, Age
  <2>2. row.alerted = report[r].alerted /\ row.activity = report[r].activity
    BY <1>0, <2>1 DEF Report
  <2> QED
    BY <2>1, <2>2, AlertEdit
<1>3. ASSUME NEW w \in Weeks, NEW n \in Versions, Delete(w, n)
      PROVE  /\ report'[q].alerted = report[q].alerted
             /\ report'[q].activity \in {report[q].activity, clock}
  <2>0. <<w, n>> \in Reports
    BY DEF Reports
  <2>1. PICK row \in Report :
          /\ report' = [report EXCEPT ![<<w, n>>] = row]
          /\ row = [report[<<w, n>>] EXCEPT !.active = FALSE]
    BY <1>0, <1>3, <2>0, ReportEdits DEF Delete
  <2>2. row.alerted = report[<<w, n>>].alerted /\ row.activity = report[<<w, n>>].activity
    BY <1>0, <2>0, <2>1 DEF Report
  <2> QED
    BY <2>0, <2>1, <2>2, AlertEdit
<1>4. ASSUME NEW x \in runs, RecordFailure(x) \/ RecordDelivery(x)
      PROVE  /\ report'[q].alerted = report[q].alerted
             /\ report'[q].activity \in {report[q].activity, clock}
  <2> DEFINE r == Subject(x.job)
  <2>0. r \in Reports
    BY JobRow DEF TypeInv, JobInv
  <2>1. CASE report' # report
    <3>1. PICK row \in Report :
            /\ report' = [report EXCEPT ![r] = row]
            /\ \/ row = [report[r] EXCEPT !.failed = TRUE, !.activity = clock, !.quiet = FALSE]
               \/ row = [report[r] EXCEPT !.delivered = TRUE, !.failed = FALSE,
                                          !.activity = clock, !.quiet = FALSE]
      BY <1>0, <1>4, <2>0, <2>1, ReportTimes DEF RecordFailure, RecordDelivery
    <3>2. row.alerted = report[r].alerted /\ row.activity = clock
      BY <1>0, <2>0, <3>1 DEF Report
    <3> QED
      BY <2>0, <3>1, <3>2, AlertEdit
  <2> QED
    BY <1>1, <2>1
<1>5. CASE (\E j \in DOMAIN jobs : Start(j) \/ \E died \in BOOLEAN : Redeliver(j, died))
           \/ \E k \in remembered : Forget(k)
  BY <1>1, <1>5 DEF Start, Redeliver, Forget
<1>6. CASE \E x \in runs : LastLook(x) \/ ProviderAccepts(x) \/ RecordLost(x)
                           \/ \E taken \in BOOLEAN : ProviderFails(x, taken)
  BY <1>1, <1>6 DEF LastLook, ProviderAccepts, ProviderFails, RecordLost
<1> QED
  BY <1>2, <1>3, <1>4, <1>5, <1>6 DEF RunStep

LEMMA AlertStep ==
  ASSUME TypeInv, SendNext, NEW q \in Reports
  PROVE  \/ /\ report'[q].alerted = report[q].alerted
            /\ report'[q].activity \in {report[q].activity, clock}
         \/ report'[q].alerted = 0 /\ report[q].status = "absent"
         \/ /\ report'[q].alerted = 0 /\ report'[q].activity = clock
            /\ Len(jobs') = Len(jobs) + 1
            /\ \E j \in Nat : j = Len(jobs) + 1 /\ Subject(j)' = q
BY SendCases, InsertAlert, SendAlert, RetryAlert, TameAlert

\* The claim t on row r is held by run s.
HeldBy(s, r, t) ==
  /\ sweep[s].phase \in {"claimed", "unsent"}
  /\ sweep[s].stamp = t
  /\ r \in sweep[s].rows

Backed(r, t) == WentOut(r, t) \/ <<r, t>> \in muted \/ \E s \in Sweepers : HeldBy(s, r, t)

LEMMA BackedForm ==
  ClaimIsBacked <=> \A r \in Reports : report[r].alerted # 0 => Backed(r, report[r].alerted)
BY DEF ClaimIsBacked, Backed, HeldBy

\* The alert of a run is out, or was already, and its key is known.
LEMMA MailedGoesOut ==
  ASSUME StallTypeInv, KeyBacked, NEW s \in Sweepers, NEW sure \in BOOLEAN, Mailed(s, sure)
  PROVE  /\ KeyBacked'
         /\ \A r \in sweep[s].rows : \E a \in told' : a.about = r /\ a.stamp = sweep[s].stamp
<1> DEFINE new == {[about |-> r, stamp |-> sweep[s].stamp, queued |-> sweep[s].queued,
                    sure |-> sure] : r \in sweep[s].rows}
<1>1. /\ alertKeys' = alertKeys \cup {<<sweep[s].stamp, sweep[s].rows>>}
      /\ told' = IF <<sweep[s].stamp, sweep[s].rows>> \in alertKeys THEN told ELSE told \cup new
  BY DEF Mailed, AlertKey
<1>2. \A r \in sweep[s].rows : \E a \in told' : a.about = r /\ a.stamp = sweep[s].stamp
  <2>1. CASE <<sweep[s].stamp, sweep[s].rows>> \in alertKeys
    BY <1>1, <2>1 DEF KeyBacked, WentOut
  <2>2. CASE <<sweep[s].stamp, sweep[s].rows>> \notin alertKeys
    <3> SUFFICES ASSUME NEW r \in sweep[s].rows
                 PROVE  \E a \in told' : a.about = r /\ a.stamp = sweep[s].stamp
      OBVIOUS
    <3>1. PICK a : a = [about |-> r, stamp |-> sweep[s].stamp, queued |-> sweep[s].queued,
                        sure |-> sure]
      OBVIOUS
    <3>2. a \in told' /\ a.about = r /\ a.stamp = sweep[s].stamp
      BY <1>1, <2>2, <3>1
    <3> QED
      BY <3>2
  <2> QED
    BY <2>1, <2>2
<1>3. told \subseteq told'
  BY <1>1
<1> HIDE DEF new
<1>4. ASSUME NEW k \in alertKeys', NEW r \in k[2]
      PROVE  \E a \in told' : a.about = r /\ a.stamp = k[1]
  <2>1. CASE k \in alertKeys
    BY <1>3, <2>1 DEF KeyBacked, WentOut
  <2>2. CASE k = <<sweep[s].stamp, sweep[s].rows>>
    <3>1. k[1] = sweep[s].stamp /\ k[2] = sweep[s].rows
      BY <2>2
    <3> QED
      BY <1>2, <3>1
  <2> QED
    BY <1>1, <2>1, <2>2
<1> QED
  BY <1>2, <1>4 DEF KeyBacked, WentOut

\* A claim stays backed while its history is kept and its run keeps it, mails
\* it or is written off.
LEMMA BackingKept ==
  ASSUME told \subseteq told', muted \subseteq muted', NEW r, NEW t, Backed(r, t),
         \A s \in Sweepers : HeldBy(s, r, t) =>
           \/ HeldBy(s, r, t)'
           \/ \E a \in told' : a.about = r /\ a.stamp = t
           \/ <<r, t>> \in muted'
  PROVE  Backed(r, t)'
BY DEF Backed, WentOut

LEMMA HeldKept ==
  ASSUME NEW s, sweep'[s] = sweep[s], NEW r, NEW t, HeldBy(s, r, t)
  PROVE  HeldBy(s, r, t)'
BY DEF HeldBy

LEMMA BackedInit == StallInit => BackedInv
<1> SUFFICES ASSUME StallInit PROVE BackedInv
  OBVIOUS
<1>1. \A r \in Reports : report[r].alerted = 0
  BY DEF StallInit, Init, NoReport
<1> QED
  BY <1>1 DEF StallInit, BackedInv, KeyBacked, ClaimIsBacked

LEMMA BackedStep == StallTypeInv /\ BackedInv /\ [StallNext]_stallVars => BackedInv'
<1> SUFFICES ASSUME StallTypeInv, BackedInv, [StallNext]_stallVars PROVE BackedInv'
  OBVIOUS
<1>0. TypeInv /\ KeyBacked
      /\ \A r \in Reports : report[r].alerted # 0 => Backed(r, report[r].alerted)
  BY BackedForm DEF StallTypeInv, BackedInv
\* It is enough that the claims of the rows before stay backed and that new
\* ones are backed.
<1>1. SUFFICES KeyBacked' /\ \A r \in Reports : report'[r].alerted # 0 =>
                               \E t \in {report'[r].alerted} : Backed(r, t)'
  BY DEF BackedInv, ClaimIsBacked, Backed, HeldBy
<1>2. ASSUME alertKeys' = alertKeys, told \subseteq told' PROVE KeyBacked'
  BY <1>0, <1>2 DEF KeyBacked, WentOut
<1>3. ASSUME UNCHANGED sweepVars,
             \A q \in Reports : report'[q].alerted \in {0, report[q].alerted}
      PROVE  KeyBacked' /\ \A r \in Reports : report'[r].alerted # 0 =>
                             \E t \in {report'[r].alerted} : Backed(r, t)'
  <2>1. \A r \in Reports : \A t \in {report[r].alerted} : Backed(r, t) => Backed(r, t)'
    BY <1>3 DEF Backed, HeldBy, WentOut, sweepVars
  <2>2. KeyBacked'
    BY <1>2, <1>3 DEF sweepVars
  <2> QED
    BY <1>0, <1>3, <2>1, <2>2
<1>4. CASE UNCHANGED stallVars
  BY <1>3, <1>4 DEF stallVars, sendVars
<1>5. CASE SendNext /\ UNCHANGED sweepVars
  BY <1>0, <1>3, <1>5, AlertStep
<1>6. CASE (\E r \in Reports : FallQuiet(r)) \/ FillRoster \/ StopReporting
  <2>1. CASE \E r \in Reports : FallQuiet(r)
    BY <1>3, <2>1, QuietRow DEF FallQuiet
  <2>2. CASE FillRoster \/ StopReporting
    <3>1. UNCHANGED <<report, sweep, alertKeys, told, muted>>
      BY <2>2 DEF FillRoster, StopReporting, sendVars
    <3>2. \A r \in Reports : \A t \in {report[r].alerted} : Backed(r, t) => Backed(r, t)'
      BY <3>1 DEF Backed, HeldBy, WentOut
    <3> QED
      BY <1>0, <1>2, <3>1, <3>2
  <2> QED
    BY <1>6, <2>1, <2>2
<1>7. ASSUME NEW s \in Sweepers, SweepStep(s)
      PROVE  KeyBacked' /\ \A r \in Reports : report'[r].alerted # 0 =>
                             \E t \in {report'[r].alerted} : Backed(r, t)'
  \* The other runs keep what they hold.
  <2>1. ASSUME told \subseteq told', muted \subseteq muted',
               \A u \in Sweepers : u # s => sweep'[u] = sweep[u],
               NEW r \in Reports, NEW t, Backed(r, t),
               HeldBy(s, r, t) => \/ HeldBy(s, r, t)'
                                  \/ \E a \in told' : a.about = r /\ a.stamp = t
                                  \/ <<r, t>> \in muted'
        PROVE  Backed(r, t)'
    BY <2>1, BackingKept, HeldKept
  <2>2. CASE Select(s)
    <3>1. /\ UNCHANGED <<report, alertKeys, told, muted>>
          /\ \A u \in Sweepers : u # s => sweep'[u] = sweep[u]
          /\ sweep[s].phase = "idle"
      BY <2>2, SelectRun DEF Select
    <3>2. \A r, t : ~ HeldBy(s, r, t)
      BY <3>1 DEF HeldBy
    <3> QED
      BY <1>0, <1>2, <2>1, <3>1, <3>2
  <2>3. CASE ClaimAlerts(s)
    <3>1. /\ UNCHANGED <<alertKeys, told, muted>> /\ sweep[s].phase = "selected"
          /\ report' = Stamped(s)
      BY <2>3 DEF ClaimAlerts
    <3>2. \A r, t : ~ HeldBy(s, r, t)
      BY <3>1 DEF HeldBy
    <3>3. \A u \in Sweepers : u # s => sweep'[u] = sweep[u]
      BY <2>3, ClaimRun, FinishRun DEF ClaimAlerts
    <3> SUFFICES ASSUME NEW r \in Reports, report'[r].alerted # 0
                 PROVE  \E t \in {report'[r].alerted} : Backed(r, t)'
      BY <1>2, <3>1
    <3>4. CASE r \in Won(s)
      <4>1. Won(s) # {} /\ report'[r].alerted = sweep[s].stamp
        BY <3>1, <3>4, ClaimRows
      <4>2. /\ sweep'[s].phase = "claimed" /\ sweep'[s].stamp = report'[r].alerted
            /\ r \in sweep'[s].rows
        BY <2>3, <3>4, <4>1, ClaimRun
      <4> QED
        BY <4>2 DEF Backed, HeldBy
    <3>5. CASE r \notin Won(s)
      <4>1. report'[r].alerted = report[r].alerted
        BY <3>1, <3>5, ClaimRows
      <4>2. PICK t : t = report[r].alerted
        OBVIOUS
      <4>3. Backed(r, t)
        BY <1>0, <4>1, <4>2
      <4> QED
        BY <2>1, <3>1, <3>2, <3>3, <4>1, <4>2, <4>3
    <3> QED
      BY <3>4, <3>5
  <2>4. CASE ClaimAnswerLost(s)
    <3>1. /\ UNCHANGED <<alertKeys, told>> /\ sweep[s].phase = "selected"
          /\ report' = Stamped(s) /\ muted \subseteq muted'
          /\ \A r \in Won(s) : <<r, sweep[s].stamp>> \in muted'
      BY <2>4 DEF ClaimAnswerLost
    <3>2. \A r, t : ~ HeldBy(s, r, t)
      BY <3>1 DEF HeldBy
    <3>3. \A u \in Sweepers : u # s => sweep'[u] = sweep[u]
      BY <2>4, FinishRun DEF ClaimAnswerLost
    <3> SUFFICES ASSUME NEW r \in Reports, report'[r].alerted # 0
                 PROVE  \E t \in {report'[r].alerted} : Backed(r, t)'
      BY <1>2, <3>1
    <3>4. CASE r \in Won(s)
      <4>1. report'[r].alerted = sweep[s].stamp
        BY <3>1, <3>4, ClaimRows
      <4> QED
        BY <3>1, <3>4, <4>1 DEF Backed
    <3>5. CASE r \notin Won(s)
      <4>1. report'[r].alerted = report[r].alerted
        BY <3>1, <3>5, ClaimRows
      <4>2. PICK t : t = report[r].alerted
        OBVIOUS
      <4>3. Backed(r, t)
        BY <1>0, <4>1, <4>2
      <4> QED
        BY <2>1, <3>1, <3>2, <3>3, <4>1, <4>2, <4>3
    <3> QED
      BY <3>4, <3>5
  <2>5. CASE AlertTaken(s)
    <3>1. /\ KeyBacked' /\ told \subseteq told' /\ UNCHANGED <<report, muted>>
          /\ \A r \in sweep[s].rows : \E a \in told' : a.about = r /\ a.stamp = sweep[s].stamp
      BY <1>0, <2>5, MailedGoesOut, MailedType DEF AlertTaken, sendVars
    <3>2. \A u \in Sweepers : u # s => sweep'[u] = sweep[u]
      BY <2>5, FinishRun DEF AlertTaken
    <3>3. \A r, t : HeldBy(s, r, t) => \E a \in told' : a.about = r /\ a.stamp = t
      BY <3>1 DEF HeldBy
    <3> SUFFICES ASSUME NEW r \in Reports, report'[r].alerted # 0
                 PROVE  \E t \in {report'[r].alerted} : Backed(r, t)'
      BY <3>1
    <3>4. PICK t : t = report[r].alerted
      OBVIOUS
    <3>5. Backed(r, t)
      BY <1>0, <3>1, <3>4
    <3>6. /\ told \subseteq told' /\ muted \subseteq muted'
          /\ HeldBy(s, r, t) => \E a \in told' : a.about = r /\ a.stamp = t
      BY <3>1, <3>3
    <3>7. Backed(r, t)'
      <4>1. CASE HeldBy(s, r, t)
        BY <3>6, <4>1 DEF Backed, WentOut
      <4>2. CASE ~ HeldBy(s, r, t)
        BY <2>1, <3>2, <3>5, <3>6, <4>2
      <4> QED
        BY <4>1, <4>2
    <3> QED
      BY <3>1, <3>4, <3>7
  <2>6. CASE \E taken \in BOOLEAN : AlertFails(s, taken)
    <3>1. KeyBacked' /\ told \subseteq told' /\ UNCHANGED <<report, muted>>
      BY <1>0, <1>2, <2>6, MailedGoesOut, MailedType DEF AlertFails
    <3>2. /\ \A u \in Sweepers : u # s => sweep'[u] = sweep[u]
          /\ sweep'[s].phase = "unsent" /\ sweep'[s].stamp = sweep[s].stamp
          /\ sweep'[s].rows = sweep[s].rows
      BY <2>6, FailedRun
    <3>3. \A r, t : HeldBy(s, r, t) => HeldBy(s, r, t)'
      BY <3>2 DEF HeldBy
    <3> QED
      BY <1>0, <2>1, <3>1, <3>2, <3>3
  <2>7. CASE Release(s)
    <3>1. /\ UNCHANGED <<alertKeys, told, muted>>
          /\ \A u \in Sweepers : u # s => sweep'[u] = sweep[u]
      BY <2>7, FinishRun DEF Release
    <3> SUFFICES ASSUME NEW r \in Reports, report'[r].alerted # 0
                 PROVE  \E t \in {report'[r].alerted} : Backed(r, t)'
      BY <1>2, <3>1
    <3>2. /\ report'[r].alerted = report[r].alerted
          /\ ~ (r \in sweep[s].rows /\ report[r].alerted = sweep[s].stamp)
      BY <2>7, ReleaseRows
    <3>3. PICK t : t = report[r].alerted
      OBVIOUS
    <3>4. ~ HeldBy(s, r, t) /\ Backed(r, t)
      BY <1>0, <3>2, <3>3 DEF HeldBy
    <3> QED
      BY <2>1, <3>1, <3>2, <3>3, <3>4
  <2>8. CASE Abandon(s)
    <3>1. /\ UNCHANGED <<report, alertKeys, told>> /\ muted \subseteq muted'
          /\ \A u \in Sweepers : u # s => sweep'[u] = sweep[u]
          /\ sweep[s].phase # "selected" =>
               \A r \in sweep[s].rows : <<r, sweep[s].stamp>> \in muted'
      BY <2>8, FinishRun DEF Abandon
    <3>2. \A r, t : HeldBy(s, r, t) => <<r, t>> \in muted'
      BY <3>1 DEF HeldBy
    <3> QED
      BY <1>0, <1>2, <2>1, <3>1, <3>2
  <2>9. CASE LoseLock(s)
    <3>1. UNCHANGED <<report, sweep, alertKeys, told, muted>>
      BY <2>9 DEF LoseLock
    <3>2. \A r, t : HeldBy(s, r, t) => HeldBy(s, r, t)'
      BY <3>1 DEF HeldBy
    <3> QED
      BY <1>0, <1>2, <2>1, <3>1, <3>2
  <2> QED
    BY <1>7, <2>2, <2>3, <2>4, <2>5, <2>6, <2>7, <2>8, <2>9 DEF SweepStep
<1> QED
  BY <1>4, <1>5, <1>6, <1>7, StallCases DEF SweepSide

\* The sends and the sweep keep their state in its domains.
THEOREM StallTypeCorrect == StallSpec => []StallTypeInv
BY StallTypeInit, StallTypeStep, PTL DEF StallSpec

\* A row that reads as announced was announced under the stamp it carries, is
\* held by a run that can give the claim back, or was left by a run that lost
\* the database or its life.
THEOREM AnnouncedRowsAreBacked == StallSpec => []ClaimIsBacked
<1>1. BackedInv => ClaimIsBacked
  BY DEF BackedInv
<1> QED
  BY <1>1, StallTypeInit, StallTypeStep, BackedInit, BackedStep, PTL DEF StallSpec

-----------------------------------------------------------------------------
(* One alert for each stall *)

\* What a step of worker s does to the runs: the others stay, and its own run
\* ends, goes on under its stamp, or begins under the time.
LEMMA RunMoves ==
  ASSUME StallTypeInv, NEW s \in Sweepers, SweepStep(s)
  PROVE  /\ \A u \in Sweepers : u # s => sweep'[u] = sweep[u]
         /\ \/ sweep'[s].phase = "idle" /\ clock' = clock
            \/ sweep'[s].stamp = sweep[s].stamp /\ sweep[s].phase # "idle" /\ clock' = clock
            \/ sweep'[s] = sweep[s] /\ clock' = clock
            \/ /\ sweep'[s].stamp = clock /\ sweep[s].phase = "idle"
               /\ clock' = clock + 1 /\ told' = told
<1>1. CASE Select(s)
  BY <1>1, SelectRun DEF Select
<1>2. CASE ClaimAlerts(s)
  BY <1>2, ClaimRun, FinishRun DEF ClaimAlerts
<1>3. CASE ClaimAnswerLost(s) \/ AlertTaken(s) \/ Release(s) \/ Abandon(s)
  BY <1>3, FinishRun DEF ClaimAnswerLost, AlertTaken, Release, Abandon, sendVars
<1>4. CASE \E taken \in BOOLEAN : AlertFails(s, taken)
  BY <1>4, FailedRun DEF AlertFails
<1>5. CASE LoseLock(s)
  BY <1>5 DEF LoseLock
<1> QED
  BY <1>1, <1>2, <1>3, <1>4, <1>5 DEF SweepStep

\* Only an alert that was taken is an announcement whose mail was confirmed.
LEMMA NewlyTold ==
  ASSUME StallTypeInv, NEW s \in Sweepers, SweepStep(s), NEW a \in told', a \notin told, a.sure
  PROVE  /\ sweep[s].phase = "claimed" /\ sweep'[s].phase = "idle"
         /\ a.about \in sweep[s].rows /\ a.stamp = sweep[s].stamp
         /\ a.queued = sweep[s].queued
<1>1. CASE AlertTaken(s)
  BY <1>1, MailedType, FinishRun DEF AlertTaken
<1>2. ASSUME NEW taken \in BOOLEAN, AlertFails(s, taken)
      PROVE  FALSE
  <2>1. Mailed(s, FALSE)
    BY <1>2 DEF AlertFails
  <2>2. a.sure = FALSE
    BY <2>1, MailedType
  <2> QED
    BY <2>2
<1>3. CASE Select(s) \/ ClaimAlerts(s) \/ ClaimAnswerLost(s) \/ Release(s) \/ Abandon(s)
           \/ LoseLock(s)
  BY <1>3 DEF Select, ClaimAlerts, ClaimAnswerLost, Release, Abandon, LoseLock
<1> QED
  BY <1>1, <1>2, <1>3 DEF SweepStep

LEMMA StampsStep ==
  ASSUME StallTypeInv, RunStamps, ConfirmedApart, NEW s \in Sweepers, SweepStep(s)
  PROVE  RunStamps' /\ ConfirmedApart'
<1>0. /\ clock \in Nat /\ clock > 0
      /\ \A u \in Sweepers : sweep[u].stamp \in Nat
      /\ \A a \in told : a.stamp \in Nat
      /\ told' \subseteq Announcement
  <2>1. StallTypeInv'
    BY StallTypeStep DEF StallNext
  <2>2. told \subseteq Announcement /\ clock \in Nat /\ told' \subseteq Announcement
    BY <2>1 DEF StallTypeInv, TypeInv, TypeOK
  <2> QED
    BY <2>2, SweepRow DEF RunStamps, Announcement
<1>1. clock' \in Nat /\ clock' >= clock
  BY <1>0, RunMoves
\* Every run of the step carries an old stamp of the same worker, or the time.
<1>2. ASSUME NEW u \in Sweepers, sweep'[u].phase # "idle"
      PROVE  \/ /\ sweep'[u].stamp = sweep[u].stamp /\ sweep[u].phase # "idle"
             \/ u = s /\ sweep'[u].stamp = clock /\ clock' = clock + 1 /\ told' = told
  BY <1>2, RunMoves
<1>3. RunStamps'
  <2>1. ASSUME NEW u \in Sweepers, sweep'[u].phase # "idle"
        PROVE  0 < sweep'[u].stamp /\ sweep'[u].stamp < clock'
    <3>1. CASE sweep'[u].stamp = sweep[u].stamp /\ sweep[u].phase # "idle"
      BY <1>0, <1>1, <3>1 DEF RunStamps
    <3>2. CASE sweep'[u].stamp = clock /\ clock' = clock + 1
      BY <1>0, <3>2
    <3> QED
      BY <1>2, <2>1, <3>1, <3>2
  <2>2. ASSUME NEW u \in Sweepers, NEW v \in Sweepers, u # v,
               sweep'[u].phase # "idle", sweep'[v].phase # "idle"
        PROVE  sweep'[u].stamp # sweep'[v].stamp
    <3>1. CASE /\ sweep'[u].stamp = sweep[u].stamp /\ sweep[u].phase # "idle"
               /\ sweep'[v].stamp = sweep[v].stamp /\ sweep[v].phase # "idle"
      BY <2>2, <3>1 DEF RunStamps
    <3>2. CASE /\ sweep'[u].stamp = clock
               /\ sweep'[v].stamp = sweep[v].stamp /\ sweep[v].phase # "idle"
      BY <1>0, <3>2 DEF RunStamps
    <3>3. CASE /\ sweep'[v].stamp = clock
               /\ sweep'[u].stamp = sweep[u].stamp /\ sweep[u].phase # "idle"
      BY <1>0, <3>3 DEF RunStamps
    <3> QED
      BY <1>2, <2>2, <3>1, <3>2, <3>3
  <2>3. clock' > 0
    BY <1>0, <1>1
  <2> QED
    BY <2>1, <2>2, <2>3 DEF RunStamps
<1>4. ASSUME NEW a \in told', a.sure
      PROVE  /\ 0 < a.stamp /\ a.stamp < clock'
             /\ \A u \in Sweepers : sweep'[u].phase # "idle" => sweep'[u].stamp # a.stamp
  <2>1. CASE a \in told
    <3>1. /\ 0 < a.stamp /\ a.stamp < clock
          /\ \A u \in Sweepers : sweep[u].phase # "idle" => sweep[u].stamp # a.stamp
      BY <1>4, <2>1 DEF ConfirmedApart
    <3> QED
      BY <1>0, <1>1, <1>2, <2>1, <3>1
  <2>2. CASE a \notin told
    <3>1. /\ sweep[s].phase = "claimed" /\ sweep'[s].phase = "idle"
          /\ a.stamp = sweep[s].stamp
      BY <1>4, <2>2, NewlyTold
    <3>2. 0 < sweep[s].stamp /\ sweep[s].stamp < clock
          /\ \A u \in Sweepers : u # s /\ sweep[u].phase # "idle" =>
               sweep[u].stamp # sweep[s].stamp
      BY <3>1 DEF RunStamps
    <3>3. \A u \in Sweepers : u # s => sweep'[u] = sweep[u]
      BY RunMoves
    <3> QED
      BY <1>0, <1>1, <3>1, <3>2, <3>3
  <2> QED
    BY <2>1, <2>2
<1> QED
  BY <1>3, <1>4 DEF ConfirmedApart

\* A claim is of an announcement, or of the run of worker s.
ClaimOf(s, c) ==
  /\ sweep[s].phase = "claimed"
  /\ c.stamp = sweep[s].stamp
  /\ c.queued = sweep[s].queued
  /\ c.about \in sweep[s].rows

LEMMA ClaimForm ==
  ASSUME NEW c
  PROVE  c \in Claims <=> /\ c \in Announcement
                          /\ (c \in told /\ c.sure) \/ \E s \in Sweepers : ClaimOf(s, c)
BY DEF Claims, ClaimOf

LEMMA ClaimTimes ==
  ASSUME StallTypeInv, RunStamps, ConfirmedApart, NEW c \in Claims
  PROVE  /\ c.about \in Reports /\ c.stamp \in Nat /\ c.queued \in Nat
         /\ 0 < c.stamp /\ c.stamp < clock
<1>1. c \in Announcement
  BY DEF Claims
<1>2. c.about \in Reports /\ c.stamp \in Nat /\ c.queued \in Nat
  BY <1>1 DEF Announcement
<1>3. CASE c \in told /\ c.sure
  BY <1>2, <1>3 DEF ConfirmedApart
<1>4. CASE \E s \in Sweepers : ClaimOf(s, c)
  BY <1>2, <1>4 DEF ClaimOf, RunStamps
<1> QED
  BY <1>3, <1>4, ClaimForm

\* A claim that is new in a step is of rows the claiming run has just won.
LEMMA NewClaims ==
  ASSUME StallTypeInv, NEW s \in Sweepers, SweepStep(s), NEW c \in Claims', c \notin Claims
  PROVE  /\ ClaimAlerts(s) /\ c.about \in Won(s)
         /\ c.stamp = sweep[s].stamp /\ c.queued = Len(jobs)
<1>0. c \in Announcement
  BY DEF Claims
<1>1. (c \in told' /\ c.sure) \/ \E u \in Sweepers : ClaimOf(u, c)'
  BY DEF Claims, ClaimOf
<1>2. ~ (c \in told /\ c.sure) /\ \A u \in Sweepers : ~ ClaimOf(u, c)
  BY <1>0, ClaimForm
<1>3. CASE c \in told' /\ c.sure
  <2>1. ClaimOf(s, c)
    BY <1>2, <1>3, NewlyTold DEF ClaimOf
  <2> QED
    BY <1>2, <2>1
<1>4. ASSUME NEW u \in Sweepers, ClaimOf(u, c)'
      PROVE  /\ ClaimAlerts(s) /\ c.about \in Won(s)
             /\ c.stamp = sweep[s].stamp /\ c.queued = Len(jobs)
  <2>1. u = s
    <3>1. CASE u # s
      <4>1. sweep'[u] = sweep[u]
        BY <3>1, RunMoves
      <4>2. ClaimOf(u, c)
        BY <1>4, <4>1 DEF ClaimOf
      <4> QED
        BY <1>2, <4>2
    <3> QED
      BY <3>1
  <2>2. sweep'[s].phase = "claimed"
    BY <1>4, <2>1 DEF ClaimOf
  <2>3. CASE ClaimAlerts(s)
    <3>1. Won(s) # {}
      BY <2>2, <2>3, FinishRun DEF ClaimAlerts
    <3>2. /\ sweep'[s].stamp = sweep[s].stamp
          /\ sweep'[s].rows = Won(s) /\ sweep'[s].queued = Len(jobs)
      BY <2>3, <3>1, ClaimRun
    <3> QED
      BY <1>4, <2>1, <2>3, <3>2 DEF ClaimOf
  <2>4. CASE LoseLock(s)
    <3>1. ClaimOf(s, c)
      BY <1>4, <2>1, <2>4 DEF ClaimOf, LoseLock
    <3> QED
      BY <1>2, <3>1
  <2>5. CASE Select(s)
    BY <2>2, <2>5, SelectRun
  <2>6. CASE \E taken \in BOOLEAN : AlertFails(s, taken)
    BY <2>2, <2>6, FailedRun
  <2>7. CASE ClaimAnswerLost(s) \/ AlertTaken(s) \/ Release(s) \/ Abandon(s)
    BY <2>2, <2>7, FinishRun DEF ClaimAnswerLost, AlertTaken, Release, Abandon
  <2> QED
    BY <2>3, <2>4, <2>5, <2>6, <2>7 DEF SweepStep
<1> QED
  BY <1>1, <1>3, <1>4

\* The rows of a claim that the step's own run does not hold keep their stamp.
LEMMA SweepStands ==
  ASSUME StallTypeInv, RunStamps, ConfirmedApart, NEW s \in Sweepers, SweepStep(s),
         NEW c \in Claims, Stands(c)
  PROVE  Stands(c)'
<1>0. /\ c.about \in Reports /\ c.stamp \in Nat /\ c.stamp > 0 /\ c.stamp < clock
  BY ClaimTimes
<1>1. /\ UNCHANGED jobs
      /\ report'[c.about].status = report[c.about].status
      /\ report'[c.about].activity = report[c.about].activity
  BY <1>0, SweepReports DEF SweepSide, RowStays, Stays
<1>2. RetriedBy(c, Len(jobs))' <=> RetriedBy(c, Len(jobs))
  BY <1>1 DEF RetriedBy, Subject
<1>3. SUFFICES ASSUME report[c.about].alerted = c.stamp
               PROVE  report'[c.about].alerted = c.stamp
  BY <1>1, <1>2 DEF Stands
<1>4. CASE ClaimAlerts(s) \/ ClaimAnswerLost(s)
  <2>1. report' = Stamped(s)
    BY <1>4 DEF ClaimAlerts, ClaimAnswerLost
  <2>2. c.about \notin Won(s)
    BY <1>0, <1>3 DEF Won, ClaimableAlert
  <2> QED
    BY <1>0, <1>3, <2>1, <2>2, ClaimRows
<1>5. CASE Release(s)
  <2>0. sweep[s].phase = "unsent"
    BY <1>5 DEF Release
  <2>1. sweep[s].stamp # c.stamp
    <3>1. CASE c \in told /\ c.sure
      BY <2>0, <3>1 DEF ConfirmedApart
    <3>2. ASSUME NEW u \in Sweepers, ClaimOf(u, c)
          PROVE  sweep[s].stamp # c.stamp
      <4>1. u # s /\ sweep[u].phase # "idle" /\ sweep[u].stamp = c.stamp
        BY <2>0, <3>2 DEF ClaimOf
      <4> QED
        BY <2>0, <4>1 DEF RunStamps
    <3> QED
      BY <3>1, <3>2, ClaimForm
  <2> QED
    BY <1>0, <1>3, <1>5, <2>1, ReleaseRows
<1>6. CASE \/ Select(s) \/ AlertTaken(s) \/ Abandon(s) \/ LoseLock(s)
           \/ \E taken \in BOOLEAN : AlertFails(s, taken)
  <2>1. report' = report
    BY <1>6 DEF Select, AlertTaken, Abandon, LoseLock, AlertFails, sendVars
  <2> QED
    BY <1>3, <2>1
<1> QED
  BY <1>4, <1>5, <1>6 DEF SweepStep

\* The jobs about a report are the same after a step, and maybe more.
LEMMA RetriedStays ==
  ASSUME TypeInv, JobsPersist, NEW c, NEW to, RetriedBy(c, to)
  PROVE  RetriedBy(c, to)'
<1>1. PICK j \in DOMAIN jobs : c.queued < j /\ j <= to /\ Subject(j) = c.about
  BY DEF RetriedBy
<1>2. j \in DOMAIN jobs' /\ Subject(j)' = c.about
  BY <1>1, SubjectsPersist DEF JobsPersist
<1> QED
  BY <1>1, <1>2 DEF RetriedBy

\* A retry does not move a report whose claim stands without being counted.
LEMMA SendStands ==
  ASSUME StallTypeInv, RunStamps, ConfirmedApart, SendNext, NEW c \in Claims, Stands(c)
  PROVE  Stands(c)'
<1>0. /\ TypeInv /\ c.about \in Reports /\ c.stamp \in Nat /\ c.stamp > 0 /\ c.stamp < clock
      /\ c.queued \in Nat /\ clock \in Nat
  BY ClaimTimes DEF StallTypeInv, TypeInv, TypeOK
<1>1. JobsPersist /\ jobs' \in Seq(Job) /\ jobs \in Seq(Job)
  BY <1>0, QueueStep DEF JobsTyped, TypeInv, TypeOK
<1>2. Len(jobs') >= Len(jobs) /\ Len(jobs) \in Nat /\ Len(jobs') \in Nat
      /\ DOMAIN jobs = 1 .. Len(jobs) /\ DOMAIN jobs' = 1 .. Len(jobs')
  BY <1>1 DEF JobsPersist
<1>3. c.queued <= Len(jobs') /\ report[c.about].status = "sent"
  BY <1>0, <1>2 DEF Stands
<1>4. report'[c.about].status = "sent"
  BY <1>0, <1>3, SentStays
<1>5. ASSUME RetriedBy(c, Len(jobs)) PROVE RetriedBy(c, Len(jobs))'
  <2>1. PICK j \in DOMAIN jobs : c.queued < j /\ j <= Len(jobs) /\ Subject(j) = c.about
    BY <1>5 DEF RetriedBy
  <2>2. j \in DOMAIN jobs' /\ Subject(j)' = c.about
    BY <1>0, <1>1, <2>1, SubjectsPersist DEF JobsPersist
  <2>3. j <= Len(jobs')
    BY <1>2, <2>1
  <2> QED
    BY <2>1, <2>2, <2>3 DEF RetriedBy
<1>6. report[c.about].activity \in Nat
  BY <1>0, ReportRow DEF Report
<1>7. CASE /\ report'[c.about].alerted = report[c.about].alerted
           /\ report'[c.about].activity \in {report[c.about].activity, clock}
  <2>1. report[c.about].activity > c.stamp => report'[c.about].activity > c.stamp
    BY <1>0, <1>6, <1>7
  <2> QED
    BY <1>3, <1>4, <1>5, <1>7, <2>1 DEF Stands
<1>8. CASE /\ report'[c.about].activity = clock
           /\ Len(jobs') = Len(jobs) + 1
           /\ \E j \in Nat : j = Len(jobs) + 1 /\ Subject(j)' = c.about
  <2>1. PICK j \in Nat : j = Len(jobs) + 1 /\ Subject(j)' = c.about
    BY <1>8
  <2>2. j \in DOMAIN jobs' /\ c.queued < j /\ j <= Len(jobs')
    <3>1. c.queued <= Len(jobs)
      BY DEF Stands
    <3> QED
      BY <1>0, <1>2, <1>8, <2>1, <3>1
  <2>3. RetriedBy(c, Len(jobs))'
    BY <2>1, <2>2 DEF RetriedBy
  <2>4. report'[c.about].activity > c.stamp
    BY <1>0, <1>8
  <2> QED
    BY <1>3, <1>4, <2>3, <2>4 DEF Stands
<1> QED
  BY <1>0, <1>3, <1>7, <1>8, AlertStep

\* The claims after a step stand.
LEMMA StandsStep ==
  ASSUME StallTypeInv, AlertInv, NEW s \in Sweepers, SweepStep(s), NEW c \in Claims'
  PROVE  Stands(c)'
<1>0. RunStamps /\ ConfirmedApart /\ \A d \in Claims : Stands(d)
  BY DEF AlertInv, ClaimStands
<1>1. CASE c \in Claims
  BY <1>0, <1>1, SweepStands
<1>2. CASE c \notin Claims
  <2>1. /\ ClaimAlerts(s) /\ c.about \in Won(s)
        /\ c.stamp = sweep[s].stamp /\ c.queued = Len(jobs)
    BY <1>2, NewClaims
  <2>2. c.about \in Reports /\ report[c.about].status = "sent"
    BY <2>1, SweepRow DEF Won, ClaimableAlert, Open
  <2>3. report' = Stamped(s) /\ jobs' = jobs
    BY <2>1 DEF ClaimAlerts
  <2>4. report'[c.about].alerted = c.stamp /\ report'[c.about].status = "sent"
    BY <2>1, <2>2, <2>3, ClaimRows DEF RowStays, Stays
  <2>5. c.queued <= Len(jobs')
    BY <2>1, <2>3 DEF StallTypeInv, TypeInv, TypeOK
  <2> QED
    BY <2>4, <2>5 DEF Stands
<1> QED
  BY <1>1, <1>2

\* Two claims on a report after a step of a run: when one is new, the report
\* was free to be claimed, so that the other was retried in between.
LEMMA ApartStep ==
  ASSUME StallTypeInv, AlertInv, NEW s \in Sweepers, SweepStep(s),
         NEW c \in Claims', NEW d \in Claims', c.about = d.about, c.stamp < d.stamp
  PROVE  RetriedBy(c, d.queued)'
<1>0. /\ RunStamps /\ ConfirmedApart /\ \A e \in Claims : Stands(e)
      /\ \A e, f \in Claims : e.about = f.about /\ e.stamp < f.stamp => RetriedBy(e, f.queued)
  BY DEF AlertInv, ClaimStands, ClaimsApart
<1>1. jobs' = jobs
  BY SweepReports DEF SweepSide
<1>2. RetriedBy(c, d.queued)' <=> RetriedBy(c, d.queued)
  BY <1>1 DEF RetriedBy, Subject
<1>3. CASE c \in Claims /\ d \in Claims
  BY <1>0, <1>2, <1>3
<1>4. CASE c \in Claims /\ d \notin Claims
  <2>1. d.about \in Won(s) /\ d.queued = Len(jobs)
    BY <1>4, NewClaims
  <2>2. report[c.about].alerted = 0 /\ c.stamp > 0 /\ c.stamp \in Nat
    BY <1>0, <1>4, <2>1, ClaimTimes DEF Won, ClaimableAlert
  <2>3. RetriedBy(c, Len(jobs))
    BY <1>0, <1>4, <2>2 DEF Stands
  <2> QED
    BY <1>2, <2>1, <2>3
<1>5. CASE c \notin Claims /\ d \in Claims
  <2>1. c.about \in Won(s) /\ c.stamp = sweep[s].stamp
    BY <1>5, NewClaims
  <2>2. /\ report[d.about].alerted = 0 /\ report[d.about].activity <= c.stamp
        /\ d.stamp > 0 /\ d.stamp \in Nat /\ d.about \in Reports
    BY <1>0, <1>5, <2>1, ClaimTimes DEF Won, ClaimableAlert
  <2>3. report[d.about].activity > d.stamp
    BY <1>0, <1>5, <2>2 DEF Stands
  <2>4. report[d.about].activity \in Nat /\ c.stamp \in Nat
    BY <2>1, <2>2, ReportRow, SweepRow DEF StallTypeInv, Report
  <2> QED
    BY <2>2, <2>3, <2>4
<1>6. CASE c \notin Claims /\ d \notin Claims
  <2>1. c.stamp = sweep[s].stamp /\ d.stamp = sweep[s].stamp
    BY <1>6, NewClaims
  <2> QED
    BY <2>1, SweepRow
<1> QED
  BY <1>3, <1>4, <1>5, <1>6

LEMMA AlertInit == StallInit => AlertInv
<1> SUFFICES ASSUME StallInit PROVE AlertInv
  OBVIOUS
<1>1. told = {} /\ clock = 1 /\ \A s \in Sweepers : sweep[s].phase = "idle"
  BY DEF StallInit, Init, Idle
<1>2. Claims = {}
  BY <1>1 DEF Claims
<1> QED
  BY <1>1, <1>2 DEF AlertInv, RunStamps, ConfirmedApart, ClaimStands, ClaimsApart

\* The steps that move no run keep the claims as they are.
LEMMA QuietSteps ==
  ASSUME StallTypeInv, AlertInv, UNCHANGED <<sweep, told, clock>>, TypeInv, JobsPersist,
         \A c \in Claims : Stands(c) => Stands(c)'
  PROVE  AlertInv'
<1>1. RunStamps' /\ ConfirmedApart'
  BY DEF AlertInv, RunStamps, ConfirmedApart
<1>2. Claims' = Claims
  BY DEF Claims
<1>3. ClaimStands'
  BY <1>2 DEF AlertInv, ClaimStands
<1>4. ASSUME NEW c \in Claims, NEW d \in Claims, c.about = d.about, c.stamp < d.stamp
      PROVE  RetriedBy(c, d.queued)'
  <2>1. RetriedBy(c, d.queued)
    BY <1>4 DEF AlertInv, ClaimsApart
  <2> QED
    BY <2>1, RetriedStays
<1> QED
  BY <1>1, <1>2, <1>3, <1>4 DEF AlertInv, ClaimsApart

LEMMA AlertInvStep == StallTypeInv /\ AlertInv /\ [StallNext]_stallVars => AlertInv'
<1> SUFFICES ASSUME StallTypeInv, AlertInv, [StallNext]_stallVars PROVE AlertInv'
  OBVIOUS
<1>0. TypeInv /\ RunStamps /\ ConfirmedApart /\ clock \in Nat
  BY DEF StallTypeInv, AlertInv, TypeInv, TypeOK
<1>1. CASE UNCHANGED stallVars
  <2>1. UNCHANGED <<report, jobs, clock, sweep, told>>
    BY <1>1 DEF stallVars, sendVars, sweepVars
  <2>2. JobsPersist
    BY <2>1 DEF JobsPersist
  <2>3. \A c \in Claims : Stands(c) => Stands(c)'
    BY <2>1 DEF Stands, RetriedBy, Subject
  <2> QED
    BY <1>0, <2>1, <2>2, <2>3, QuietSteps
<1>2. CASE SendNext /\ DeliveryNext /\ UNCHANGED sweepVars
  <2>1. JobsPersist
    BY <1>0, <1>2, QueueStep
  <2>2. \A c \in Claims : Stands(c) => Stands(c)'
    BY <1>0, <1>2, SendStands
  <2>3. clock' = clock
    BY <1>2, InsertReport, <1>0 DEF DeliveryNext, ServerStep, Draft, Correct, Insert, Send, Retry,
       Delete, Start, Redeliver, RunStep, LastLook, ProviderAccepts, ProviderFails,
       RecordFailure, RecordDelivery, RecordLost
  <2> QED
    BY <1>0, <1>2, <2>1, <2>2, <2>3, QuietSteps DEF sweepVars
<1>3. CASE (\E r \in Reports : FallQuiet(r)) \/ FillRoster \/ StopReporting
  <2>1. /\ UNCHANGED <<jobs, clock, sweep, told>>
        /\ \A q \in Reports : RowStays(q) /\ report'[q].alerted = report[q].alerted
    <3>1. CASE \E r \in Reports : FallQuiet(r)
      <4>1. PICK r \in Reports : FallQuiet(r)
        BY <3>1
      <4>2. \A q \in Reports : RowStays(q) /\ report'[q].alerted = report[q].alerted
        BY <4>1, QuietRow
      <4> QED
        BY <4>1, <4>2 DEF FallQuiet, sweepVars
    <3>2. CASE FillRoster \/ StopReporting
      BY <3>2, RowUnchanged DEF FillRoster, StopReporting, sendVars
    <3> QED
      BY <1>3, <3>1, <3>2
  <2>2. JobsPersist
    BY <2>1 DEF JobsPersist
  <2>3. \A c \in Claims : c.about \in Reports
    BY <1>0, ClaimTimes
  <2>4. \A c \in Claims : Stands(c) => Stands(c)'
    BY <2>1, <2>3 DEF Stands, RetriedBy, Subject, RowStays, Stays
  <2> QED
    BY <1>0, <2>1, <2>2, <2>4, QuietSteps
<1>4. CASE \E s \in Sweepers : SweepStep(s)
  <2>1. PICK s \in Sweepers : SweepStep(s)
    BY <1>4
  <2>2. RunStamps' /\ ConfirmedApart'
    BY <1>0, <2>1, StampsStep
  <2>3. ClaimStands'
    BY <2>1, StandsStep DEF ClaimStands
  <2>4. ClaimsApart'
    BY <2>1, ApartStep DEF ClaimsApart
  <2> QED
    BY <2>2, <2>3, <2>4 DEF AlertInv
<1> QED
  BY <1>1, <1>2, <1>3, <1>4, StallCases DEF SweepSide

LEMMA ClaimsSuffice == StallTypeInv /\ AlertInv => OneAlertPerStall
<1> SUFFICES ASSUME StallTypeInv, AlertInv, NEW a \in told, NEW b \in told,
                    a.about = b.about, a.sure, b.sure, a.stamp < b.stamp
             PROVE  \E j \in a.queued + 1 .. b.queued : Subject(j) = a.about
  BY DEF OneAlertPerStall
<1>1. a \in Claims /\ b \in Claims
  BY DEF Claims, StallTypeInv
<1>2. PICK j \in DOMAIN jobs : a.queued < j /\ j <= b.queued /\ Subject(j) = a.about
  BY <1>1 DEF AlertInv, ClaimsApart, RetriedBy
<1>3. a.queued \in Nat /\ b.queued \in Nat /\ j \in Nat
  BY <1>1, ClaimTimes DEF AlertInv, StallTypeInv, TypeInv, TypeOK
<1> QED
  BY <1>2, <1>3

\* Between two alerts about a report whose mail was confirmed somebody pressed
\* Retry, even when two runs overlap because the lock was lost.
THEOREM EachStallIsToldOnce == StallSpec => []OneAlertPerStall
BY ClaimsSuffice, StallTypeInit, StallTypeStep, AlertInit, AlertInvStep, PTL DEF StallSpec

\* The sweep does not disturb what the sends promise: under it a week still has
\* one live report and a superseded one a successor on file.
LEMMA VersionsUnderSweep ==
  StallTypeInv /\ VersionInv /\ [StallNext]_stallVars => VersionInv'
<1> SUFFICES ASSUME StallTypeInv, VersionInv, [StallNext]_stallVars PROVE VersionInv'
  OBVIOUS
<1>0. TypeInv
  BY DEF StallTypeInv
<1>1. CASE SweepSide
  <2>1. \A q \in Reports : Stays(q)
    BY <1>1, SweepReports DEF RowStays
  <2> QED
    BY <1>0, <2>1, VersionsStay
<1>2. CASE SendNext \/ UNCHANGED stallVars
  BY <1>0, <1>2, VersionStep DEF stallVars
<1> QED
  BY <1>1, <1>2, StallCases

THEOREM SweepKeepsOneLiveReport == StallSpec => [](SuccessorOnFile /\ OneLiveVersion)
<1>1. VersionInv => SuccessorOnFile /\ OneLiveVersion
  BY DEF VersionInv
<1>2. StallInit => VersionInv
  BY VersionInit DEF StallInit
<1> QED
  BY <1>1, <1>2, StallTypeInit, StallTypeStep, VersionsUnderSweep, PTL DEF StallSpec

\* Nor does it touch what is known of a message, or what a last look rests on.
LEMMA MessagesUnderSweep ==
  StallTypeInv /\ VersionInv /\ MailInv /\ AdmissionInv /\ [StallNext]_stallVars
  => MailInv' /\ AdmissionInv'
<1> SUFFICES ASSUME StallTypeInv, VersionInv, MailInv, AdmissionInv,
                    [StallNext]_stallVars
             PROVE  MailInv' /\ AdmissionInv'
  OBVIOUS
<1>0. TypeInv
  BY DEF StallTypeInv
<1>1. CASE SweepSide
  <2>1. /\ \A q \in Reports : Stays(q) /\ MailStays(q)
        /\ UNCHANGED <<jobs, runs, remembered, copies, excused>>
    BY <1>1, SweepReports DEF RowStays
  <2>2. /\ \A j \in DOMAIN jobs : Subject(j)' = Subject(j) /\ Subject(j) \in Reports
        /\ \A x \in runs : Subject(x.job)' = Subject(x.job)
    <3>1. \A j : Subject(j)' = Subject(j)
      BY <2>1 DEF Subject
    <3>2. ASSUME NEW j \in DOMAIN jobs
          PROVE  Subject(j) \in Reports
      <4>1. jobs[j] \in Job
        BY <1>0 DEF TypeInv, TypeOK
      <4> QED
        BY <4>1 DEF Subject, Reports, Job
    <3> QED
      BY <3>1, <3>2
  <2>3. KeyInv'
    BY <2>1, <2>2 DEF MailInv, KeyInv, Stays
  <2>4. TakenInv'
    BY <2>1, <2>2 DEF MailInv, TakenInv, Stays, MailStays
  <2>5. DeliveryIsReal' /\ OneCopyInsideWindow'
    BY <2>1 DEF MailInv, DeliveryIsReal, OneCopyInsideWindow, MailStays
  <2>6. \A r \in Reports : Sealed(r) => Sealed(r)'
    BY <2>1, <2>2 DEF Sealed, Closed, Stays
  <2>7. AdmissionInv'
    BY <2>1, <2>6 DEF AdmissionInv, Stays, Reports
  <2> QED
    BY <2>3, <2>4, <2>5, <2>7 DEF MailInv
<1>2. CASE SendNext \/ UNCHANGED stallVars
  BY <1>0, <1>2, MailInvStep, AdmissionKept DEF stallVars
<1> QED
  BY <1>1, <1>2, StallCases

\* Whatever the sweep claims, mails and gives back, the stamps of deliveries stay
\* true, a report reaches its client once while its key is recognised, and the
\* client is told of a correction (DeliveryIsReal, OneCopyInsideWindow and
\* CorrectionAdmitted).
THEOREM SweepKeepsDeliveries ==
  StallSpec => [](DeliveryIsReal /\ OneCopyInsideWindow /\ CorrectionAdmitted)
<1>1. StallTypeInv /\ MailInv /\ AdmissionInv
      => DeliveryIsReal /\ OneCopyInsideWindow /\ CorrectionAdmitted
  BY AdmissionSuffices DEF MailInv, StallTypeInv
<1>2. StallInit => VersionInv /\ MailInv /\ AdmissionInv
  BY VersionInit, MailInit, AdmissionInit DEF StallInit
<1> QED
  BY <1>1, <1>2, StallTypeInit, StallTypeStep, VersionsUnderSweep,
     MessagesUnderSweep, PTL DEF StallSpec

=============================================================================
