------------------------- MODULE WeeklyReportStall --------------------------
(***************************************************************************)
(* The stall sweep (worker/src/jobs/weekly-report-send-sweep.ts) over the  *)
(* reports of module WeeklyReportSend: a cron that tells the leadership,   *)
(* once, about a send nothing has moved on.  It selects, claims the rows   *)
(* by stamping them, mails, and gives the claims back if the mail failed,  *)
(* while deliveries, corrections, removals and retries go on.              *)
(*                                                                         *)
(* One run at a time holds an advisory lock, on a connection of its own    *)
(* that can die under it.  Only runs that find something are steps.        *)
(*                                                                         *)
(* The project whose weeks these are may be stopped, for good: nothing     *)
(* sets it going again.  A stopped project takes no draft, correction,     *)
(* send or retry and no run selects its sends, while its deliveries and    *)
(* its alerts in flight go on and its reports can still be removed.        *)
(*                                                                         *)
(* Left out: a send older than seven days, which no run selects any more,  *)
(* and the provider's verdicts and forgetting, which no sweep reads.       *)
(***************************************************************************)
EXTENDS WeeklyReportSend

CONSTANTS
  Sweepers,     \* the worker processes the cron fires in
  MaxPerEmail,  \* how many reports one alert lists
  NoSweeper     \* the holder of a lock that is free

ASSUME StallAssumption ==
  /\ MaxPerEmail \in Nat \ {0}
  /\ NoSweeper \notin Sweepers

VARIABLES
  reporting,  \* is_active of the project
  sweep,      \* the run of each worker
  lock,       \* who holds the advisory lock
  roster,     \* is anybody configured to be told?
  alertKeys,  \* idempotency keys of the alerts the provider has taken
  told,       \* history: the announcements that went out
  muted       \* history: claims nobody is left to give back

sweepVars == <<reporting, sweep, lock, roster, alertKeys, told, muted>>
stallVars == <<sendVars, sweepVars>>

-----------------------------------------------------------------------------
(* Data *)

\* queued: how many jobs there were when the rows were claimed.
SweepRun ==
  [phase : {"idle", "selected", "claimed", "unsent"}, stamp : Nat,
   rows : SUBSET Reports, queued : Nat]

Idle == [phase |-> "idle", stamp |-> 0, rows |-> {}, queued |-> 0]

Announcement ==
  [about : Reports, stamp : Nat, queued : Nat, sure : BOOLEAN]

StallInit ==
  /\ Init
  /\ reporting = TRUE
  /\ sweep = [s \in Sweepers |-> Idle]
  /\ lock = NoSweeper
  /\ roster = FALSE
  /\ alertKeys = {}
  /\ told = {}
  /\ muted = {}

\* A send that is still owed to the client.
Open(r) ==
  /\ report[r].active
  /\ report[r].status = "sent"
  /\ ~ report[r].delivered
  /\ report[r].supersededBy = 0

\* The rows of the SELECT, which joins the project, that pass the age test.
Alertable == {r \in Reports : /\ reporting
                              /\ Open(r)
                              /\ report[r].quiet
                              /\ report[r].alerted = 0}

\* The run of s ends and lets go of the lock, if it still has it.
Finish(s) ==
  /\ sweep' = [sweep EXCEPT ![s] = Idle]
  /\ lock' = IF lock = s THEN NoSweeper ELSE lock

-----------------------------------------------------------------------------
(* A run *)

\* sweepOffice up to the claim: the stamp is the time the run began, and
\* without a roster nothing is claimed (leadershipRecipients).
Select(s) ==
  /\ lock = NoSweeper
  /\ sweep[s].phase = "idle"
  /\ roster
  /\ \E cohort \in SUBSET Alertable \ {{}} :
       /\ Cardinality(cohort) <= MaxPerEmail
       /\ cohort = Alertable \/ Cardinality(cohort) = MaxPerEmail
       /\ sweep' = [sweep EXCEPT ![s] =
                      [phase |-> "selected", stamp |-> clock,
                       rows |-> cohort, queued |-> 0]]
  /\ lock' = s
  /\ clock' = clock + 1
  /\ UNCHANGED <<report, jobs, runs, remembered, copies, excused, faults,
                 reporting, roster, alertKeys, told, muted>>

\* Mistake: the claim does not look at who has claimed.
ClaimableTwice(r, stamp) == Open(r) /\ report[r].activity <= stamp

\* The WHERE of claimAlerts: every predicate again, and nothing may have
\* moved since the run began.
ClaimableAlert(r, stamp) ==
  /\ Open(r)
  /\ report[r].alerted = 0
  /\ report[r].activity <= stamp

Won(s) == {r \in sweep[s].rows : ClaimableAlert(r, sweep[s].stamp)}

Stamped(s) ==
  [r \in Reports |-> IF r \in Won(s)
                     THEN [report[r] EXCEPT !.alerted = sweep[s].stamp]
                     ELSE report[r]]

\* claimAlerts.
ClaimAlerts(s) ==
  /\ sweep[s].phase = "selected"
  /\ report' = Stamped(s)
  /\ IF Won(s) = {}
     THEN Finish(s)
     ELSE /\ sweep' = [sweep EXCEPT ![s].phase = "claimed",
                                    ![s].rows = Won(s),
                                    ![s].queued = Len(jobs)]
          /\ UNCHANGED lock
  /\ UNCHANGED <<jobs, runs, remembered, copies, excused, clock, faults,
                 reporting, roster, alertKeys, told, muted>>

\* The claim commits and its answer is lost: the run ends knowing nothing.
ClaimAnswerLost(s) ==
  /\ sweep[s].phase = "selected"
  /\ Fault
  /\ report' = Stamped(s)
  /\ muted' = muted \cup {<<r, sweep[s].stamp>> : r \in Won(s)}
  /\ Finish(s)
  /\ UNCHANGED <<jobs, runs, remembered, copies, excused, clock, reporting,
                 roster, alertKeys, told>>

\* Mistake: an alert is identified by the reports it lists alone.
AlertKeyOfCohort(s) == <<0, sweep[s].rows>>

\* The idempotency key: the claim stamp and a digest of the cohort.
AlertKey(s) == <<sweep[s].stamp, sweep[s].rows>>

\* The provider mails the alert, unless it knows the key already; it calls
\* both a delivery.
Mailed(s, sure) ==
  /\ alertKeys' = alertKeys \cup {AlertKey(s)}
  /\ told' = IF AlertKey(s) \in alertKeys THEN told
             ELSE told \cup {[about |-> r, stamp |-> sweep[s].stamp,
                              queued |-> sweep[s].queued, sure |-> sure] :
                               r \in sweep[s].rows}

\* The alert is taken: the claims stay.
AlertTaken(s) ==
  /\ sweep[s].phase = "claimed"
  /\ Mailed(s, TRUE)
  /\ Finish(s)
  /\ UNCHANGED <<sendVars, reporting, roster, muted>>

\* The alert is refused, or nobody answers and it may have gone out.
AlertFails(s, taken) ==
  /\ sweep[s].phase = "claimed"
  /\ Fault
  /\ IF taken THEN Mailed(s, FALSE) ELSE UNCHANGED <<alertKeys, told>>
  /\ sweep' = [sweep EXCEPT ![s].phase = "unsent"]
  /\ UNCHANGED <<report, jobs, runs, remembered, copies, excused, clock, lock,
                 reporting, roster, muted>>

\* releaseAlertClaims: the rows that still carry this run's stamp.
Release(s) ==
  /\ sweep[s].phase = "unsent"
  /\ report' = [r \in Reports |->
       IF r \in sweep[s].rows /\ report[r].alerted = sweep[s].stamp
       THEN [report[r] EXCEPT !.alerted = 0]
       ELSE report[r]]
  /\ Finish(s)
  /\ UNCHANGED <<jobs, runs, remembered, copies, excused, clock, faults,
                 reporting, roster, alertKeys, told, muted>>

\* The rollback fails too, or the worker dies in a run: its claims stay.
Abandon(s) ==
  /\ sweep[s].phase # "idle"
  /\ Fault
  /\ muted' = IF sweep[s].phase = "selected" THEN muted
              ELSE muted \cup {<<r, sweep[s].stamp>> : r \in sweep[s].rows}
  /\ Finish(s)
  /\ UNCHANGED <<report, jobs, runs, remembered, copies, excused, clock,
                 reporting, roster, alertKeys, told>>

\* The connection that holds the lock dies and the run goes on.
LoseLock(s) ==
  /\ lock = s
  /\ Fault
  /\ lock' = NoSweeper
  /\ UNCHANGED <<report, jobs, runs, remembered, copies, excused, clock,
                 reporting, sweep, roster, alertKeys, told, muted>>

-----------------------------------------------------------------------------
(* Surroundings *)

\* Somebody fills in the leadership roster.
FillRoster ==
  /\ ~ roster
  /\ roster' = TRUE
  /\ UNCHANGED <<sendVars, reporting, sweep, lock, alertKeys, told, muted>>

\* deactivateWeeklyReportProject: whatever has not been delivered stays so.
StopReporting ==
  /\ reporting
  /\ reporting' = FALSE
  /\ UNCHANGED <<sendVars, sweep, lock, roster, alertKeys, told, muted>>

\* Nothing has moved a send on for longer than the stall threshold.
FallQuiet(r) ==
  /\ report[r].status = "sent"
  /\ ~ report[r].quiet
  /\ report' = [report EXCEPT ![r].quiet = TRUE]
  /\ UNCHANGED <<jobs, runs, remembered, copies, excused, clock, faults,
                 sweepVars>>

SweepStep(s) ==
  \/ Select(s)
  \/ ClaimAlerts(s)
  \/ ClaimAnswerLost(s)
  \/ AlertTaken(s)
  \/ \E taken \in BOOLEAN : AlertFails(s, taken)
  \/ Release(s)
  \/ Abandon(s)
  \/ LoseLock(s)

\* What goes on when the project is stopped: it is looked for by all that
\* authors, sends and retries (loadSendTarget), not by a removal, and not by
\* the delivery.
StoppedNext ==
  \/ \E w \in Weeks, n \in Versions : Delete(w, n)
  \/ \E j \in DOMAIN jobs : Start(j) \/ \E died \in BOOLEAN : Redeliver(j, died)
  \/ \E x \in runs : RunStep(x)

StallNext ==
  \/ reporting /\ DeliveryNext /\ UNCHANGED sweepVars
  \/ ~ reporting /\ StoppedNext /\ UNCHANGED sweepVars
  \/ \E s \in Sweepers : SweepStep(s)
  \/ \E r \in Reports : FallQuiet(r)
  \/ FillRoster
  \/ StopReporting

StallSpec == StallInit /\ [][StallNext]_stallVars

(***************************************************************************)
(* Time passes, the cron fires every fifteen minutes, a statement and a    *)
(* call to the provider settle, and somebody fills in the roster.  Nothing *)
(* is asked of the deliveries: their jobs may never run; nor need anybody  *)
(* stop the project.                                                       *)
(***************************************************************************)
StallFairness ==
  /\ \A r \in Reports : WF_stallVars(FallQuiet(r))
  /\ WF_stallVars(\E s \in Sweepers : Select(s))
  /\ \A s \in Sweepers :
       /\ WF_stallVars(ClaimAlerts(s) \/ ClaimAnswerLost(s))
       /\ WF_stallVars(AlertTaken(s) \/ \E taken \in BOOLEAN : AlertFails(s, taken))
       /\ WF_stallVars(Release(s))
  /\ WF_stallVars(FillRoster)

FairStallSpec == StallSpec /\ StallFairness

-----------------------------------------------------------------------------
(* Properties *)

\* The announcements of a claim.
WentOut(r, stamp) == \E a \in told : a.about = r /\ a.stamp = stamp

\* A row that reads as announced was announced: its alert went out under the
\* stamp it carries, or a run still holds the claim, or that run lost the
\* database or its life before it could give the claim back.
ClaimIsBacked ==
  \A r \in Reports :
    LET stamp == report[r].alerted IN
    stamp # 0 =>
      \/ WentOut(r, stamp)
      \/ <<r, stamp>> \in muted
      \/ \E s \in Sweepers :
           /\ sweep[s].phase \in {"claimed", "unsent"}
           /\ sweep[s].stamp = stamp
           /\ r \in sweep[s].rows

\* One alert for each time a send stalls: between two alerts about a report
\* whose mail was confirmed, somebody pressed Retry, even when two runs
\* overlap because the lock was lost.
OneAlertPerStall ==
  \A a, b \in told :
    /\ a.about = b.about
    /\ a.sure /\ b.sure
    /\ a.stamp < b.stamp
    => \E j \in a.queued + 1 .. b.queued : Subject(j) = a.about

\* An alert about r claimed after r was last retried.
ToldSinceRetry(r) ==
  \E a \in told :
    /\ a.about = r
    /\ \A j \in a.queued + 1 .. Len(jobs) : Subject(j) # r

\* No send is lost in silence: one that is still owed to the client is
\* eventually delivered, replaced, removed or announced to the leadership -
\* and again after each retry - unless its claim was lost with the run, or
\* its project is stopped, which no sweep looks past.
NoSilentStall ==
  \A r \in Reports :
    Open(r) ~> \/ ~ Open(r)
               \/ ToldSinceRetry(r)
               \/ <<r, report[r].alerted>> \in muted
               \/ ~ reporting

=============================================================================
