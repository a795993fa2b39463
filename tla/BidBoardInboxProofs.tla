------------------------ MODULE BidBoardInboxProofs ------------------------
(***************************************************************************)
(* Theorems about BidBoardInbox, for every set of snapshots, offices and   *)
(* workers and every number of faults.                                     *)
(***************************************************************************)
EXTENDS BidBoardInbox, TLAPS

-----------------------------------------------------------------------------
(* Type correctness *)

\* The edits of an inbox row that the statements make.
LEMMA InboxEdits ==
  ASSUME inbox \in [Snapshots -> InboxRow], NEW i \in Snapshots
  PROVE  /\ \A b \in BOOLEAN : [inbox[i] EXCEPT !.leased = b] \in InboxRow
         /\ \A s \in InboxStatus : Done(i, s) \in InboxRow
         /\ Claimed(i) \in InboxRow
         /\ NoRow \in InboxRow
<1>1. inbox[i] \in InboxRow
  OBVIOUS
<1>2. \A b \in BOOLEAN : [inbox[i] EXCEPT !.leased = b] \in InboxRow
  BY <1>1 DEF InboxRow
<1>3. \A s \in InboxStatus : Done(i, s) \in InboxRow
  BY <1>1 DEF InboxRow, Done
<1>4. Claimed(i) \in InboxRow
  BY <1>1 DEF InboxRow, Claimed, InboxStatus
<1>5. NoRow \in InboxRow
  BY DEF InboxRow, NoRow, InboxStatus
<1> QED
  BY <1>2, <1>3, <1>4, <1>5

\* The edits of a job that the queue makes.
LEMMA JobEdits ==
  ASSUME job \in [Snapshots -> Job], NEW i \in Snapshots
  PROVE  /\ [job[i] EXCEPT !.lapsed = TRUE] \in Job
         /\ [job[i] EXCEPT !.status = "pending", !.lapsed = FALSE] \in Job
         /\ Taken(i) \in Job
         /\ NewJob(i) \in Job
         /\ NoJob(i) \in Job
         /\ NeverQueued \in Job
<1>1. job[i] \in Job
  OBVIOUS
<1>2. [job[i] EXCEPT !.lapsed = TRUE] \in Job
  BY <1>1 DEF Job
<1>3. [job[i] EXCEPT !.status = "pending", !.lapsed = FALSE] \in Job
  BY <1>1 DEF Job
<1>4. Taken(i) \in Job
  <2>1. job[i].attempts + 1 \in Nat
    BY <1>1 DEF Job
  <2>2. \A n \in Nat : [job[i] EXCEPT !.status = "processing", !.attempts = n,
                                      !.lapsed = FALSE] \in Job
    BY <1>1 DEF Job
  <2> QED
    BY <2>1, <2>2 DEF Taken
<1>5. NewJob(i) \in Job /\ NoJob(i) \in Job /\ NeverQueued \in Job
  BY <1>1 DEF Job, NewJob, NoJob, NeverQueued
<1> QED
  BY <1>2, <1>3, <1>4, <1>5

\* A delivery moves from phase to phase.
LEMMA HandlerEdits ==
  ASSUME NEW h \in Running, NEW ph \in Phase,
         NEW r \in {"completed", "deferred", "threw"},
         NEW n \in Nat, NEW s \in SUBSET Lease
  PROVE  /\ [h EXCEPT !.phase = ph] \in Running
         /\ [h EXCEPT !.phase = ph, !.res = r] \in Running
         /\ [h EXCEPT !.phase = ph, !.attempt = n] \in Running
         /\ [h EXCEPT !.stalled = s] \in Running
BY DEF Running

\* A worker that is in some phase of a delivery runs one.
LEMMA HandlerRuns ==
  ASSUME handler \in [Workers -> Running \cup {Idle}], NEW w \in Workers,
         handler[w].phase # "idle"
  PROVE  handler[w] \in Running /\ handler[w].row \in Snapshots
<1>1. handler[w] \in Running
  BY DEF Idle
<1> QED
  BY <1>1 DEF Running

\* A queue write leaves a well-formed job.
LEMMA SettledType ==
  ASSUME job \in [Snapshots -> Job], NEW h \in Running, Holds(h)
  PROVE  Settled(h) \in Job
<1>1. /\ h.row \in Snapshots
      /\ h.jobAttempt \in Nat \ {0}
      /\ h.res \in {"completed", "deferred", "threw"}
  BY DEF Running
<1>2. job[h.row] \in Job /\ job[h.row].attempts = h.jobAttempt
  BY <1>1 DEF Holds
<1> DEFINE again == [job[h.row] EXCEPT !.status = "pending", !.lapsed = FALSE]
<1>3. NoJob(h.row) \in Job /\ again \in Job
  BY <1>1, JobEdits
<1>4. again.attempts = h.jobAttempt
  BY <1>2 DEF Job
<1>5. [again EXCEPT !.attempts = again.attempts - 1] \in Job
  <2>1. again.attempts - 1 \in Nat
    BY <1>1, <1>4
  <2> HIDE DEF again
  <2> QED
    BY <1>3, <2>1 DEF Job
<1>6. Settled(h) \in
        {NoJob(h.row), again, [again EXCEPT !.attempts = again.attempts - 1]}
  BY <1>1 DEF Settled
<1> QED
  BY <1>3, <1>5, <1>6

\* A success, or a failure, is recorded in a well-formed row.
LEMMA RecordType ==
  ASSUME TypeOK, NEW i \in Snapshots, Succeed(i)
  PROVE  /\ inbox' \in [Snapshots -> InboxRow]
         /\ watermark' \in [Offices -> Nat]
<1>1. Done(i, "succeeded") \in InboxRow
  BY InboxEdits DEF TypeOK, InboxStatus
<1>2. ExtractedAt[i] \in Nat /\ OfficeOf[i] \in Offices
  BY InboxAssumption
<1> QED
  BY <1>1, <1>2 DEF TypeOK, Succeed

LEMMA FailedType ==
  ASSUME TypeOK, NEW h \in Running \cup Statement
  PROVE  Failed(h) \in InboxRow
<1>1. h.row \in Snapshots
  BY DEF Running, Statement
<1>2. /\ inbox[h.row] \in InboxRow
      /\ Done(h.row, "failed") \in InboxRow
      /\ [inbox[h.row] EXCEPT !.leased = FALSE] \in InboxRow
  BY <1>1, InboxEdits DEF TypeOK, InboxStatus
<1> QED
  BY <1>2 DEF Failed

\* A commit, remembered or not.
LEMMA CommitType ==
  ASSUME TypeOK, NEW i \in Snapshots
  PROVE  /\ Commit(i) => /\ mirror' \in [Offices -> Nat]
                         /\ commits' \in [Snapshots -> Nat]
         /\ Forget(i) => forgotten' \subseteq Snapshots
<1>1. ExtractedAt[i] \in Nat /\ OfficeOf[i] \in Offices
  BY InboxAssumption
<1> QED
  BY <1>1 DEF TypeOK, Commit, Forget

\* Releasing a lock leaves a lock table.
LEMMA ReleaseType ==
  ASSUME TypeOK, NEW w \in Workers, ReleaseLock(w)
  PROVE  lock' \in [Offices -> Workers \cup {NoOne}]
BY DEF TypeOK, ReleaseLock

\* The handler's own moves.
LEMMA MoveType ==
  ASSUME TypeOK, NEW w \in Workers, ~ At(w, "idle")
  PROVE  /\ \A ph \in Phase :
              Goto(w, ph) => handler' \in [Workers -> Running \cup {Idle}]
         /\ \A r \in {"completed", "deferred", "threw"} :
              Finish(w, r) => handler' \in [Workers -> Running \cup {Idle}]
<1>1. handler[w] \in Running
  BY HandlerRuns DEF TypeOK, At
<1>2. \A ph \in Phase : [handler[w] EXCEPT !.phase = ph] \in Running
  BY <1>1, HandlerEdits DEF Lease
<1>3. "settle" \in Phase
  BY DEF Phase
<1>4. \A r \in {"completed", "deferred", "threw"} :
        [handler[w] EXCEPT !.phase = "settle", !.res = r] \in Running
  BY <1>1, <1>3, HandlerEdits
<1>5. ASSUME NEW ph \in Phase, Goto(w, ph)
      PROVE  handler' \in [Workers -> Running \cup {Idle}]
  <2>1. handler' = [handler EXCEPT ![w] = [handler[w] EXCEPT !.phase = ph]]
    BY <1>5 DEF Goto
  <2> QED
    BY <1>2, <2>1 DEF TypeOK
<1>6. ASSUME NEW r \in {"completed", "deferred", "threw"}, Finish(w, r)
      PROVE  handler' \in [Workers -> Running \cup {Idle}]
  <2>1. handler' = [handler EXCEPT ![w] =
                      [handler[w] EXCEPT !.phase = "settle", !.res = r]]
    BY <1>6 DEF Finish
  <2> QED
    BY <1>4, <2>1 DEF TypeOK
<1> QED
  BY <1>5, <1>6

\* Every step keeps the shapes of the state.
LEMMA QueueTypeStep ==
  ASSUME TypeOK,
         \/ \E i \in Snapshots : Accept(i) \/ JobLapses(i) \/ LeaseLapses(i)
         \/ \E w \in Workers : \/ \E i \in Snapshots : ClaimJob(w, i)
                               \/ SettleJob(w)
         \/ SweepJobs
  PROVE  TypeOK'
<1> USE DEF history
<1>1. ASSUME NEW i \in Snapshots, Accept(i)
      PROVE  TypeOK'
  <2>1. [status |-> "queued", attempts |-> 0, leased |-> FALSE] \in InboxRow
    BY DEF InboxRow, InboxStatus
  <2>2. NewJob(i) \in Job
    BY JobEdits DEF TypeOK
  <2> QED
    BY <1>1, <2>1, <2>2 DEF TypeOK, Accept
<1>2. ASSUME NEW i \in Snapshots, JobLapses(i)
      PROVE  TypeOK'
  <2>1. [job[i] EXCEPT !.lapsed = TRUE] \in Job
    BY JobEdits DEF TypeOK
  <2>2. job' = [job EXCEPT ![i] = [job[i] EXCEPT !.lapsed = TRUE]]
    BY <1>2 DEF JobLapses
  <2> QED
    BY <1>2, <2>1, <2>2 DEF TypeOK, JobLapses
<1>3. ASSUME NEW i \in Snapshots, LeaseLapses(i)
      PROVE  TypeOK'
  <2>1. [inbox[i] EXCEPT !.leased = FALSE] \in InboxRow
    BY InboxEdits DEF TypeOK
  <2>2. inbox' = [inbox EXCEPT ![i] = [inbox[i] EXCEPT !.leased = FALSE]]
    BY <1>3 DEF LeaseLapses
  <2> QED
    BY <1>3, <2>1, <2>2 DEF TypeOK, LeaseLapses
<1>4. ASSUME NEW w \in Workers, NEW i \in Snapshots, ClaimJob(w, i)
      PROVE  TypeOK'
  <2>1. Taken(i) \in Job
    BY JobEdits DEF TypeOK
  <2>2. [phase |-> "claim", row |-> i, id |-> job[i].id,
         jobAttempt |-> job[i].attempts + 1, attempt |-> 0,
         res |-> "completed", stalled |-> {}] \in Running
    <3>1. job[i].id \in Nat /\ job[i].attempts + 1 \in Nat \ {0}
      BY DEF TypeOK, Job
    <3> QED
      BY <3>1 DEF Running, Phase
  <2>3. job' \in [Snapshots -> Job]
    BY <1>4, <2>1 DEF TypeOK, ClaimJob
  <2>4. handler' \in [Workers -> Running \cup {Idle}]
    BY <1>4, <2>2 DEF TypeOK, ClaimJob
  <2> QED
    BY <1>4, <2>3, <2>4 DEF TypeOK, ClaimJob
<1>5. ASSUME NEW w \in Workers, SettleJob(w)
      PROVE  TypeOK'
  <2>1. handler[w] \in Running /\ handler[w].row \in Snapshots
    BY <1>5, HandlerRuns DEF TypeOK, SettleJob, At
  <2>2. Holds(handler[w]) => Settled(handler[w]) \in Job
    BY <2>1, SettledType DEF TypeOK
  <2>3. job' \in [Snapshots -> Job]
    BY <1>5, <2>1, <2>2 DEF TypeOK, SettleJob
  <2> QED
    BY <1>5, <2>3 DEF TypeOK, SettleJob
<1>6. CASE SweepJobs
  <2>1. \A i \in Snapshots :
          [job[i] EXCEPT !.status = "pending", !.lapsed = FALSE] \in Job
    BY JobEdits DEF TypeOK
  <2> QED
    BY <1>6, <2>1 DEF TypeOK, SweepJobs
<1> QED
  BY <1>1, <1>2, <1>3, <1>4, <1>5, <1>6

\* What a handler has sent is a statement for its row.
LEMMA InFlightType ==
  ASSUME TypeOK, NEW w \in Workers, NEW s \in InFlight(w)
  PROVE  /\ ~ At(w, "idle")
         /\ s \in Statement
         /\ s.row = handler[w].row /\ s.attempt = handler[w].attempt
         /\ s.kind = "fail" => At(w, "fail")
         /\ s.kind \in {"succeed", "reconcile"} => At(w, "record")
<1>1. PICK k \in {"claim", "renew", "succeed", "reconcile", "fail"} :
        /\ s = [kind |-> k, row |-> handler[w].row, attempt |-> handler[w].attempt]
        /\ k = "fail" => At(w, "fail")
        /\ k \in {"succeed", "reconcile"} => At(w, "record")
        /\ At(w, "claim") \/ At(w, "record") \/ At(w, "fail") \/ Owning(w)
  BY DEF InFlight
<1>2. ~ At(w, "idle")
  BY <1>1 DEF At, Owning
<1>3. handler[w] \in Running
  BY <1>2, HandlerRuns DEF TypeOK, At
<1>4. handler[w].row \in Snapshots /\ handler[w].attempt \in Nat
  BY <1>3 DEF Running
<1> QED
  BY <1>1, <1>2, <1>4 DEF Statement

LEMMA HandlerTypeStep ==
  ASSUME TypeOK, NEW w \in Workers,
         \/ ClaimRow(w) \/ ClaimRowFails(w) \/ Look(w) \/ AcquireLock(w)
         \/ LockTimesOut(w) \/ QueryFails(w) \/ Check(w)
         \/ Import(w) \/ ImportThrows(w) \/ Record(w) \/ RecordFails(w)
         \/ MarkFailed(w) \/ MarkFailedFails(w)
  PROVE  TypeOK'
<1> USE DEF history
<1>0. ~ At(w, "idle") /\ handler[w] \in Running /\ handler[w].row \in Snapshots
  <2>1. ~ At(w, "idle")
    BY DEF At, ClaimRow, ClaimRowFails, Look, AcquireLock, LockTimesOut,
           QueryFails, Check, Import, ImportThrows, Record, RecordFails,
           MarkFailed, MarkFailedFails
  <2> QED
    BY <2>1, HandlerRuns DEF TypeOK, At
<1> DEFINE i == handler[w].row
<1>a. /\ inbox[i] \in InboxRow
      /\ Claimed(i) \in InboxRow
      /\ inbox[i].attempts + 1 \in Nat
  BY <1>0, InboxEdits DEF TypeOK, InboxRow
<1>b. /\ \A ph \in Phase :
            Goto(w, ph) => handler' \in [Workers -> Running \cup {Idle}]
      /\ \A r \in {"completed", "deferred", "threw"} :
            Finish(w, r) => handler' \in [Workers -> Running \cup {Idle}]
  BY <1>0, MoveType
<1>c. faults \in Nat /\ \A k : Fault(k) => faults' \in Nat
  BY DEF TypeOK, Fault
<1>d. ReleaseLock(w) => lock' \in [Offices -> Workers \cup {NoOne}]
  BY ReleaseType
<1>e. OfficeOf[i] \in Offices
  BY <1>0, InboxAssumption
<1>f. late \cup InFlight(w) \subseteq Statement
  BY InFlightType DEF TypeOK
<1>1. CASE ClaimRow(w)
  <2>1. inbox' \in [Snapshots -> InboxRow]
    BY <1>0, <1>a, <1>1 DEF TypeOK, ClaimRow
  <2>2. CASE Claimable(i)
    <3>1. [handler[w] EXCEPT !.phase = "lock", !.attempt = inbox[i].attempts + 1]
            \in Running
      BY <1>0, <1>a, HandlerEdits DEF Phase, Lease
    <3>2. handler' = [handler EXCEPT ![w] =
             [handler[w] EXCEPT !.phase = "lock",
                                !.attempt = inbox[i].attempts + 1]]
      BY <1>1, <2>2 DEF ClaimRow
    <3> QED
      BY <1>1, <2>1, <3>1, <3>2 DEF TypeOK, ClaimRow
  <2>3. CASE ~ Claimable(i)
    <3>1. Goto(w, "look")
      BY <1>1, <2>3 DEF ClaimRow
    <3> QED
      BY <1>1, <1>b, <2>1, <3>1 DEF TypeOK, ClaimRow, Phase
  <2> QED
    BY <2>2, <2>3
<1>2. CASE ClaimRowFails(w)
  BY <1>2, <1>b, <1>c, <1>f DEF TypeOK, ClaimRowFails, Abandon
<1>3. CASE Look(w)
  BY <1>3, <1>b DEF TypeOK, Look
<1>4. CASE AcquireLock(w)
  BY <1>4, <1>b, <1>e DEF TypeOK, AcquireLock, Phase
<1>5. CASE LockTimesOut(w)
  BY <1>5, <1>b DEF TypeOK, LockTimesOut, Phase
<1>6. CASE QueryFails(w)
  BY <1>6, <1>b, <1>c, <1>d DEF TypeOK, QueryFails, Phase
<1>7. CASE Check(w)
  <2>1. AfterCheck(i) \in Phase
    BY DEF AfterCheck, Phase
  <2> QED
    BY <1>7, <1>b, <1>d, <2>1 DEF TypeOK, Check
<1>8. CASE Import(w)
  BY <1>0, <1>8, <1>b, CommitType DEF TypeOK, Import, Phase
<1>9. CASE ImportThrows(w)
  BY <1>0, <1>9, <1>b, <1>c, <1>d, CommitType DEF TypeOK, ImportThrows, Phase
<1>10. CASE Record(w)
  BY <1>0, <1>10, <1>b, <1>d, RecordType DEF TypeOK, Record
<1>11. CASE RecordFails(w)
  <2>1. forgotten' \subseteq Snapshots
    BY <1>0, <1>11, CommitType DEF RecordFails
  <2> QED
    BY <1>11, <1>b, <1>c, <1>d, <1>f, <2>1 DEF TypeOK, RecordFails, Abandon, Phase
<1>12. CASE MarkFailed(w)
  <2>1. inbox' \in [Snapshots -> InboxRow]
    BY <1>0, <1>12, FailedType DEF TypeOK, MarkFailed
  <2> QED
    BY <1>12, <1>b, <2>1 DEF TypeOK, MarkFailed
<1>13. CASE MarkFailedFails(w)
  BY <1>13, <1>b, <1>c, <1>f DEF TypeOK, MarkFailedFails, Abandon
<1> QED
  BY <1>1, <1>2, <1>3, <1>4, <1>5, <1>6, <1>7, <1>8, <1>9, <1>10, <1>11,
     <1>12, <1>13

LEMMA RepairTypeStep ==
  ASSUME TypeOK, NEW w \in Workers,
         \/ RenewLease(w) \/ Crash(w)
         \/ \E leases \in SUBSET Lease \ {{}} : Stall(w, leases)
  PROVE  TypeOK'
<1> USE DEF history
<1>c. faults \in Nat /\ \A k : Fault(k) => faults' \in Nat
  BY DEF TypeOK, Fault
<1>f. late \cup InFlight(w) \subseteq Statement
  BY InFlightType DEF TypeOK
<1>1. CASE RenewLease(w)
  <2>1. handler[w].row \in Snapshots
    BY <1>1, HandlerRuns DEF TypeOK, RenewLease, Owning
  <2>2. [inbox[handler[w].row] EXCEPT !.leased = TRUE] \in InboxRow
    BY <2>1, InboxEdits DEF TypeOK
  <2>3. inbox' = [inbox EXCEPT ![handler[w].row] =
                    [inbox[handler[w].row] EXCEPT !.leased = TRUE]]
    BY <1>1 DEF RenewLease
  <2> QED
    BY <1>1, <1>c, <2>1, <2>2, <2>3 DEF TypeOK, RenewLease
<1>2. CASE Crash(w)
  <2>1. /\ handler' \in [Workers -> Running \cup {Idle}]
        /\ lock' \in [Offices -> Workers \cup {NoOne}]
        /\ late' \subseteq Statement
    BY <1>2, <1>f DEF TypeOK, Crash
  <2>2. /\ mirror' \in [Offices -> Nat]
        /\ commits' \in [Snapshots -> Nat]
        /\ forgotten' \subseteq Snapshots
    <3>1. CASE At(w, "import") \/ At(w, "record")
      <4>1. handler[w].row \in Snapshots
        BY <3>1, HandlerRuns DEF TypeOK, At
      <4> QED
        BY <1>2, <3>1, <4>1, CommitType DEF TypeOK, Crash
    <3>2. CASE ~ (At(w, "import") \/ At(w, "record"))
      BY <1>2, <3>2 DEF TypeOK, Crash
    <3> QED
      BY <3>1, <3>2
  <2> QED
    BY <1>2, <1>c, <2>1, <2>2 DEF TypeOK, Crash
<1>3. ASSUME NEW leases \in SUBSET Lease, Stall(w, leases)
      PROVE  TypeOK'
  <2>1. handler[w] \in Running
    BY <1>3, HandlerRuns DEF TypeOK, Stall, At
  <2>2. [handler[w] EXCEPT !.stalled = leases] \in Running
    BY <2>1 DEF Running
  <2>3. handler' = [handler EXCEPT ![w] = [handler[w] EXCEPT !.stalled = leases]]
    BY <1>3 DEF Stall
  <2>4. late' \subseteq Statement
    BY <1>3, <1>f DEF Stall
  <2> QED
    BY <1>3, <1>c, <2>2, <2>3, <2>4 DEF TypeOK, Stall
<1> QED
  BY <1>1, <1>2, <1>3

LEMMA RecoveryTypeStep ==
  ASSUME TypeOK, RecoveryRuns
  PROVE  TypeOK'
<1> USE DEF history
<1>1. CASE ReclaimJobs
  <2>1. \A i \in Snapshots :
          [job[i] EXCEPT !.status = "pending", !.lapsed = FALSE] \in Job
    BY JobEdits DEF TypeOK
  <2> QED
    BY <1>1, <2>1 DEF TypeOK, ReclaimJobs
<1>2. CASE Terminalize
  <2>1. \A i \in Snapshots : Done(i, "failed") \in InboxRow
    BY InboxEdits DEF TypeOK, InboxStatus
  <2> QED
    BY <1>2, <2>1 DEF TypeOK, Terminalize
<1>3. CASE Reenqueue
  <2>1. \A i \in Snapshots : NewJob(i) \in Job
    BY JobEdits DEF TypeOK
  <2> QED
    BY <1>3, <2>1 DEF TypeOK, Reenqueue
<1>4. CASE Retain
  <2>1. NoRow \in InboxRow /\ NeverQueued \in Job
    BY DEF NoRow, InboxRow, InboxStatus, NeverQueued, Job
  <2>2. PICK S \in SUBSET Snapshots :
          /\ inbox' = [i \in Snapshots |-> IF i \in S THEN NoRow ELSE inbox[i]]
          /\ commits' = [i \in Snapshots |-> IF i \in S THEN 0 ELSE commits[i]]
          /\ forgotten' = forgotten \ S
          /\ job' = [i \in Snapshots |-> IF i \in S THEN NeverQueued ELSE job[i]]
          /\ late' = {s \in late : s.row \notin S}
    BY <1>4 DEF Retain
  <2> QED
    BY <1>4, <2>1, <2>2 DEF TypeOK, Retain
<1> QED
  BY <1>1, <1>2, <1>3, <1>4 DEF RecoveryRuns

LEMMA LateTypeStep ==
  ASSUME TypeOK, NEW s \in late, LateLands(s)
  PROVE  TypeOK'
<1> USE DEF history
<1>1. /\ s \in Statement
      /\ s.row \in Snapshots
  BY DEF TypeOK, Statement
<1>2. late' \subseteq Statement
  BY DEF TypeOK, LateLands
<1>3. CASE LateClaim(s)
  <2>1. Claimed(s.row) \in InboxRow
    BY <1>1, InboxEdits DEF TypeOK
  <2> QED
    BY <1>1, <1>2, <1>3, <2>1 DEF TypeOK, LateLands, LateClaim
<1>4. CASE LateRenewal(s)
  <2>1. [inbox[s.row] EXCEPT !.leased = TRUE] \in InboxRow
    BY <1>1, InboxEdits DEF TypeOK
  <2>2. inbox' = [inbox EXCEPT ![s.row] = [inbox[s.row] EXCEPT !.leased = TRUE]]
    BY <1>4 DEF LateRenewal
  <2> QED
    BY <1>1, <1>2, <1>4, <2>1, <2>2 DEF TypeOK, LateLands, LateRenewal
<1>5. CASE LateFailure(s)
  <2>1. Failed(s) \in InboxRow
    BY <1>1, FailedType
  <2> QED
    BY <1>1, <1>2, <1>5, <2>1 DEF TypeOK, LateLands, LateFailure
<1>6. CASE LateSuccess(s)
  <2>1. inbox' \in [Snapshots -> InboxRow] /\ watermark' \in [Offices -> Nat]
    BY <1>1, <1>6, RecordType DEF LateSuccess
  <2> QED
    BY <1>2, <1>6, <2>1 DEF TypeOK, LateLands, LateSuccess
<1> QED
  BY <1>3, <1>4, <1>5, <1>6 DEF LateLands

LEMMA TypeStep == TypeOK /\ [Next]_vars => TypeOK'
<1> SUFFICES ASSUME TypeOK, [Next]_vars
             PROVE  TypeOK'
  OBVIOUS
<1>1. ASSUME NEW w \in Workers, WorkerStep(w)
      PROVE  TypeOK'
  BY <1>1, QueueTypeStep, HandlerTypeStep, RepairTypeStep
     DEF WorkerStep, HandlerStep, HandlerOutage
<1>2. CASE UNCHANGED vars
  BY <1>2 DEF vars, history, TypeOK
<1> QED
  BY <1>1, <1>2, QueueTypeStep, RecoveryTypeStep, LateTypeStep DEF Next

\* The inbox's state keeps its shapes: in particular a delivery is always
\* bound to an attempt its job was claimed at, and lock holders are workers.
THEOREM InboxTypeCorrect == Spec => []TypeOK
<1>1. Init => TypeOK
  BY DEF Init, TypeOK, InboxRow, InboxStatus, Job, NoRow, NeverQueued
<1> QED
  BY <1>1, TypeStep, PTL DEF Spec

-----------------------------------------------------------------------------
(* One import of an office at a time *)

\* The phases in which a handler holds its office's lock.
Holding(w) == handler[w].phase \in {"check", "import", "record"}

LockInv ==
  \A w \in Workers : Holding(w) => lock[OfficeOf[handler[w].row]] = w

\* A handler's move changes its phase and nothing else that is claimed, and
\* no other worker's handler.
LEMMA Moves ==
  ASSUME TypeOK, NEW w \in Workers, ~ At(w, "idle"), NEW ph,
         \/ Goto(w, ph)
         \/ ph = "settle" /\ \E r \in {"completed", "deferred", "threw"} : Finish(w, r)
  PROVE  /\ handler'[w].phase = ph
         /\ handler'[w].row = handler[w].row
         /\ handler'[w].attempt = handler[w].attempt
         /\ handler'[w].stalled = handler[w].stalled
         /\ \A v \in Workers \ {w} : handler'[v] = handler[v]
<1>1. handler[w] \in Running
  BY HandlerRuns DEF TypeOK, At
<1>2. CASE Goto(w, ph)
  BY <1>1, <1>2 DEF Goto, TypeOK, Running
<1>3. ASSUME ph = "settle", NEW r, Finish(w, r)
      PROVE  /\ handler'[w].phase = ph
             /\ handler'[w].row = handler[w].row
             /\ handler'[w].attempt = handler[w].attempt
             /\ handler'[w].stalled = handler[w].stalled
             /\ \A v \in Workers \ {w} : handler'[v] = handler[v]
  BY <1>1, <1>3 DEF Finish, TypeOK, Running
<1> QED
  BY <1>2, <1>3

\* The steps that touch neither a handler nor a lock.
StillStep ==
  \/ \E i \in Snapshots : Accept(i) \/ JobLapses(i) \/ LeaseLapses(i)
  \/ SweepJobs
  \/ RecoveryRuns
  \/ \E s \in late : LateLands(s)
  \/ \E w \in Workers : RenewLease(w)
  \/ UNCHANGED vars

LEMMA StillKeeps == StillStep => UNCHANGED <<handler, lock>>
BY DEF StillStep, Accept, JobLapses, LeaseLapses, SweepJobs, RenewLease,
       RecoveryRuns, ReclaimJobs, Terminalize, Reenqueue, Retain, LateLands,
       vars

\* The moves of a handler, by what they do to its office's lock.
WaitingMove(w, ph) ==
  /\ ~ At(w, "idle")
  /\ ~ Holding(w)
  /\ ph \in {"look", "fail", "settle"}
  /\ ph = "fail" => At(w, "lock")
  /\ \/ Goto(w, ph)
     \/ ph = "settle" /\ \E r \in {"completed", "deferred", "threw"} : Finish(w, r)
  /\ UNCHANGED lock

ReleasingMove(w, ph) ==
  /\ Holding(w)
  /\ ph \in {"fail", "settle"}
  /\ \/ Goto(w, ph)
     \/ ph = "settle" /\ \E r \in {"completed", "deferred", "threw"} : Finish(w, r)
  /\ ReleaseLock(w)
  /\ At(w, "record") => Record(w) \/ RecordFails(w)

HoldingMove(w, ph) ==
  /\ Holding(w)
  /\ \/ Check(w) /\ ph = AfterCheck(handler[w].row) /\ ph \in {"import", "record"}
     \/ Import(w) /\ ph = "record"
  /\ Goto(w, ph)
  /\ UNCHANGED lock

\* What every step does to handlers and locks.
LEMMA HandlerSplit ==
  ASSUME [Next]_vars
  PROVE  \/ StillStep
         \/ \E w \in Workers :
              \/ \E i \in Snapshots : ClaimJob(w, i)
              \/ ClaimRow(w) /\ Claimable(handler[w].row)
              \/ AcquireLock(w)
              \/ SettleJob(w)
              \/ Crash(w)
              \/ \E leases \in SUBSET Lease \ {{}} : Stall(w, leases)
              \/ \E ph \in Phase :
                   WaitingMove(w, ph) \/ ReleasingMove(w, ph) \/ HoldingMove(w, ph)
<1>1. ASSUME NEW w \in Workers,
             \/ ClaimRow(w) /\ ~ Claimable(handler[w].row)
             \/ ClaimRowFails(w) \/ Look(w) \/ LockTimesOut(w)
             \/ MarkFailed(w) \/ MarkFailedFails(w)
      PROVE  \E ph \in Phase : WaitingMove(w, ph)
  <2>1. CASE ClaimRow(w) /\ ~ Claimable(handler[w].row)
    <3>1. WaitingMove(w, "look")
      BY <2>1 DEF WaitingMove, ClaimRow, At, Holding
    <3> QED
      BY <3>1 DEF Phase
  <2>2. CASE LockTimesOut(w)
    <3>1. WaitingMove(w, "fail")
      BY <2>2 DEF WaitingMove, LockTimesOut, At, Holding
    <3> QED
      BY <3>1 DEF Phase
  <2>3. CASE ClaimRowFails(w) \/ Look(w) \/ MarkFailed(w) \/ MarkFailedFails(w)
    <3>1. WaitingMove(w, "settle")
      BY <2>3 DEF WaitingMove, ClaimRowFails, Look, MarkFailed, MarkFailedFails,
                  At, Holding
    <3> QED
      BY <3>1 DEF Phase
  <2> QED
    BY <1>1, <2>1, <2>2, <2>3
<1>2. ASSUME NEW w \in Workers, QueryFails(w)
      PROVE  \E ph \in Phase : WaitingMove(w, ph) \/ ReleasingMove(w, ph)
  <2>1. \/ WaitingMove(w, "settle") \/ WaitingMove(w, "fail")
        \/ ReleasingMove(w, "fail")
    BY <1>2 DEF QueryFails, WaitingMove, ReleasingMove, At, Holding
  <2> QED
    BY <2>1 DEF Phase
<1>3. ASSUME NEW w \in Workers,
             ImportThrows(w) \/ Record(w) \/ RecordFails(w)
      PROVE  \E ph \in Phase : ReleasingMove(w, ph)
  <2>1. ReleasingMove(w, "fail") \/ ReleasingMove(w, "settle")
    BY <1>3 DEF ImportThrows, Record, RecordFails, ReleasingMove, At, Holding
  <2> QED
    BY <2>1 DEF Phase
<1>4. ASSUME NEW w \in Workers, Import(w)
      PROVE  HoldingMove(w, "record")
  BY <1>4 DEF Import, HoldingMove, At, Holding
<1>5. ASSUME NEW w \in Workers, Check(w)
      PROVE  \E ph \in Phase : ReleasingMove(w, ph) \/ HoldingMove(w, ph)
  <2>1. AfterCheck(handler[w].row) \in {"settle", "record", "import"}
    BY DEF AfterCheck
  <2>2. \/ ReleasingMove(w, "settle") \/ HoldingMove(w, "record")
        \/ HoldingMove(w, "import")
    BY <1>5, <2>1 DEF Check, ReleasingMove, HoldingMove, At, Holding
  <2> QED
    BY <2>2 DEF Phase
<1>6. "record" \in Phase
  BY DEF Phase
<1>7. ASSUME NEW w \in Workers, WorkerStep(w)
      PROVE  \/ StillStep
             \/ \E i \in Snapshots : ClaimJob(w, i)
             \/ ClaimRow(w) /\ Claimable(handler[w].row)
             \/ AcquireLock(w) \/ SettleJob(w) \/ Crash(w)
             \/ \E leases \in SUBSET Lease \ {{}} : Stall(w, leases)
             \/ \E ph \in Phase :
                  WaitingMove(w, ph) \/ ReleasingMove(w, ph) \/ HoldingMove(w, ph)
  BY <1>1, <1>2, <1>3, <1>4, <1>5, <1>6, <1>7
     DEF WorkerStep, HandlerStep, HandlerOutage, StillStep
<1> QED
  BY <1>7 DEF Next, StillStep

LEMMA LockStep == TypeOK /\ LockInv /\ [Next]_vars => LockInv'
<1> SUFFICES ASSUME TypeOK, LockInv, [Next]_vars,
                    NEW v \in Workers, Holding(v)'
             PROVE  lock'[OfficeOf[handler'[v].row]] = v
  BY DEF LockInv
<1>1. CASE StillStep
  BY <1>1, StillKeeps DEF LockInv, Holding
<1>2. ASSUME NEW w \in Workers, NEW i \in Snapshots, ClaimJob(w, i)
      PROVE  lock'[OfficeOf[handler'[v].row]] = v
  BY <1>2 DEF ClaimJob, LockInv, Holding, TypeOK
<1>3. ASSUME NEW w \in Workers, ClaimRow(w), Claimable(handler[w].row)
      PROVE  lock'[OfficeOf[handler'[v].row]] = v
  <2>1. handler[w] \in Running
    BY <1>3, HandlerRuns DEF TypeOK, ClaimRow, At
  <2>2. handler'[w].phase = "lock"
    BY <1>3, <2>1 DEF ClaimRow, TypeOK, Running
  <2>3. v # w => handler'[v] = handler[v]
    BY <1>3 DEF ClaimRow, TypeOK
  <2> QED
    BY <1>3, <2>2, <2>3 DEF ClaimRow, LockInv, Holding
<1>4. ASSUME NEW w \in Workers, AcquireLock(w)
      PROVE  lock'[OfficeOf[handler'[v].row]] = v
  <2>1. /\ handler'[w].row = handler[w].row
        /\ \A u \in Workers \ {w} : handler'[u] = handler[u]
    BY <1>4, Moves DEF AcquireLock, At
  <2>2. handler[w].row \in Snapshots /\ OfficeOf[handler[w].row] \in Offices
    BY <1>4, HandlerRuns, InboxAssumption DEF TypeOK, AcquireLock, At
  <2>3. CASE v = w
    BY <1>4, <2>1, <2>2, <2>3 DEF AcquireLock, TypeOK
  <2>4. CASE v # w
    <3>1. handler'[v] = handler[v]
      BY <2>1, <2>4
    <3>2. lock[OfficeOf[handler[v].row]] = v
      BY <3>1 DEF LockInv, Holding
    <3>3. OfficeOf[handler[v].row] # OfficeOf[handler[w].row]
      BY <1>4, <3>2, InboxAssumption DEF AcquireLock
    <3> QED
      BY <1>4, <3>1, <3>2, <3>3 DEF AcquireLock, TypeOK
  <2> QED
    BY <2>3, <2>4
<1>5. ASSUME NEW w \in Workers, SettleJob(w)
      PROVE  lock'[OfficeOf[handler'[v].row]] = v
  BY <1>5 DEF SettleJob, LockInv, Holding, TypeOK, Idle
<1>6. ASSUME NEW w \in Workers, Crash(w)
      PROVE  lock'[OfficeOf[handler'[v].row]] = v
  <2>1. v # w /\ handler'[v] = handler[v]
    BY <1>6 DEF Crash, Holding, TypeOK, Idle
  <2>2. handler[v].row \in Snapshots /\ OfficeOf[handler[v].row] \in Offices
    BY <2>1, HandlerRuns, InboxAssumption DEF TypeOK, Holding
  <2>3. lock[OfficeOf[handler[v].row]] = v
    BY <2>1 DEF LockInv, Holding
  <2> QED
    BY <1>6, <2>1, <2>2, <2>3 DEF Crash
<1>7. ASSUME NEW w \in Workers, NEW leases, Stall(w, leases)
      PROVE  lock'[OfficeOf[handler'[v].row]] = v
  <2>1. handler[w] \in Running
    BY <1>7, HandlerRuns DEF TypeOK, Stall, At
  <2>2. handler'[v].phase = handler[v].phase /\ handler'[v].row = handler[v].row
    BY <1>7, <2>1 DEF Stall, TypeOK, Running
  <2> QED
    BY <1>7, <2>2 DEF Stall, LockInv, Holding
<1>8. ASSUME NEW w \in Workers, NEW ph \in Phase, WaitingMove(w, ph)
      PROVE  lock'[OfficeOf[handler'[v].row]] = v
  <2>1. /\ handler'[w].phase = ph
        /\ \A u \in Workers \ {w} : handler'[u] = handler[u]
    BY <1>8, Moves DEF WaitingMove
  <2> QED
    BY <1>8, <2>1 DEF WaitingMove, LockInv, Holding
<1>9. ASSUME NEW w \in Workers, NEW ph \in Phase, ReleasingMove(w, ph)
      PROVE  lock'[OfficeOf[handler'[v].row]] = v
  <2>1. /\ handler'[w].phase = ph
        /\ \A u \in Workers \ {w} : handler'[u] = handler[u]
    BY <1>9, Moves DEF ReleasingMove, Holding, At
  <2>2. v # w /\ handler'[v] = handler[v]
    BY <1>9, <2>1 DEF ReleasingMove, Holding
  <2>3. /\ lock[OfficeOf[handler[v].row]] = v
        /\ lock[OfficeOf[handler[w].row]] = w
    BY <1>9, <2>2 DEF ReleasingMove, LockInv, Holding
  <2>4. OfficeOf[handler[v].row] \in Offices
    BY <2>2, HandlerRuns, InboxAssumption DEF TypeOK, Holding
  <2> QED
    BY <1>9, <2>2, <2>3, <2>4 DEF ReleasingMove, ReleaseLock, TypeOK
<1>10. ASSUME NEW w \in Workers, NEW ph \in Phase, HoldingMove(w, ph)
       PROVE  lock'[OfficeOf[handler'[v].row]] = v
  <2>1. /\ handler'[w].row = handler[w].row
        /\ \A u \in Workers \ {w} : handler'[u] = handler[u]
    BY <1>10, Moves DEF HoldingMove, Holding, At
  <2> QED
    BY <1>10, <2>1 DEF HoldingMove, LockInv, Holding
<1> QED
  BY <1>1, <1>2, <1>3, <1>4, <1>5, <1>6, <1>7, <1>8, <1>9, <1>10, HandlerSplit

LEMMA LockCorrect == Spec => []LockInv
<1>1. Init => LockInv
  BY DEF Init, LockInv, Holding, Idle
<1> QED
  BY <1>1, LockStep, InboxTypeCorrect, PTL DEF Spec

-----------------------------------------------------------------------------
(* A kept lease is respected *)

\* A row with a live job, or in the hands of a handler, exists.
PresentInv ==
  /\ \A i \in Snapshots : job[i].status # "none" => inbox[i].status # "absent"
  /\ \A w \in Workers :
       ~ At(w, "idle") => inbox[handler[w].row].status # "absent"

\* The attempt a handler claimed is one the row has had, and its own.
OwnInv ==
  \A w \in Workers : Owning(w) =>
    /\ handler[w].attempt <= inbox[handler[w].row].attempts
    /\ \A v \in Workers :
         /\ Owning(v)
         /\ handler[v].row = handler[w].row
         /\ handler[v].attempt = handler[w].attempt
         => v = w

\* LeaseIsRespected, and the lease itself.
LeaseInv ==
  \A w \in Workers :
    Owning(w) /\ "inbox" \notin handler[w].stalled =>
      /\ inbox[handler[w].row].attempts = handler[w].attempt
      /\ \/ inbox[handler[w].row].status = "succeeded"
         \/ inbox[handler[w].row].status = "processing" /\ inbox[handler[w].row].leased

\* A row is claimed, by a handler that learns of it or by one that does not.
RowClaimed(i) ==
  /\ Claimable(i)
  /\ inbox'[i] = Claimed(i)

RowSucceeds(i) ==
  /\ inbox[i].status \in {"processing", "failed"}
  /\ inbox'[i] = Done(i, "succeeded")
  /\ \/ \E w \in Workers : At(w, "record") /\ handler[w].row = i
     \/ \E s \in late : s.kind \in {"succeed", "reconcile"} /\ s.row = i

\* By a handler, or by a failure that was abandoned.
RowFails(i) ==
  \E h \in Running \cup Statement :
    /\ \/ \E w \in Workers : MarkFailed(w) /\ h = handler[w]
       \/ h \in late /\ h.kind = "fail"
    /\ h.row = i
    /\ inbox'[i] = Failed(h)

RowRenewed(i) ==
  /\ inbox[i].status = "processing"
  /\ inbox'[i] = [inbox[i] EXCEPT !.leased = TRUE]

RowLapses(i) ==
  /\ ~ Renewed(i)
  /\ inbox'[i] = [inbox[i] EXCEPT !.leased = FALSE]

RowTerminalized(i) == Exhausted(i) /\ inbox'[i] = Done(i, "failed")

RowAccepted(i) == inbox[i].status = "absent" /\ inbox'[i].status = "queued"

\* The statements for a row go with it.
RowDeleted(i) ==
  /\ Deletable(i)
  /\ inbox'[i] = NoRow
  /\ \A s \in late' : s.row # i

\* What a step can do to a row.
LEMMA RowSplit ==
  ASSUME TypeOK, [Next]_vars, NEW i \in Snapshots
  PROVE  \/ inbox'[i] = inbox[i]
         \/ RowClaimed(i) \/ RowSucceeds(i) \/ RowFails(i) \/ RowRenewed(i)
         \/ RowLapses(i) \/ RowTerminalized(i) \/ RowAccepted(i) \/ RowDeleted(i)
<1> DEFINE Split ==
             \/ inbox'[i] = inbox[i]
             \/ RowClaimed(i) \/ RowSucceeds(i) \/ RowFails(i) \/ RowRenewed(i)
             \/ RowLapses(i) \/ RowTerminalized(i) \/ RowAccepted(i)
             \/ RowDeleted(i)
<1>0. inbox \in [Snapshots -> InboxRow]
  BY DEF TypeOK
<1>1. ASSUME NEW k \in Snapshots, Accept(k)
      PROVE  Split
  <2>1. k # i => inbox'[i] = inbox[i]
    BY <1>0, <1>1 DEF Accept
  <2>2. k = i => RowAccepted(i)
    BY <1>0, <1>1 DEF Accept, RowAccepted
  <2> QED
    BY <2>1, <2>2
<1>2. ASSUME NEW k \in Snapshots, LeaseLapses(k)
      PROVE  Split
  <2>1. k # i => inbox'[i] = inbox[i]
    BY <1>0, <1>2 DEF LeaseLapses
  <2>2. k = i => RowLapses(i)
    BY <1>0, <1>2 DEF LeaseLapses, RowLapses
  <2> QED
    BY <2>1, <2>2
<1>3. ASSUME NEW w \in Workers, ClaimRow(w)
      PROVE  Split
  <2>1. inbox'[i] = inbox[i] \/ (Claimable(i) /\ inbox'[i] = Claimed(i))
    BY <1>0, <1>3 DEF ClaimRow
  <2> QED
    BY <2>1 DEF RowClaimed
<1>4. ASSUME NEW w \in Workers, Record(w)
      PROVE  Split
  <2>1. \/ inbox'[i] = inbox[i]
        \/ /\ At(w, "record") /\ handler[w].row = i
           /\ inbox[i].status \in {"processing", "failed"}
           /\ inbox'[i] = Done(i, "succeeded")
    BY <1>0, <1>4 DEF Record, Succeed
  <2> QED
    BY <2>1 DEF RowSucceeds
<1>5. ASSUME NEW w \in Workers, MarkFailed(w)
      PROVE  Split
  <2>1. inbox' = [inbox EXCEPT ![handler[w].row] = Failed(handler[w])]
    BY <1>5 DEF MarkFailed
  <2>2. handler[w].row # i => inbox'[i] = inbox[i]
    BY <1>0, <2>1
  <2>3. handler[w].row = i => inbox'[i] = Failed(handler[w])
    BY <1>0, <2>1
  <2>4. handler[w] \in Running
    BY <1>5, HandlerRuns DEF TypeOK, MarkFailed, At
  <2> QED
    BY <1>5, <2>2, <2>3, <2>4 DEF RowFails
<1>6. ASSUME NEW w \in Workers, RenewLease(w)
      PROVE  Split
  <2>1. \/ inbox'[i] = inbox[i]
        \/ /\ inbox[i].status = "processing"
           /\ inbox'[i] = [inbox[i] EXCEPT !.leased = TRUE]
    BY <1>0, <1>6 DEF RenewLease
  <2> QED
    BY <2>1 DEF RowRenewed
<1>7. ASSUME Terminalize
      PROVE  Split
  BY <1>0, <1>7 DEF Terminalize, RowTerminalized
<1>8. ASSUME Retain
      PROVE  Split
  <2>1. PICK S \in SUBSET {k \in Snapshots : Deletable(k)} :
          /\ inbox' = [k \in Snapshots |-> IF k \in S THEN NoRow ELSE inbox[k]]
          /\ late' = {s \in late : s.row \notin S}
    BY <1>8 DEF Retain
  <2> QED
    BY <1>0, <2>1 DEF RowDeleted
<1>9. ASSUME NEW w \in Workers,
             \/ \E k \in Snapshots : ClaimJob(w, k)
             \/ Look(w) \/ AcquireLock(w) \/ LockTimesOut(w) \/ QueryFails(w)
             \/ Check(w) \/ Import(w) \/ ImportThrows(w) \/ MarkFailedFails(w)
             \/ ClaimRowFails(w) \/ RecordFails(w) \/ SettleJob(w) \/ Crash(w)
             \/ \E leases \in SUBSET Lease \ {{}} : Stall(w, leases)
      PROVE  inbox' = inbox
  BY <1>9 DEF ClaimJob, Look, AcquireLock, LockTimesOut, QueryFails, Check,
              Import, ImportThrows, MarkFailedFails, ClaimRowFails,
              RecordFails, SettleJob, Crash, Stall
<1>13. ASSUME NEW s \in late, LateLands(s)
       PROVE  Split
  <2>0. s \in Statement
    BY DEF TypeOK
  <2>1. s.row # i => inbox'[i] = inbox[i]
    BY <1>0, <1>13
       DEF LateLands, LateClaim, LateRenewal, LateFailure, LateSuccess, Succeed
  <2>2. CASE LateClaim(s) /\ s.row = i
    BY <1>0, <2>2 DEF LateClaim, RowClaimed
  <2>3. CASE LateRenewal(s) /\ s.row = i
    BY <1>0, <2>3 DEF LateRenewal, RowRenewed
  <2>4. CASE LateFailure(s) /\ s.row = i
    <3>1. s.kind = "fail" /\ inbox'[i] = Failed(s)
      BY <1>0, <2>4 DEF LateFailure
    <3> QED
      BY <2>0, <2>4, <3>1 DEF RowFails
  <2>5. CASE LateSuccess(s) /\ s.row = i
    BY <1>0, <2>5 DEF LateSuccess, Succeed, RowSucceeds
  <2> QED
    BY <1>13, <2>1, <2>2, <2>3, <2>4, <2>5 DEF LateLands
<1>10. ASSUME NEW k \in Snapshots, JobLapses(k)
       PROVE  inbox' = inbox
  BY <1>10 DEF JobLapses
<1>11. CASE SweepJobs \/ ReclaimJobs \/ Reenqueue \/ UNCHANGED vars
  BY <1>11 DEF SweepJobs, ReclaimJobs, Reenqueue, vars
<1>12. ASSUME NEW w \in Workers, WorkerStep(w)
       PROVE  Split
  <2> HIDE DEF Split
  <2>1. inbox' = inbox => Split
    BY DEF Split
  <2> QED
    BY <1>3, <1>4, <1>5, <1>6, <1>9, <1>12, <2>1
       DEF WorkerStep, HandlerStep, HandlerOutage
<1> QED
  BY <1>1, <1>2, <1>7, <1>8, <1>10, <1>11, <1>12, <1>13 DEF Next, RecoveryRuns

\* A handler comes to own a row by claiming it, and only so.
LEMMA OwnersStay ==
  ASSUME TypeOK, [Next]_vars, NEW v \in Workers, Owning(v)'
  PROVE  \/ ClaimRow(v) /\ Claimable(handler[v].row)
         \/ /\ Owning(v)
            /\ handler'[v].row = handler[v].row
            /\ handler'[v].attempt = handler[v].attempt
            /\ handler[v].stalled \subseteq handler'[v].stalled
<1> DEFINE Stays == /\ Owning(v)
                    /\ handler'[v].row = handler[v].row
                    /\ handler'[v].attempt = handler[v].attempt
                    /\ handler[v].stalled \subseteq handler'[v].stalled
<1>0. handler'[v] = handler[v] => Stays
  BY DEF Owning
<1>1. CASE StillStep
  BY <1>0, <1>1, StillKeeps
<1>2. ASSUME NEW w \in Workers, NEW i \in Snapshots, ClaimJob(w, i)
      PROVE  Stays
  <2>1. v # w /\ handler'[v] = handler[v]
    BY <1>2 DEF ClaimJob, Owning, TypeOK
  <2> QED
    BY <1>0, <2>1
<1>3. ASSUME NEW w \in Workers, ClaimRow(w), Claimable(handler[w].row), w # v
      PROVE  Stays
  <2>1. handler'[v] = handler[v]
    BY <1>3 DEF ClaimRow, TypeOK
  <2> QED
    BY <1>0, <2>1
<1>4. ASSUME NEW w \in Workers, AcquireLock(w)
      PROVE  Stays
  <2>1. Goto(w, "check") /\ At(w, "lock") /\ ~ At(w, "idle")
    BY <1>4 DEF AcquireLock, At
  <2>2. CASE v = w
    BY <2>1, <2>2, Moves DEF Owning, At
  <2>3. CASE v # w
    BY <1>0, <2>1, <2>3, Moves
  <2> QED
    BY <2>2, <2>3
<1>5. ASSUME NEW w \in Workers, SettleJob(w) \/ Crash(w)
      PROVE  Stays
  <2>1. v # w /\ handler'[v] = handler[v]
    BY <1>5 DEF SettleJob, Crash, Owning, TypeOK, Idle
  <2> QED
    BY <1>0, <2>1
<1>6. ASSUME NEW w \in Workers, NEW leases, Stall(w, leases)
      PROVE  Stays
  <2>1. handler[w] \in Running
    BY <1>6, HandlerRuns DEF TypeOK, Stall, At
  <2>2. handler'[w] = [handler[w] EXCEPT !.stalled = leases] /\ handler[w].stalled = {}
    BY <1>6 DEF Stall, TypeOK
  <2>3. v # w => handler'[v] = handler[v]
    BY <1>6 DEF Stall, TypeOK
  <2>4. CASE v = w
    BY <2>1, <2>2, <2>4 DEF Owning, Running
  <2> QED
    BY <1>0, <2>3, <2>4
<1>7. ASSUME NEW w \in Workers, NEW ph \in Phase,
             WaitingMove(w, ph) \/ ReleasingMove(w, ph) \/ HoldingMove(w, ph)
      PROVE  Stays
  <2>1. ~ At(w, "idle")
    BY <1>7 DEF WaitingMove, ReleasingMove, HoldingMove, Holding, At
  <2>2. \/ Goto(w, ph)
        \/ ph = "settle" /\ \E r \in {"completed", "deferred", "threw"} : Finish(w, r)
    BY <1>7 DEF WaitingMove, ReleasingMove, HoldingMove
  <2>3. CASE v = w
    <3>1. /\ handler'[v].phase = ph
          /\ handler'[v].row = handler[v].row
          /\ handler'[v].attempt = handler[v].attempt
          /\ handler'[v].stalled = handler[v].stalled
      BY <2>1, <2>2, <2>3, Moves
    <3>2. Owning(v)
      BY <1>7, <2>3, <3>1
         DEF WaitingMove, ReleasingMove, HoldingMove, Holding, Owning, At
    <3> QED
      BY <3>1, <3>2
  <2>4. CASE v # w
    BY <1>0, <2>1, <2>2, <2>4, Moves
  <2> QED
    BY <2>3, <2>4
<1> QED
  BY <1>1, <1>2, <1>3, <1>4, <1>5, <1>6, <1>7, HandlerSplit

\* A delivery stays with the row it was claimed for.
LEMMA RunnersStay ==
  ASSUME TypeOK, [Next]_vars, NEW v \in Workers, handler'[v].phase # "idle"
  PROVE  \/ handler[v].phase # "idle" /\ handler'[v].row = handler[v].row
         \/ \E i \in Snapshots : ClaimJob(v, i)
<1> DEFINE Stays == handler[v].phase # "idle" /\ handler'[v].row = handler[v].row
<1>0. handler'[v] = handler[v] => Stays
  OBVIOUS
<1>1. CASE StillStep
  BY <1>0, <1>1, StillKeeps
<1>2. ASSUME NEW w \in Workers, NEW i \in Snapshots, ClaimJob(w, i), w # v
      PROVE  handler'[v] = handler[v]
  BY <1>2 DEF ClaimJob, TypeOK
<1>3. ASSUME NEW w \in Workers, ClaimRow(w), Claimable(handler[w].row)
      PROVE  Stays
  <2>1. handler[w] \in Running /\ handler[w].phase # "idle"
    BY <1>3, HandlerRuns DEF TypeOK, ClaimRow, At
  <2>2. /\ handler'[w].row = handler[w].row
        /\ v # w => handler'[v] = handler[v]
    BY <1>3, <2>1 DEF ClaimRow, TypeOK, Running
  <2> QED
    BY <1>0, <2>1, <2>2
<1>4. ASSUME NEW w \in Workers, NEW ph, ~ At(w, "idle"),
             \/ Goto(w, ph)
             \/ ph = "settle" /\ \E r \in {"completed", "deferred", "threw"} : Finish(w, r)
      PROVE  Stays
  <2>1. /\ handler'[w].row = handler[w].row
        /\ v # w => handler'[v] = handler[v]
    BY <1>4, Moves
  <2> QED
    BY <1>0, <1>4, <2>1 DEF At
<1>5. ASSUME NEW w \in Workers, AcquireLock(w)
      PROVE  Stays
  <2>1. Goto(w, "check") /\ ~ At(w, "idle")
    BY <1>5 DEF AcquireLock, At
  <2> QED
    BY <1>4, <2>1
<1>6. ASSUME NEW w \in Workers, NEW ph \in Phase,
             WaitingMove(w, ph) \/ ReleasingMove(w, ph) \/ HoldingMove(w, ph)
      PROVE  Stays
  <2>1. ~ At(w, "idle")
    BY <1>6 DEF WaitingMove, ReleasingMove, HoldingMove, Holding, At
  <2> QED
    BY <1>4, <1>6, <2>1 DEF WaitingMove, ReleasingMove, HoldingMove
<1>7. ASSUME NEW w \in Workers, SettleJob(w) \/ Crash(w)
      PROVE  Stays
  <2>1. handler'[v] = handler[v]
    BY <1>7 DEF SettleJob, Crash, TypeOK, Idle
  <2> QED
    BY <1>0, <2>1
<1>8. ASSUME NEW w \in Workers, NEW leases, Stall(w, leases)
      PROVE  Stays
  <2>1. handler[w] \in Running /\ handler[w].phase # "idle"
    BY <1>8, HandlerRuns DEF TypeOK, Stall, At
  <2>2. /\ handler'[w].row = handler[w].row
        /\ v # w => handler'[v] = handler[v]
    BY <1>8, <2>1 DEF Stall, TypeOK, Running
  <2> QED
    BY <1>0, <2>1, <2>2
<1> QED
  BY <1>0, <1>1, <1>2, <1>3, <1>5, <1>6, <1>7, <1>8, HandlerSplit

\* A live job comes only with a new row, or from the recovery.
LEMMA JobsAppear ==
  ASSUME TypeOK, [Next]_vars, NEW i \in Snapshots, job'[i].status # "none"
  PROVE  \/ job[i].status # "none"
         \/ Accept(i)
         \/ Orphaned(i) /\ inbox' = inbox
<1>0. job \in [Snapshots -> Job]
  BY DEF TypeOK
<1>1. ASSUME NEW k \in Snapshots, Accept(k)
      PROVE  job[i].status # "none" \/ Accept(i)
  BY <1>0, <1>1 DEF Accept
<1>2. ASSUME NEW k \in Snapshots, JobLapses(k)
      PROVE  job[i].status # "none"
  BY <1>0, <1>2 DEF JobLapses, Job
<1>3. ASSUME NEW k \in Snapshots, NEW w \in Workers, ClaimJob(w, k)
      PROVE  job[i].status # "none"
  BY <1>0, <1>3 DEF ClaimJob, Job
<1>4. ASSUME NEW w \in Workers, SettleJob(w)
      PROVE  job[i].status # "none"
  <2>1. handler[w].row # i => job'[i] = job[i]
    BY <1>0, <1>4 DEF SettleJob
  <2>2. handler[w].row = i => job'[i] = job[i] \/ Holds(handler[w])
    BY <1>0, <1>4 DEF SettleJob
  <2> QED
    BY <2>1, <2>2 DEF Holds
<1>5. CASE SweepJobs
  BY <1>0, <1>5 DEF SweepJobs
<1>6. CASE ReclaimJobs
  BY <1>0, <1>6 DEF ReclaimJobs
<1>7. CASE Reenqueue
  BY <1>0, <1>7 DEF Reenqueue
<1>8. CASE Retain
  BY <1>0, <1>8 DEF Retain, NeverQueued
<1>9. ASSUME NEW w \in Workers,
             \/ ClaimRow(w) \/ ClaimRowFails(w)
             \/ Look(w) \/ AcquireLock(w) \/ LockTimesOut(w) \/ QueryFails(w)
             \/ Check(w) \/ Import(w) \/ ImportThrows(w) \/ MarkFailedFails(w)
             \/ Record(w) \/ RecordFails(w) \/ MarkFailed(w)
             \/ Crash(w) \/ RenewLease(w)
             \/ \E leases \in SUBSET Lease \ {{}} : Stall(w, leases)
      PROVE  job' = job
  BY <1>9 DEF ClaimRow, ClaimRowFails, Look, AcquireLock, LockTimesOut,
              QueryFails, Check, Import, ImportThrows, MarkFailedFails, Record,
              RecordFails, MarkFailed, Crash, RenewLease, Stall
<1>10. ASSUME \/ \E k \in Snapshots : LeaseLapses(k)
              \/ \E s \in late : LateLands(s)
              \/ Terminalize
       PROVE  job' = job
  BY <1>10 DEF LeaseLapses, LateLands, Terminalize
<1>11. ASSUME NEW w \in Workers, WorkerStep(w)
       PROVE  job[i].status # "none" \/ (Orphaned(i) /\ inbox' = inbox)
  BY <1>3, <1>4, <1>9, <1>11
     DEF WorkerStep, HandlerStep, HandlerOutage
<1>12. UNCHANGED vars => job' = job
  BY DEF vars
<1> QED
  BY <1>1, <1>2, <1>5, <1>6, <1>7, <1>8, <1>10, <1>11, <1>12
     DEF Next, RecoveryRuns

\* How a row ends, and how it changes its attempts.
LEMMA RowShapes ==
  ASSUME TypeOK, NEW i \in Snapshots
  PROVE  /\ RowSucceeds(i) => /\ inbox'[i].status = "succeeded"
                              /\ inbox'[i].attempts = inbox[i].attempts
         /\ RowRenewed(i) => /\ inbox'[i].status = "processing"
                             /\ inbox'[i].leased
                             /\ inbox'[i].attempts = inbox[i].attempts
         /\ RowLapses(i) => /\ inbox'[i].status = inbox[i].status
                            /\ inbox'[i].attempts = inbox[i].attempts
         /\ RowTerminalized(i) => /\ inbox'[i].status = "failed"
                                  /\ inbox'[i].attempts = inbox[i].attempts
         /\ RowClaimed(i) => /\ inbox'[i].status = "processing"
                             /\ inbox'[i].leased
                             /\ inbox'[i].attempts = inbox[i].attempts + 1
         /\ RowFails(i) => /\ inbox'[i].attempts = inbox[i].attempts
                           /\ inbox'[i].status \in {inbox[i].status, "failed"}
<1>1. inbox[i] \in InboxRow
  BY DEF TypeOK
<1>2. RowFails(i) => /\ inbox'[i].attempts = inbox[i].attempts
                    /\ inbox'[i].status \in {inbox[i].status, "failed"}
  BY <1>1 DEF RowFails, Failed, Done, InboxRow
<1>3. RowSucceeds(i) => /\ inbox'[i].status = "succeeded"
                        /\ inbox'[i].attempts = inbox[i].attempts
  BY <1>1 DEF RowSucceeds, Done, InboxRow
<1>4. RowRenewed(i) => /\ inbox'[i].status = "processing"
                       /\ inbox'[i].leased
                       /\ inbox'[i].attempts = inbox[i].attempts
  <2>1. ASSUME RowRenewed(i)
        PROVE  inbox'[i].leased = TRUE
    BY <1>1, <2>1 DEF RowRenewed, InboxRow
  <2> QED
    BY <1>1, <2>1 DEF RowRenewed, InboxRow
<1>5. RowLapses(i) => /\ inbox'[i].status = inbox[i].status
                      /\ inbox'[i].attempts = inbox[i].attempts
  BY <1>1 DEF RowLapses, InboxRow
<1>6. RowTerminalized(i) => /\ inbox'[i].status = "failed"
                            /\ inbox'[i].attempts = inbox[i].attempts
  BY <1>1 DEF RowTerminalized, Done, InboxRow
<1>7. RowClaimed(i) => /\ inbox'[i].status = "processing"
                       /\ inbox'[i].leased
                       /\ inbox'[i].attempts = inbox[i].attempts + 1
  BY <1>1 DEF RowClaimed, Claimed
<1> QED
  BY <1>2, <1>3, <1>4, <1>5, <1>6, <1>7

LEMMA PresentStep == TypeOK /\ PresentInv /\ [Next]_vars => PresentInv'
<1> SUFFICES ASSUME TypeOK, PresentInv, [Next]_vars
             PROVE  PresentInv'
  OBVIOUS
<1>1. ASSUME NEW i \in Snapshots, inbox[i].status # "absent", ~ RowDeleted(i)
      PROVE  inbox'[i].status # "absent"
  BY <1>1, RowSplit, RowShapes DEF RowAccepted
<1>2. ASSUME NEW i \in Snapshots, job'[i].status # "none"
      PROVE  inbox'[i].status # "absent"
  <2>1. CASE job[i].status # "none"
    BY <1>1, <2>1 DEF PresentInv, RowDeleted, Deletable
  <2>2. CASE Accept(i)
    BY <2>2 DEF Accept, TypeOK
  <2>3. CASE Orphaned(i) /\ inbox' = inbox
    BY <2>3 DEF Orphaned, Claimable
  <2> QED
    BY <1>2, <2>1, <2>2, <2>3, JobsAppear
<1>3. ASSUME NEW w \in Workers, handler'[w].phase # "idle"
      PROVE  inbox'[handler'[w].row].status # "absent"
  <2>1. CASE handler[w].phase # "idle" /\ handler'[w].row = handler[w].row
    <3>1. handler[w].row \in Snapshots
      BY <2>1, HandlerRuns DEF TypeOK
    <3>2. ~ RowDeleted(handler[w].row)
      BY <2>1 DEF RowDeleted, Deletable, At
    <3> QED
      BY <1>1, <2>1, <3>1, <3>2 DEF PresentInv, At
  <2>2. ASSUME NEW i \in Snapshots, ClaimJob(w, i)
        PROVE  inbox'[handler'[w].row].status # "absent"
    BY <2>2 DEF ClaimJob, PresentInv, TypeOK
  <2> QED
    BY <1>3, <2>1, <2>2, RunnersStay
<1> QED
  BY <1>2, <1>3 DEF PresentInv, At

LEMMA PresentCorrect == Spec => []PresentInv
<1>1. Init => PresentInv
  BY DEF Init, PresentInv, NeverQueued, Idle, At
<1> QED
  BY <1>1, PresentStep, InboxTypeCorrect, PTL DEF Spec

\* While a handler has a row, the row keeps its attempts or gains one.
LEMMA HandledRow ==
  ASSUME TypeOK, PresentInv, [Next]_vars,
         NEW w \in Workers, ~ At(w, "idle"), NEW i, i = handler[w].row
  PROVE  /\ i \in Snapshots
         /\ \/ inbox'[i] = inbox[i]
            \/ RowClaimed(i) \/ RowSucceeds(i) \/ RowFails(i) \/ RowRenewed(i)
            \/ RowLapses(i) \/ RowTerminalized(i)
         /\ inbox[i].attempts \in Nat
         /\ inbox'[i].attempts \in {inbox[i].attempts, inbox[i].attempts + 1}
<1>1. i \in Snapshots
  BY HandlerRuns DEF TypeOK, At
<1>2. ~ RowAccepted(i) /\ ~ RowDeleted(i)
  BY DEF PresentInv, RowAccepted, RowDeleted, Deletable
<1>3. inbox[i].attempts \in Nat
  BY <1>1 DEF TypeOK, InboxRow
<1> QED
  BY <1>1, <1>2, <1>3, RowSplit, RowShapes

\* What a claim of a row gives its handler.
LEMMA ClaimGives ==
  ASSUME TypeOK, NEW w \in Workers, ClaimRow(w), Claimable(handler[w].row)
  PROVE  /\ handler[w].row \in Snapshots
         /\ handler'[w].row = handler[w].row
         /\ handler'[w].attempt = inbox[handler[w].row].attempts + 1
         /\ inbox'[handler[w].row] = Claimed(handler[w].row)
         /\ \A v \in Workers \ {w} : handler'[v] = handler[v]
<1>1. handler[w] \in Running /\ handler[w].row \in Snapshots
  BY HandlerRuns DEF TypeOK, ClaimRow, At
<1> QED
  BY <1>1 DEF ClaimRow, TypeOK, Running

LEMMA OwnStep == TypeOK /\ PresentInv /\ OwnInv /\ [Next]_vars => OwnInv'
<1> SUFFICES ASSUME TypeOK, PresentInv, OwnInv, [Next]_vars,
                    NEW w \in Workers, Owning(w)'
             PROVE  /\ handler'[w].attempt <= inbox'[handler'[w].row].attempts
                    /\ \A v \in Workers :
                         /\ Owning(v)'
                         /\ handler'[v].row = handler'[w].row
                         /\ handler'[v].attempt = handler'[w].attempt
                         => v = w
  BY DEF OwnInv
<1> DEFINE Takes(u) == ClaimRow(u) /\ Claimable(handler[u].row)
           Keeps(u) == /\ Owning(u)
                       /\ handler'[u].row = handler[u].row
                       /\ handler'[u].attempt = handler[u].attempt
<1>1. \A u \in Workers : Owning(u)' => Takes(u) \/ Keeps(u)
  BY OwnersStay
<1>2. ASSUME NEW u \in Workers, Keeps(u)
      PROVE  /\ handler[u].attempt \in Nat
             /\ handler[u].row \in Snapshots
             /\ inbox[handler[u].row].attempts \in Nat
             /\ handler[u].attempt <= inbox[handler[u].row].attempts
             /\ inbox[handler[u].row].attempts <= inbox'[handler[u].row].attempts
  <2>1. ~ At(u, "idle") /\ handler[u] \in Running
    BY <1>2, HandlerRuns DEF TypeOK, Owning, At
  <2>2. handler[u].attempt \in Nat
    BY <2>1 DEF Running
  <2> QED
    BY <1>2, <2>1, <2>2, HandledRow DEF OwnInv
<1>3. ASSUME NEW u \in Workers, Takes(u)
      PROVE  /\ inbox[handler[u].row].attempts \in Nat
             /\ handler'[u].row = handler[u].row
             /\ handler'[u].attempt = inbox[handler[u].row].attempts + 1
             /\ inbox'[handler[u].row].attempts = inbox[handler[u].row].attempts + 1
             /\ \A v \in Workers \ {u} : ~ Takes(v)
  <2>1. handler[u].row \in Snapshots /\ inbox[handler[u].row].attempts \in Nat
    BY <1>3, ClaimGives DEF TypeOK, InboxRow
  <2>2. inbox'[handler[u].row].attempts = inbox[handler[u].row].attempts + 1
    <3>1. inbox'[handler[u].row] = Claimed(handler[u].row)
      BY <1>3, ClaimGives
    <3> QED
      BY <3>1 DEF Claimed
  <2>3. \A v \in Workers \ {u} : ~ Takes(v)
    <3> SUFFICES ASSUME NEW v \in Workers \ {u}, Takes(v)
                 PROVE  FALSE
      OBVIOUS
    <3>1. handler'[v] = handler[v] /\ handler[v].phase = "claim"
      BY <1>3, ClaimGives DEF ClaimRow, At
    <3>2. handler'[v].phase = "lock"
      <4>1. handler[v] \in Running
        BY HandlerRuns DEF TypeOK, ClaimRow, At
      <4> QED
        BY <4>1 DEF ClaimRow, TypeOK, Running
    <3> QED
      BY <3>1, <3>2
  <2> QED
    BY <1>3, <2>1, <2>2, <2>3, ClaimGives
<1>4. handler'[w].attempt <= inbox'[handler'[w].row].attempts
  <2>1. CASE Takes(w)
    BY <1>3, <2>1
  <2>2. CASE Keeps(w)
    <3>1. inbox'[handler[w].row].attempts \in Nat
      BY <1>2, <2>2, HandledRow DEF Owning, At
    <3> QED
      BY <1>2, <2>2, <3>1
  <2> QED
    BY <1>1, <2>1, <2>2
<1>5. ASSUME NEW v \in Workers, Owning(v)',
             handler'[v].row = handler'[w].row,
             handler'[v].attempt = handler'[w].attempt
      PROVE  v = w
  <2>1. CASE Keeps(v) /\ Keeps(w)
    BY <1>5, <2>1 DEF OwnInv
  <2>2. CASE Takes(v) /\ Keeps(w)
    <3>1. /\ handler'[v].attempt = inbox[handler[v].row].attempts + 1
          /\ inbox[handler[v].row].attempts \in Nat
          /\ handler'[v].row = handler[v].row
      BY <1>3, <2>2
    <3>2. /\ handler'[w].attempt \in Nat
          /\ handler'[w].attempt <= inbox[handler[w].row].attempts
          /\ handler'[w].row = handler[w].row
      BY <1>2, <2>2
    <3>3. handler[v].row = handler[w].row
      BY <1>5, <3>1, <3>2
    <3> QED
      BY <1>5, <3>1, <3>2, <3>3
  <2>3. CASE Keeps(v) /\ Takes(w)
    <3>1. /\ handler'[w].attempt = inbox[handler[w].row].attempts + 1
          /\ inbox[handler[w].row].attempts \in Nat
          /\ handler'[w].row = handler[w].row
      BY <1>3, <2>3
    <3>2. /\ handler'[v].attempt \in Nat
          /\ handler'[v].attempt <= inbox[handler[v].row].attempts
          /\ handler'[v].row = handler[v].row
      BY <1>2, <2>3
    <3>3. handler[v].row = handler[w].row
      BY <1>5, <3>1, <3>2
    <3> QED
      BY <1>5, <3>1, <3>2, <3>3
  <2>4. CASE Takes(v) /\ Takes(w)
    BY <1>3, <2>4
  <2> QED
    BY <1>1, <1>5, <2>1, <2>2, <2>3, <2>4
<1> QED
  BY <1>4, <1>5

LEMMA OwnCorrect == Spec => []OwnInv
<1>1. Init => OwnInv
  BY DEF Init, OwnInv, Owning, Idle
<1> QED
  BY <1>1, OwnStep, PresentCorrect, InboxTypeCorrect, PTL DEF Spec

\* A statement of a row that still exists; a failure is of an attempt the row
\* has had and that no handler is making.
LateInv ==
  \A s \in late :
    /\ inbox[s.row].status # "absent"
    /\ s.kind = "fail" =>
         /\ s.attempt <= inbox[s.row].attempts
         /\ \A v \in Workers : Owning(v) /\ handler[v].row = s.row =>
              handler[v].attempt # s.attempt

\* After this step the worker owns no row.
Over(w) == handler'[w].phase \in {"settle", "idle"}

\* A statement the handler has on its way.
Sends(w, s) == s \in InFlight(w)

\* Where an abandoned statement comes from.
LEMMA LateSplit ==
  ASSUME TypeOK, [Next]_vars
  PROVE  \A s \in late' :
           \/ s \in late
           \/ \E w \in Workers : Sends(w, s) /\ (s.kind = "fail" => Over(w))
<1> SUFFICES ASSUME NEW s \in late'
             PROVE  \/ s \in late
                    \/ \E w \in Workers : Sends(w, s) /\ (s.kind = "fail" => Over(w))
  OBVIOUS
<1> DEFINE Comes == \/ s \in late
                    \/ \E w \in Workers : Sends(w, s) /\ (s.kind = "fail" => Over(w))
<1>1. ASSUME NEW w \in Workers, ClaimRowFails(w) \/ RecordFails(w)
      PROVE  Comes
  <2>1. late' = late \cup InFlight(w) /\ ~ At(w, "fail")
    BY <1>1 DEF ClaimRowFails, RecordFails, Abandon, At
  <2> QED
    BY <2>1, InFlightType DEF Sends
<1>2. ASSUME NEW w \in Workers, MarkFailedFails(w)
      PROVE  Comes
  <2>1. Over(w)
    BY <1>2, Moves DEF MarkFailedFails, At, Over
  <2> QED
    BY <1>2, <2>1 DEF MarkFailedFails, Abandon, Sends
<1>3. ASSUME NEW w \in Workers, Crash(w)
      PROVE  Comes
  <2>1. Over(w)
    BY <1>3 DEF Crash, Over, Idle, TypeOK
  <2> QED
    BY <1>3, <2>1 DEF Crash, Sends
<1>4. ASSUME NEW w \in Workers, NEW leases, Stall(w, leases)
      PROVE  Comes
  BY <1>4, InFlightType DEF Stall, Sends
<1>5. ASSUME NEW w \in Workers,
             \/ \E k \in Snapshots : ClaimJob(w, k)
             \/ ClaimRow(w) \/ RenewLease(w) \/ Record(w) \/ MarkFailed(w)
             \/ Look(w) \/ AcquireLock(w) \/ LockTimesOut(w) \/ QueryFails(w)
             \/ Check(w) \/ Import(w) \/ ImportThrows(w) \/ SettleJob(w)
      PROVE  late' = late
  BY <1>5 DEF ClaimJob, ClaimRow, RenewLease, Record, MarkFailed, Look,
              AcquireLock, LockTimesOut, QueryFails, Check, Import,
              ImportThrows, SettleJob
<1>6. ASSUME \/ \E k \in Snapshots : Accept(k) \/ JobLapses(k) \/ LeaseLapses(k)
             \/ SweepJobs \/ RecoveryRuns \/ \E x \in late : LateLands(x)
             \/ UNCHANGED vars
      PROVE  late' \subseteq late
  BY <1>6 DEF Accept, JobLapses, LeaseLapses, SweepJobs, RecoveryRuns,
              ReclaimJobs, Terminalize, Reenqueue, Retain, LateLands, vars
<1>7. ASSUME NEW w \in Workers, WorkerStep(w)
      PROVE  Comes
  <2> HIDE DEF Comes
  <2>1. late' = late => Comes
    BY DEF Comes
  <2> QED
    BY <1>1, <1>2, <1>3, <1>4, <1>5, <1>7, <2>1
       DEF WorkerStep, HandlerStep, HandlerOutage
<1> QED
  BY <1>6, <1>7 DEF Next

LEMMA LateStep ==
  TypeOK /\ PresentInv /\ OwnInv /\ LateInv /\ [Next]_vars => LateInv'
<1> SUFFICES ASSUME TypeOK, PresentInv, OwnInv, LateInv, [Next]_vars,
                    NEW s \in late', NEW i, i = s.row
             PROVE  /\ inbox'[i].status # "absent"
                    /\ s.kind = "fail" =>
                         /\ s.attempt <= inbox'[i].attempts
                         /\ \A v \in Workers : Owning(v)' /\ handler'[v].row = i =>
                              handler'[v].attempt # s.attempt
  BY DEF LateInv
<1>1. /\ i \in Snapshots
      /\ s \in Statement
      /\ inbox[i].status # "absent"
      /\ s.kind = "fail" =>
           /\ s.attempt <= inbox[i].attempts
           /\ \A v \in Workers :
                Owning(v) /\ Owning(v)' /\ handler[v].row = i =>
                  handler[v].attempt # s.attempt
  <2>1. CASE s \in late
    BY <2>1 DEF LateInv, TypeOK, Statement
  <2>2. CASE s \notin late
    <3>1. PICK w \in Workers : Sends(w, s) /\ (s.kind = "fail" => Over(w))
      BY <2>2, LateSplit
    <3>2. /\ ~ At(w, "idle")
          /\ s \in Statement
          /\ i = handler[w].row /\ s.attempt = handler[w].attempt
          /\ s.kind = "fail" => At(w, "fail")
      BY <3>1, InFlightType DEF Sends
    <3>3. i \in Snapshots /\ inbox[i].status # "absent"
      BY <3>2, HandlerRuns DEF PresentInv, TypeOK, At
    <3>4. s.kind = "fail" => Owning(w)
      BY <3>2 DEF Owning, At
    <3> QED
      BY <3>1, <3>2, <3>3, <3>4 DEF OwnInv, Owning, Over
  <2> QED
    BY <2>1, <2>2
<1>2. ~ RowDeleted(i) /\ ~ RowAccepted(i)
  BY <1>1 DEF RowDeleted, RowAccepted
<1>3. /\ inbox'[i].status # "absent"
      /\ inbox[i].attempts \in Nat
      /\ inbox'[i].attempts \in {inbox[i].attempts, inbox[i].attempts + 1}
  BY <1>1, <1>2, RowSplit, RowShapes DEF TypeOK, InboxRow
<1>4. s.attempt \in Nat
  BY <1>1 DEF Statement
<1>5. ASSUME s.kind = "fail", NEW v \in Workers, Owning(v)', handler'[v].row = i
      PROVE  handler'[v].attempt # s.attempt
  <2>1. CASE ClaimRow(v) /\ Claimable(handler[v].row)
    BY <1>1, <1>3, <1>4, <1>5, <2>1, ClaimGives
  <2>2. CASE /\ Owning(v)
             /\ handler'[v].row = handler[v].row
             /\ handler'[v].attempt = handler[v].attempt
    BY <1>1, <1>5, <2>2
  <2> QED
    BY <1>5, <2>1, <2>2, OwnersStay
<1> QED
  BY <1>1, <1>3, <1>4, <1>5

LEMMA LateCorrect == Spec => []LateInv
<1>1. Init => LateInv
  BY DEF Init, LateInv
<1> QED
  BY <1>1, LateStep, OwnCorrect, PresentCorrect, InboxTypeCorrect, PTL DEF Spec

LEMMA LeaseStep ==
  TypeOK /\ PresentInv /\ OwnInv /\ LateInv /\ LeaseInv /\ [Next]_vars => LeaseInv'
<1> SUFFICES ASSUME TypeOK, PresentInv, OwnInv, LateInv, LeaseInv, [Next]_vars,
                    NEW w \in Workers, Owning(w)',
                    "inbox" \notin handler'[w].stalled,
                    NEW i, i = handler'[w].row
             PROVE  /\ inbox'[i].attempts = handler'[w].attempt
                    /\ \/ inbox'[i].status = "succeeded"
                       \/ inbox'[i].status = "processing" /\ inbox'[i].leased
  BY DEF LeaseInv
<1>1. CASE ClaimRow(w) /\ Claimable(handler[w].row)
  <2>1. /\ i \in Snapshots
        /\ handler'[w].attempt = inbox[i].attempts + 1
        /\ inbox'[i] = Claimed(i)
    BY <1>1, ClaimGives
  <2> QED
    BY <2>1 DEF Claimed
<1>2. CASE /\ Owning(w)
           /\ handler'[w].row = handler[w].row
           /\ handler'[w].attempt = handler[w].attempt
           /\ handler[w].stalled \subseteq handler'[w].stalled
  <2>1. /\ inbox[i].attempts = handler[w].attempt
        /\ \/ inbox[i].status = "succeeded"
           \/ inbox[i].status = "processing" /\ inbox[i].leased
    BY <1>2 DEF LeaseInv
  <2>2. ~ At(w, "idle") /\ i \in Snapshots
    BY <1>2, HandlerRuns DEF TypeOK, Owning, At
  <2>3. Renewed(i)
    BY <1>2 DEF Renewed
  <2>4. ~ RowClaimed(i) /\ ~ RowLapses(i) /\ ~ RowTerminalized(i)
    BY <2>1, <2>3 DEF RowClaimed, Claimable, RowLapses, RowTerminalized, Exhausted
  <2>5. RowFails(i) => inbox'[i] = inbox[i]
    <3> SUFFICES ASSUME NEW h \in Running \cup Statement, h.row = i,
                        \/ \E v \in Workers : MarkFailed(v) /\ h = handler[v]
                        \/ h \in late /\ h.kind = "fail",
                        inbox'[i] = Failed(h)
                 PROVE  inbox'[i] = inbox[i]
      BY DEF RowFails
    <3>1. ASSUME NEW v \in Workers, MarkFailed(v), h = handler[v]
          PROVE  h.attempt # handler[w].attempt
      <4>1. handler'[v].phase = "settle"
        BY <3>1, Moves DEF MarkFailed, At
      <4>2. v # w
        BY <4>1 DEF Owning
      <4> QED
        BY <1>2, <3>1, <4>2 DEF OwnInv, MarkFailed, Owning, At
    <3>2. ASSUME h \in late, h.kind = "fail"
          PROVE  h.attempt # handler[w].attempt
      BY <1>2, <3>2 DEF LateInv
    <3>3. inbox[i].attempts # h.attempt
      BY <2>1, <3>1, <3>2
    <3> QED
      BY <3>3 DEF Failed
  <2>6. \/ inbox'[i] = inbox[i] \/ RowSucceeds(i) \/ RowRenewed(i)
    BY <1>2, <2>2, <2>4, <2>5, HandledRow
  <2> QED
    BY <1>2, <2>1, <2>2, <2>6, RowShapes
<1> QED
  BY <1>1, <1>2, OwnersStay

\* Nobody takes a row from a handler that renews its inbox lease: no other
\* claim spends an attempt of it, and neither the recovery nor a superseded
\* handler fails it (markInboxProcessing, markInboxFailed, terminalize).
THEOREM KeptLeaseIsRespected == Spec => []LeaseIsRespected
<1>1. Init => LeaseInv
  BY DEF Init, LeaseInv, Owning, Idle
<1>2. LeaseInv => LeaseIsRespected
  BY DEF LeaseInv, LeaseIsRespected
<1> QED
  BY <1>1, <1>2, LeaseStep, LateCorrect, OwnCorrect, PresentCorrect,
     InboxTypeCorrect, PTL DEF Spec

-----------------------------------------------------------------------------
(* What was recorded is neither repeated nor overwritten by older data *)

\* The watermark is the newest recorded success of its office, which is
\* never deleted.
WaterInv ==
  /\ \A i \in Snapshots :
       inbox[i].status = "succeeded" => ExtractedAt[i] <= watermark[OfficeOf[i]]
  /\ \A o \in Offices : watermark[o] # 0 =>
       \E k \in Snapshots :
         /\ OfficeOf[k] = o
         /\ inbox[k].status = "succeeded"
         /\ ExtractedAt[k] >= watermark[o]

\* An import that may still commit, and that no abandoned record overtook, is of
\* a row not recorded as succeeded, and not older than what is.
ImportInv ==
  \A w \in Workers : At(w, "import") /\ w \notin overtaken =>
    /\ inbox[handler[w].row].status # "succeeded"
    /\ ExtractedAt[handler[w].row] # 0 =>
         watermark[OfficeOf[handler[w].row]] <= ExtractedAt[handler[w].row]

\* A success about to be recorded is one, or was skipped for a newer one.
RecordInv ==
  \A w \in Workers : At(w, "record") =>
    \/ commits[handler[w].row] > 0
    \/ ExtractedAt[handler[w].row] < watermark[OfficeOf[handler[w].row]]

SameSuccesses ==
  /\ watermark' = watermark
  /\ \A i \in Snapshots :
       inbox'[i].status = "succeeded" <=> inbox[i].status = "succeeded"

\* Recorded by the handler that holds the office's lock, or by an abandoned
\* statement, which is remembered of the import it overtakes.
NewSuccess(i) ==
  /\ Succeed(i)
  /\ \/ \E w \in Workers : At(w, "record") /\ handler[w].row = i
     \/ \A w \in Workers :
          At(w, "import") /\ OfficeOf[handler[w].row] = OfficeOf[i] =>
            w \in overtaken'

FewerSuccesses ==
  /\ watermark' = watermark
  /\ \E S \in SUBSET Snapshots :
       /\ Kept(S)
       /\ inbox' = [i \in Snapshots |-> IF i \in S THEN NoRow ELSE inbox[i]]
       /\ commits' = [i \in Snapshots |-> IF i \in S THEN 0 ELSE commits[i]]

\* What a step does to the recorded successes.
LEMMA SuccessSplit ==
  ASSUME TypeOK, [Next]_vars
  PROVE  \/ SameSuccesses
         \/ \E i \in Snapshots : NewSuccess(i)
         \/ FewerSuccesses
<1> USE DEF history
<1>0. inbox \in [Snapshots -> InboxRow]
  BY DEF TypeOK
<1>1. ASSUME NEW k \in Snapshots, Accept(k)
      PROVE  SameSuccesses
  BY <1>0, <1>1 DEF Accept, SameSuccesses
<1>2. ASSUME NEW k \in Snapshots, LeaseLapses(k)
      PROVE  SameSuccesses
  BY <1>0, <1>2 DEF LeaseLapses, SameSuccesses, InboxRow
<1>3. ASSUME NEW w \in Workers, ClaimRow(w)
      PROVE  SameSuccesses
  <2>1. \/ inbox' = inbox
        \/ /\ Claimable(handler[w].row)
           /\ inbox' = [inbox EXCEPT ![handler[w].row] = Claimed(handler[w].row)]
    BY <1>3 DEF ClaimRow
  <2>2. watermark' = watermark
    BY <1>3 DEF ClaimRow
  <2> QED
    BY <1>0, <2>1, <2>2 DEF SameSuccesses, Claimable, Claimed
<1>4. ASSUME NEW w \in Workers, Record(w)
      PROVE  \E i \in Snapshots : NewSuccess(i)
  <2>1. handler[w].row \in Snapshots
    BY <1>4, HandlerRuns DEF TypeOK, Record, At
  <2> QED
    BY <1>4, <2>1 DEF Record, NewSuccess
<1>5. ASSUME NEW w \in Workers, MarkFailed(w)
      PROVE  SameSuccesses
  <2>1. handler[w].row \in Snapshots
    BY <1>5, HandlerRuns DEF TypeOK, MarkFailed, At
  <2>2. /\ watermark' = watermark
        /\ inbox' = [inbox EXCEPT ![handler[w].row] = Failed(handler[w])]
    BY <1>5 DEF MarkFailed
  <2>3. Failed(handler[w]).status = "succeeded" <=>
          inbox[handler[w].row].status = "succeeded"
    BY <1>0, <2>1 DEF Failed, Done, InboxRow
  <2> QED
    BY <1>0, <2>2, <2>3 DEF SameSuccesses
<1>6. ASSUME NEW w \in Workers, RenewLease(w)
      PROVE  SameSuccesses
  BY <1>0, <1>6 DEF RenewLease, SameSuccesses, InboxRow
<1>7. ASSUME Terminalize
      PROVE  SameSuccesses
  <2>1. \A i \in Snapshots : Done(i, "failed").status = "failed"
    BY <1>0 DEF Done, InboxRow
  <2> QED
    BY <1>0, <1>7, <2>1 DEF Terminalize, SameSuccesses, Exhausted
<1>8. ASSUME Retain
      PROVE  FewerSuccesses
  <2>1. PICK S \in SUBSET Snapshots :
          /\ Kept(S)
          /\ inbox' = [i \in Snapshots |-> IF i \in S THEN NoRow ELSE inbox[i]]
          /\ commits' = [i \in Snapshots |-> IF i \in S THEN 0 ELSE commits[i]]
    BY <1>8 DEF Retain
  <2> QED
    BY <1>8, <2>1 DEF FewerSuccesses, Retain
<1>9. ASSUME NEW w \in Workers,
             \/ \E k \in Snapshots : ClaimJob(w, k)
             \/ Look(w) \/ AcquireLock(w) \/ LockTimesOut(w) \/ QueryFails(w)
             \/ Check(w) \/ Import(w) \/ ImportThrows(w) \/ MarkFailedFails(w)
             \/ ClaimRowFails(w) \/ RecordFails(w) \/ SettleJob(w) \/ Crash(w)
             \/ \E leases \in SUBSET Lease \ {{}} : Stall(w, leases)
      PROVE  inbox' = inbox /\ watermark' = watermark
  BY <1>9 DEF ClaimJob, Look, AcquireLock, LockTimesOut, QueryFails, Check,
              Import, ImportThrows, MarkFailedFails, ClaimRowFails,
              RecordFails, SettleJob, Crash, Stall
<1>10. ASSUME NEW k \in Snapshots, JobLapses(k)
       PROVE  inbox' = inbox /\ watermark' = watermark
  BY <1>10 DEF JobLapses
<1>11. SweepJobs \/ ReclaimJobs \/ Reenqueue \/ UNCHANGED vars =>
         inbox' = inbox /\ watermark' = watermark
  BY DEF SweepJobs, ReclaimJobs, Reenqueue, vars
<1>12. inbox' = inbox /\ watermark' = watermark => SameSuccesses
  BY DEF SameSuccesses
<1>13. ASSUME NEW w \in Workers, WorkerStep(w)
       PROVE  SameSuccesses \/ \E i \in Snapshots : NewSuccess(i)
  BY <1>3, <1>4, <1>5, <1>6, <1>9, <1>12, <1>13
     DEF WorkerStep, HandlerStep, HandlerOutage
<1>14. ASSUME NEW s \in late, LateLands(s)
       PROVE  SameSuccesses \/ \E i \in Snapshots : NewSuccess(i)
  <2>0. s.row \in Snapshots
    BY DEF TypeOK, Statement
  <2>1. CASE LateClaim(s)
    BY <1>0, <2>0, <2>1 DEF LateClaim, SameSuccesses, Claimable, Claimed
  <2>2. CASE LateRenewal(s)
    BY <1>0, <2>0, <2>2 DEF LateRenewal, SameSuccesses, InboxRow
  <2>3. CASE LateFailure(s)
    <3>1. /\ watermark' = watermark
          /\ inbox' = [inbox EXCEPT ![s.row] = Failed(s)]
      BY <2>3 DEF LateFailure
    <3>2. Failed(s).status = "succeeded" <=> inbox[s.row].status = "succeeded"
      BY <1>0, <2>0 DEF Failed, Done, InboxRow
    <3> QED
      BY <1>0, <3>1, <3>2 DEF SameSuccesses
  <2>4. CASE LateSuccess(s)
    <3>1. NewSuccess(s.row)
      BY <2>4 DEF LateSuccess, NewSuccess
    <3> QED
      BY <2>0, <3>1
  <2> QED
    BY <1>14, <2>1, <2>2, <2>3, <2>4 DEF LateLands
<1> QED
  BY <1>1, <1>2, <1>7, <1>8, <1>10, <1>11, <1>12, <1>13, <1>14
     DEF Next, RecoveryRuns

\* What a step does to the commits of a row.
LEMMA CommitSplit ==
  ASSUME TypeOK, [Next]_vars, NEW i \in Snapshots
  PROVE  \/ commits'[i] = commits[i]
         \/ /\ commits'[i] = commits[i] + 1
            /\ \E w \in Workers : At(w, "import") /\ handler[w].row = i
         \/ commits'[i] = 0 /\ RowDeleted(i)
<1> USE DEF history
<1>0. commits \in [Snapshots -> Nat] /\ inbox \in [Snapshots -> InboxRow]
  BY DEF TypeOK
<1>1. ASSUME NEW w \in Workers, Import(w) \/ ImportThrows(w) \/ Crash(w)
      PROVE  \/ commits'[i] = commits[i]
             \/ /\ commits'[i] = commits[i] + 1
                /\ At(w, "import") /\ handler[w].row = i
  <2>1. commits' = commits \/ (At(w, "import") /\ Commit(handler[w].row))
    BY <1>1 DEF Import, ImportThrows, Crash
  <2> QED
    BY <1>0, <2>1 DEF Commit
<1>2. ASSUME Retain
      PROVE  \/ commits'[i] = commits[i]
             \/ commits'[i] = 0 /\ RowDeleted(i)
  <2>1. PICK S \in SUBSET {k \in Snapshots : Deletable(k)} :
          /\ inbox' = [k \in Snapshots |-> IF k \in S THEN NoRow ELSE inbox[k]]
          /\ commits' = [k \in Snapshots |-> IF k \in S THEN 0 ELSE commits[k]]
          /\ late' = {s \in late : s.row \notin S}
    BY <1>2 DEF Retain
  <2> QED
    BY <1>0, <2>1 DEF RowDeleted
<1>3. ASSUME NEW w \in Workers,
             \/ \E k \in Snapshots : ClaimJob(w, k)
             \/ ClaimRow(w) \/ ClaimRowFails(w) \/ RenewLease(w)
             \/ Record(w) \/ RecordFails(w) \/ MarkFailed(w)
             \/ Look(w) \/ AcquireLock(w) \/ LockTimesOut(w) \/ QueryFails(w)
             \/ Check(w) \/ MarkFailedFails(w) \/ SettleJob(w)
             \/ \E leases \in SUBSET Lease \ {{}} : Stall(w, leases)
      PROVE  commits' = commits
  BY <1>3 DEF ClaimJob, ClaimRow, ClaimRowFails, RenewLease, Record,
              RecordFails, MarkFailed, Look, AcquireLock, LockTimesOut,
              QueryFails, Check, MarkFailedFails, SettleJob, Stall
<1>4. ASSUME \/ \E k \in Snapshots : Accept(k) \/ JobLapses(k) \/ LeaseLapses(k)
             \/ \E s \in late : LateLands(s)
      PROVE  commits' = commits
  BY <1>4 DEF Accept, JobLapses, LeaseLapses, LateLands, LateClaim,
              LateRenewal, LateFailure, LateSuccess
<1>5. SweepJobs \/ ReclaimJobs \/ Terminalize \/ Reenqueue \/ UNCHANGED vars =>
        commits' = commits
  BY DEF SweepJobs, ReclaimJobs, Terminalize, Reenqueue, vars
<1>6. ASSUME NEW w \in Workers, WorkerStep(w)
      PROVE  \/ commits'[i] = commits[i]
             \/ /\ commits'[i] = commits[i] + 1
                /\ At(w, "import") /\ handler[w].row = i
  BY <1>1, <1>3, <1>6 DEF WorkerStep, HandlerStep, HandlerOutage
<1> QED
  BY <1>2, <1>4, <1>5, <1>6 DEF Next, RecoveryRuns

\* How a handler comes to its import and to its record.
LEMMA Arrivals ==
  ASSUME TypeOK, [Next]_vars, NEW v \in Workers,
         NEW ph \in {"import", "record"}, handler'[v].phase = ph
  PROVE  /\ handler'[v].row = handler[v].row
         /\ \/ At(v, ph)
            \/ Check(v) /\ AfterCheck(handler[v].row) = ph
            \/ Import(v) /\ ph = "record"
<1> DEFINE Comes == /\ handler'[v].row = handler[v].row
                    /\ \/ At(v, ph)
                       \/ Check(v) /\ AfterCheck(handler[v].row) = ph
                       \/ Import(v) /\ ph = "record"
<1>0. handler'[v] = handler[v] => Comes
  BY DEF At
<1>1. CASE StillStep
  BY <1>0, <1>1, StillKeeps
<1>2. ASSUME NEW w \in Workers, NEW i \in Snapshots, ClaimJob(w, i)
      PROVE  Comes
  <2>1. handler'[v] = handler[v]
    BY <1>2 DEF ClaimJob, TypeOK
  <2> QED
    BY <1>0, <2>1
<1>3. ASSUME NEW w \in Workers, ClaimRow(w), Claimable(handler[w].row)
      PROVE  Comes
  <2>1. handler[w] \in Running
    BY <1>3, HandlerRuns DEF TypeOK, ClaimRow, At
  <2>2. handler'[v] = handler[v]
    BY <1>3, <2>1 DEF ClaimRow, TypeOK, Running
  <2> QED
    BY <1>0, <2>2
<1>4. ASSUME NEW w \in Workers, AcquireLock(w)
      PROVE  Comes
  <2>1. Goto(w, "check") /\ ~ At(w, "idle")
    BY <1>4 DEF AcquireLock, At
  <2>2. handler'[v] = handler[v]
    BY <2>1, Moves
  <2> QED
    BY <1>0, <2>2
<1>5. ASSUME NEW w \in Workers, SettleJob(w) \/ Crash(w)
      PROVE  Comes
  <2>1. handler'[v] = handler[v]
    BY <1>5 DEF SettleJob, Crash, TypeOK, Idle
  <2> QED
    BY <1>0, <2>1
<1>6. ASSUME NEW w \in Workers, NEW leases, Stall(w, leases)
      PROVE  Comes
  <2>1. handler[w] \in Running
    BY <1>6, HandlerRuns DEF TypeOK, Stall, At
  <2>2. handler'[v].phase = handler[v].phase /\ handler'[v].row = handler[v].row
    BY <1>6, <2>1 DEF Stall, TypeOK, Running
  <2> QED
    BY <2>2 DEF At
<1>7. ASSUME NEW w \in Workers, NEW q \in Phase,
             WaitingMove(w, q) \/ ReleasingMove(w, q) \/ HoldingMove(w, q)
      PROVE  Comes
  <2>1. ~ At(w, "idle")
    BY <1>7 DEF WaitingMove, ReleasingMove, HoldingMove, Holding, At
  <2>2. /\ handler'[w].phase = q
        /\ handler'[w].row = handler[w].row
        /\ v # w => handler'[v] = handler[v]
    BY <1>7, <2>1, Moves DEF WaitingMove, ReleasingMove, HoldingMove
  <2>3. CASE v = w
    BY <1>7, <2>2, <2>3 DEF WaitingMove, ReleasingMove, HoldingMove
  <2> QED
    BY <1>0, <2>2, <2>3
<1> QED
  BY <1>1, <1>2, <1>3, <1>4, <1>5, <1>6, <1>7, HandlerSplit

\* A recorded success of an office raises its watermark to at least itself,
\* and leaves every other success and every other office alone.
LEMMA NewSuccessIs ==
  ASSUME TypeOK, NEW i \in Snapshots, Succeed(i)
  PROVE  /\ \A k \in Snapshots : inbox[k].status = "succeeded" =>
              inbox'[k].status = "succeeded"
         /\ \A k \in Snapshots \ {i} : inbox'[k] = inbox[k]
         /\ \A o \in Offices :
              \/ watermark'[o] = watermark[o]
              \/ /\ o = OfficeOf[i]
                 /\ watermark'[o] = ExtractedAt[i]
                 /\ ExtractedAt[i] > watermark[o]
                 /\ inbox'[i].status = "succeeded"
         /\ inbox'[i].status = "succeeded" =>
              \/ inbox[i].status = "succeeded"
              \/ ExtractedAt[i] <= watermark'[OfficeOf[i]]
<1>0. /\ inbox \in [Snapshots -> InboxRow]
      /\ watermark \in [Offices -> Nat]
      /\ OfficeOf[i] \in Offices
      /\ ExtractedAt[i] \in Nat
  BY InboxAssumption DEF TypeOK
<1>1. Done(i, "succeeded").status = "succeeded"
  BY <1>0 DEF Done, InboxRow
<1>2. CASE inbox[i].status \in {"processing", "failed"}
  <2>1. /\ inbox' = [inbox EXCEPT ![i] = Done(i, "succeeded")]
        /\ watermark' = [watermark EXCEPT ![OfficeOf[i]] =
                           IF ExtractedAt[i] > watermark[OfficeOf[i]]
                           THEN ExtractedAt[i] ELSE watermark[OfficeOf[i]]]
    BY <1>2 DEF Succeed
  <2>2. /\ inbox'[i].status = "succeeded"
        /\ \A k \in Snapshots \ {i} : inbox'[k] = inbox[k]
    BY <1>0, <1>1, <2>1
  <2>3. /\ \A o \in Offices \ {OfficeOf[i]} : watermark'[o] = watermark[o]
        /\ watermark'[OfficeOf[i]] = IF ExtractedAt[i] > watermark[OfficeOf[i]]
                                     THEN ExtractedAt[i]
                                     ELSE watermark[OfficeOf[i]]
    BY <1>0, <2>1
  <2> QED
    BY <1>0, <2>2, <2>3
<1>3. CASE inbox[i].status \notin {"processing", "failed"}
  BY <1>3 DEF Succeed
<1> QED
  BY <1>2, <1>3

\* The watermark never goes down.
LEMMA WatermarkRises ==
  ASSUME TypeOK, [Next]_vars, NEW o \in Offices
  PROVE  watermark[o] \in Nat /\ watermark'[o] \in Nat /\ watermark[o] <= watermark'[o]
<1>0. watermark[o] \in Nat /\ \A i \in Snapshots : ExtractedAt[i] \in Nat
  BY InboxAssumption DEF TypeOK
<1>1. CASE \E k \in Snapshots : NewSuccess(k)
  <2>1. PICK k \in Snapshots : Succeed(k)
    BY <1>1 DEF NewSuccess
  <2> QED
    BY <1>0, <2>1, NewSuccessIs
<1> QED
  BY <1>0, <1>1, SuccessSplit DEF SameSuccesses, FewerSuccesses

LEMMA WaterStep == TypeOK /\ WaterInv /\ [Next]_vars => WaterInv'
<1> SUFFICES ASSUME TypeOK, WaterInv, [Next]_vars
             PROVE  WaterInv'
  OBVIOUS
<1>0. /\ \A i \in Snapshots : ExtractedAt[i] \in Nat /\ OfficeOf[i] \in Offices
      /\ \A o \in Offices : watermark[o] \in Nat
      /\ \A o \in Offices : watermark'[o] \in Nat /\ watermark[o] <= watermark'[o]
  BY InboxAssumption, WatermarkRises DEF TypeOK
<1>1. CASE SameSuccesses
  BY <1>1 DEF SameSuccesses, WaterInv
<1>2. CASE \E k \in Snapshots : NewSuccess(k)
  <2>1. PICK n \in Snapshots : Succeed(n)
    BY <1>2 DEF NewSuccess
  <2>3. ASSUME NEW i \in Snapshots, inbox'[i].status = "succeeded"
        PROVE  ExtractedAt[i] <= watermark'[OfficeOf[i]]
    <3>1. CASE inbox[i].status = "succeeded"
      BY <1>0, <3>1 DEF WaterInv
    <3>2. CASE inbox[i].status # "succeeded"
      BY <2>1, <2>3, <3>2, NewSuccessIs
    <3> QED
      BY <3>1, <3>2
  <2>4. ASSUME NEW o \in Offices, watermark'[o] # 0
        PROVE  \E k \in Snapshots : /\ OfficeOf[k] = o
                                    /\ inbox'[k].status = "succeeded"
                                    /\ ExtractedAt[k] >= watermark'[o]
    <3>1. CASE watermark'[o] = watermark[o]
      <4>1. PICK k \in Snapshots : /\ OfficeOf[k] = o
                                   /\ inbox[k].status = "succeeded"
                                   /\ ExtractedAt[k] >= watermark[o]
        BY <2>4, <3>1 DEF WaterInv
      <4> QED
        BY <2>1, <3>1, <4>1, NewSuccessIs
    <3>2. CASE watermark'[o] # watermark[o]
      BY <1>0, <2>1, <3>2, NewSuccessIs
    <3> QED
      BY <3>1, <3>2
  <2> QED
    BY <2>3, <2>4 DEF WaterInv
<1>3. CASE FewerSuccesses
  <2>1. PICK S \in SUBSET Snapshots :
          /\ Kept(S)
          /\ inbox' = [i \in Snapshots |-> IF i \in S THEN NoRow ELSE inbox[i]]
    BY <1>3 DEF FewerSuccesses
  <2>2. watermark' = watermark
    BY <1>3 DEF FewerSuccesses
  <2>3. NoRow.status # "succeeded"
    BY DEF NoRow
  <2>4. ASSUME NEW o \in Offices, watermark[o] # 0
        PROVE  \E k \in Snapshots : /\ OfficeOf[k] = o
                                    /\ inbox'[k].status = "succeeded"
                                    /\ ExtractedAt[k] >= watermark[o]
    <3>1. PICK k \in Snapshots : /\ OfficeOf[k] = o
                                 /\ inbox[k].status = "succeeded"
                                 /\ ExtractedAt[k] >= watermark[o]
      BY <2>4 DEF WaterInv
    <3>2. CASE k \in S
      <4>1. ExtractedAt[k] # 0
        BY <1>0, <2>4, <3>1
      <4>2. PICK n \in Snapshots \ S : /\ OfficeOf[n] = o
                                       /\ inbox[n].status = "succeeded"
                                       /\ ExtractedAt[n] >= ExtractedAt[k]
        BY <2>1, <3>1, <3>2, <4>1 DEF Kept
      <4> QED
        BY <1>0, <2>1, <3>1, <4>2
    <3>3. CASE k \notin S
      BY <2>1, <3>1, <3>3
    <3> QED
      BY <3>2, <3>3
  <2> QED
    BY <2>1, <2>2, <2>3, <2>4 DEF WaterInv
<1> QED
  BY <1>1, <1>2, <1>3, SuccessSplit

LEMMA WaterCorrect == Spec => []WaterInv
<1>1. Init => WaterInv
  BY DEF Init, WaterInv, NoRow
<1> QED
  BY <1>1, WaterStep, InboxTypeCorrect, PTL DEF Spec

\* An import once overtaken stays so.
LEMMA OvertakenStays ==
  ASSUME [Next]_vars, NEW v \in Workers, At(v, "import"), v \in overtaken
  PROVE  v \in overtaken'
<1> USE DEF history
<1>1. ASSUME NEW w \in Workers, Check(w)
      PROVE  v \in overtaken'
  BY <1>1 DEF Check, At
<1>2. ASSUME NEW w \in Workers,
             \/ \E k \in Snapshots : ClaimJob(w, k)
             \/ ClaimRow(w) \/ ClaimRowFails(w) \/ RenewLease(w)
             \/ Record(w) \/ RecordFails(w) \/ MarkFailed(w)
             \/ Look(w) \/ AcquireLock(w) \/ LockTimesOut(w) \/ QueryFails(w)
             \/ Import(w) \/ ImportThrows(w) \/ MarkFailedFails(w)
             \/ SettleJob(w) \/ Crash(w)
             \/ \E leases \in SUBSET Lease \ {{}} : Stall(w, leases)
      PROVE  overtaken' = overtaken
  BY <1>2 DEF ClaimJob, ClaimRow, ClaimRowFails, RenewLease, Record,
              RecordFails, MarkFailed, Look, AcquireLock, LockTimesOut,
              QueryFails, Import, ImportThrows, MarkFailedFails, SettleJob,
              Crash, Stall
<1>3. ASSUME \/ \E k \in Snapshots : Accept(k) \/ JobLapses(k) \/ LeaseLapses(k)
             \/ SweepJobs \/ RecoveryRuns \/ UNCHANGED vars
      PROVE  overtaken' = overtaken
  BY <1>3 DEF Accept, JobLapses, LeaseLapses, SweepJobs, RecoveryRuns,
              ReclaimJobs, Terminalize, Reenqueue, Retain, vars
<1>4. ASSUME NEW s \in late, LateLands(s)
      PROVE  overtaken \subseteq overtaken'
  BY <1>4 DEF LateLands, LateClaim, LateRenewal, LateFailure, LateSuccess
<1> QED
  BY <1>1, <1>2, <1>3, <1>4
     DEF Next, WorkerStep, HandlerStep, HandlerOutage

LEMMA ImportStep ==
  TypeOK /\ LockInv /\ WaterInv /\ ImportInv /\ [Next]_vars => ImportInv'
<1> SUFFICES ASSUME TypeOK, LockInv, WaterInv, ImportInv, [Next]_vars,
                    NEW v \in Workers, handler'[v].phase = "import",
                    v \notin overtaken', NEW i, i = handler'[v].row
             PROVE  /\ inbox'[i].status # "succeeded"
                    /\ ExtractedAt[i] # 0 => watermark'[OfficeOf[i]] <= ExtractedAt[i]
  BY DEF ImportInv, At
<1>1. i = handler[v].row /\ (At(v, "import") \/ (Check(v) /\ AfterCheck(i) = "import"))
  BY Arrivals
<1>2. i \in Snapshots /\ OfficeOf[i] \in Offices /\ ExtractedAt[i] \in Nat
  <2>1. handler[v].phase # "idle"
    BY <1>1 DEF At, Check
  <2> QED
    BY <1>1, <2>1, HandlerRuns, InboxAssumption DEF TypeOK
<1>3. CASE At(v, "import")
  <2>1. /\ inbox[i].status # "succeeded"
        /\ ExtractedAt[i] # 0 => watermark[OfficeOf[i]] <= ExtractedAt[i]
    BY <1>1, <1>3, OvertakenStays DEF ImportInv
  <2>2. CASE \E k \in Snapshots : NewSuccess(k)
    <3>1. PICK k \in Snapshots : NewSuccess(k)
      BY <2>2
    <3>2. OfficeOf[k] # OfficeOf[i]
      <4>1. ASSUME NEW w \in Workers, At(w, "record"), handler[w].row = k
            PROVE  OfficeOf[k] # OfficeOf[i]
        <5>1. w # v
          BY <1>3, <4>1 DEF At
        <5>2. lock[OfficeOf[i]] = v /\ lock[OfficeOf[k]] = w
          BY <1>1, <1>3, <4>1 DEF LockInv, Holding, At
        <5> QED
          BY <5>1, <5>2
      <4> QED
        BY <1>1, <1>3, <3>1, <4>1 DEF NewSuccess
    <3> QED
      BY <1>2, <2>1, <3>1, <3>2, NewSuccessIs DEF NewSuccess
  <2>3. CASE SameSuccesses
    BY <1>2, <2>1, <2>3 DEF SameSuccesses
  <2>4. CASE FewerSuccesses
    BY <1>2, <2>1, <2>4 DEF FewerSuccesses, NoRow
  <2> QED
    BY <2>2, <2>3, <2>4, SuccessSplit
<1>4. CASE Check(v) /\ AfterCheck(i) = "import"
  <2>1. inbox' = inbox /\ watermark' = watermark
    BY <1>4 DEF Check, history
  <2>2. inbox[i].status # "succeeded" /\ ~ Stale(i)
    BY <1>4 DEF AfterCheck, Finished
  <2>3. ASSUME ExtractedAt[i] # 0, watermark[OfficeOf[i]] # 0
        PROVE  watermark[OfficeOf[i]] <= ExtractedAt[i]
    <3>1. PICK k \in Snapshots : /\ OfficeOf[k] = OfficeOf[i]
                                 /\ inbox[k].status = "succeeded"
                                 /\ ExtractedAt[k] >= watermark[OfficeOf[i]]
      BY <1>2, <2>3 DEF WaterInv
    <3>2. ~ (ExtractedAt[i] < ExtractedAt[k])
      BY <2>2, <2>3, <3>1 DEF Stale
    <3>3. ExtractedAt[k] \in Nat /\ watermark[OfficeOf[i]] \in Nat
      BY <1>2, InboxAssumption DEF TypeOK
    <3> QED
      BY <1>2, <3>1, <3>2, <3>3
  <2> QED
    BY <1>2, <2>1, <2>2, <2>3
<1> QED
  BY <1>1, <1>3, <1>4

LEMMA ImportCorrect == Spec => []ImportInv
<1>1. Init => ImportInv
  BY DEF Init, ImportInv, Idle, At
<1> QED
  BY <1>1, ImportStep, WaterCorrect, LockCorrect, InboxTypeCorrect, PTL DEF Spec

\* An import that has been recorded is not made again, by no later and no
\* parallel delivery of its row (the status check under the office lock), unless
\* it was under way when an abandoned record landed.
THEOREM RecordedIsNotRepeated == Spec => RecordedOnce
<1> DEFINE Once == \A i \in Snapshots :
                     inbox[i].status = "succeeded" /\ ~ Overtaken(i) =>
                       commits'[i] <= commits[i]
<1>1. TypeOK /\ ImportInv /\ [Next]_vars => Once
  <2> SUFFICES ASSUME TypeOK, ImportInv, [Next]_vars,
                      NEW i \in Snapshots, inbox[i].status = "succeeded",
                      ~ Overtaken(i)
               PROVE  commits'[i] <= commits[i]
    OBVIOUS
  <2>1. commits[i] \in Nat
    BY DEF TypeOK
  <2>2. ~ \E w \in Workers : At(w, "import") /\ handler[w].row = i
    BY DEF ImportInv, Overtaken
  <2> QED
    BY <2>1, <2>2, CommitSplit
<1>2. Spec => [][Once]_vars
  BY <1>1, ImportCorrect, InboxTypeCorrect, PTL DEF Spec
<1> QED
  BY <1>2 DEF RecordedOnce

\* No import commits a snapshot older than one recorded as succeeded, however
\* late it runs and whatever retention deleted (the monotonic guard), unless it
\* was under way when an abandoned record landed.
THEOREM WatermarkIsHeld == Spec => WatermarkHolds
<1> DEFINE Newer ==
             \A i \in Snapshots :
               commits'[i] > commits[i] /\ ExtractedAt[i] # 0 /\ ~ Overtaken(i) =>
                 ExtractedAt[i] >= watermark[OfficeOf[i]]
<1>1. TypeOK /\ ImportInv /\ [Next]_vars => Newer
  <2> SUFFICES ASSUME TypeOK, ImportInv, [Next]_vars,
                      NEW i \in Snapshots, commits'[i] > commits[i],
                      ExtractedAt[i] # 0, ~ Overtaken(i)
               PROVE  ExtractedAt[i] >= watermark[OfficeOf[i]]
    OBVIOUS
  <2>1. /\ commits[i] \in Nat
        /\ ExtractedAt[i] \in Nat
        /\ watermark[OfficeOf[i]] \in Nat
    BY InboxAssumption DEF TypeOK
  <2>2. PICK w \in Workers : At(w, "import") /\ handler[w].row = i
    BY <2>1, CommitSplit
  <2> QED
    BY <2>1, <2>2 DEF ImportInv, Overtaken
<1>2. Spec => [][Newer]_vars
  BY <1>1, ImportCorrect, InboxTypeCorrect, PTL DEF Spec
<1> QED
  BY <1>2 DEF WatermarkHolds

\* What a success stands for stays: its commit is counted until its row is
\* deleted, and the watermark does not fall.
Justified(i) ==
  commits[i] > 0 \/ ExtractedAt[i] < watermark[OfficeOf[i]]

LEMMA JustifiedStays ==
  ASSUME TypeOK, [Next]_vars, NEW i \in Snapshots, Justified(i), ~ RowDeleted(i)
  PROVE  Justified(i)'
<1>1. /\ commits[i] \in Nat
      /\ ExtractedAt[i] \in Nat
      /\ OfficeOf[i] \in Offices
  BY InboxAssumption DEF TypeOK
<1>3. /\ watermark[OfficeOf[i]] \in Nat
      /\ watermark'[OfficeOf[i]] \in Nat
      /\ watermark[OfficeOf[i]] <= watermark'[OfficeOf[i]]
  BY <1>1, WatermarkRises
<1>4. CASE commits[i] > 0
  <2>1. commits'[i] > 0
    <3>1. commits'[i] \in {commits[i], commits[i] + 1}
      BY CommitSplit
    <3> QED
      BY <1>1, <1>4, <3>1
  <2> QED
    BY <2>1 DEF Justified
<1>5. CASE ExtractedAt[i] < watermark[OfficeOf[i]]
  <2>1. ExtractedAt[i] < watermark'[OfficeOf[i]]
    BY <1>1, <1>3, <1>5
  <2> QED
    BY <2>1 DEF Justified
<1> QED
  BY <1>4, <1>5 DEF Justified

LEMMA RecordStep ==
  TypeOK /\ WaterInv /\ RecordInv /\ [Next]_vars => RecordInv'
<1> SUFFICES ASSUME TypeOK, WaterInv, RecordInv, [Next]_vars,
                    NEW v \in Workers, handler'[v].phase = "record",
                    NEW i, i = handler'[v].row
             PROVE  Justified(i)'
  BY DEF RecordInv, At, Justified
<1>1. /\ i = handler[v].row
      /\ At(v, "record") \/ (Check(v) /\ AfterCheck(i) = "record") \/ Import(v)
  BY Arrivals
<1>2. handler[v].phase # "idle"
  BY <1>1 DEF At, Check, Import
<1>3. /\ i \in Snapshots
      /\ ExtractedAt[i] \in Nat
      /\ OfficeOf[i] \in Offices
  BY <1>1, <1>2, HandlerRuns, InboxAssumption DEF TypeOK
<1>4. ~ RowDeleted(i)
  BY <1>1, <1>2 DEF RowDeleted, Deletable, At
<1>5. CASE At(v, "record")
  <2>1. Justified(i)
    BY <1>1, <1>5 DEF RecordInv, Justified
  <2> QED
    BY <1>3, <1>4, <2>1, JustifiedStays
<1>6. CASE Check(v) /\ AfterCheck(i) = "record"
  <2>1. Stale(i)
    BY <1>6 DEF AfterCheck
  <2>2. PICK k \in Snapshots : /\ OfficeOf[k] = OfficeOf[i]
                               /\ inbox[k].status = "succeeded"
                               /\ ExtractedAt[i] < ExtractedAt[k]
    BY <2>1 DEF Stale
  <2>3. /\ ExtractedAt[k] <= watermark[OfficeOf[i]]
        /\ ExtractedAt[k] \in Nat
        /\ watermark[OfficeOf[i]] \in Nat
    BY <1>3, <2>2, InboxAssumption DEF WaterInv, TypeOK
  <2>4. ExtractedAt[i] < watermark[OfficeOf[i]]
    BY <1>3, <2>2, <2>3
  <2> QED
    BY <1>3, <1>4, <2>4, JustifiedStays DEF Justified
<1>7. CASE Import(v)
  <2>1. commits' = [commits EXCEPT ![i] = commits[i] + 1] /\ commits[i] \in Nat
    BY <1>1, <1>3, <1>7 DEF Import, Commit, TypeOK
  <2>2. commits'[i] > 0
    BY <1>3, <2>1 DEF TypeOK
  <2> QED
    BY <2>2 DEF Justified
<1> QED
  BY <1>1, <1>5, <1>6, <1>7

LEMMA RecordCorrect == Spec => []RecordInv
<1>1. Init => RecordInv
  BY DEF Init, RecordInv, Idle, At
<1> QED
  BY <1>1, RecordStep, WaterCorrect, InboxTypeCorrect, PTL DEF Spec

\* An abandoned record is of an import that committed, or was skipped.
LateRealInv ==
  \A s \in late : s.kind \in {"succeed", "reconcile"} => Justified(s.row)

LEMMA LateRealStep ==
  TypeOK /\ RecordInv /\ LateRealInv /\ [Next]_vars => LateRealInv'
<1> SUFFICES ASSUME TypeOK, RecordInv, LateRealInv, [Next]_vars,
                    NEW s \in late', s.kind \in {"succeed", "reconcile"}
             PROVE  Justified(s.row)'
  BY DEF LateRealInv, Justified
<1>1. s.row \in Snapshots /\ Justified(s.row)
  <2>1. CASE s \in late
    BY <2>1 DEF LateRealInv, TypeOK, Statement
  <2>2. CASE s \notin late
    <3>1. PICK w \in Workers : Sends(w, s)
      BY <2>2, LateSplit
    <3> QED
      BY <3>1, InFlightType DEF Sends, RecordInv, Justified, Statement
  <2> QED
    BY <2>1, <2>2
<1>2. ~ RowDeleted(s.row)
  BY DEF RowDeleted
<1> QED
  BY <1>1, <1>2, JustifiedStays

LEMMA LateRealCorrect == Spec => []LateRealInv
<1>1. Init => LateRealInv
  BY DEF Init, LateRealInv
<1> QED
  BY <1>1, LateRealStep, RecordCorrect, InboxTypeCorrect, PTL DEF Spec

\* A row says 'succeeded' only if its own import committed, or a newer
\* snapshot of its office had been recorded and it was skipped.
THEOREM SuccessIsReal == Spec => []SucceededIsReal
<1>1. Init => SucceededIsReal
  BY DEF Init, SucceededIsReal, NoRow
<1>2. TypeOK /\ RecordInv /\ LateRealInv /\ SucceededIsReal /\ [Next]_vars =>
        SucceededIsReal'
  <2> SUFFICES ASSUME TypeOK, RecordInv, LateRealInv, SucceededIsReal, [Next]_vars,
                      NEW i \in Snapshots, inbox'[i].status = "succeeded"
               PROVE  Justified(i)'
    BY DEF SucceededIsReal, Justified
  <2>1. ~ RowDeleted(i)
    BY DEF RowDeleted, NoRow
  <2>2. Justified(i)
    <3>1. CASE inbox[i].status = "succeeded"
      BY <3>1 DEF SucceededIsReal, Justified
    <3>2. CASE inbox[i].status # "succeeded"
      <4>1. RowSucceeds(i)
        BY <2>1, <3>2, RowSplit, RowShapes DEF RowAccepted
      <4> QED
        BY <4>1 DEF RowSucceeds, RecordInv, LateRealInv, Justified
    <3> QED
      BY <3>1, <3>2
  <2> QED
    BY <2>1, <2>2, JustifiedStays
<1> QED
  BY <1>1, <1>2, LateRealCorrect, RecordCorrect, InboxTypeCorrect, PTL DEF Spec

-----------------------------------------------------------------------------
(* A failed row is honest *)

\* A row that a handler owns has been claimed.
TakenInv ==
  \A w \in Workers : Owning(w) =>
    inbox[handler[w].row].status \notin {"absent", "queued"}

\* A commit that was not forgotten is recorded, or about to be.
KnownInv ==
  \A i \in Snapshots \ forgotten :
    commits[i] > 0 =>
      \/ inbox[i].status = "succeeded"
      \/ \E w \in Workers : At(w, "record") /\ handler[w].row = i

LEMMA TakenStep == TypeOK /\ PresentInv /\ TakenInv /\ [Next]_vars => TakenInv'
<1> SUFFICES ASSUME TypeOK, PresentInv, TakenInv, [Next]_vars,
                    NEW w \in Workers, Owning(w)', NEW i, i = handler'[w].row
             PROVE  inbox'[i].status \notin {"absent", "queued"}
  BY DEF TakenInv
<1>1. CASE ClaimRow(w) /\ Claimable(handler[w].row)
  <2>1. inbox'[i] = Claimed(i)
    BY <1>1, ClaimGives
  <2> QED
    BY <2>1 DEF Claimed
<1>2. CASE Owning(w) /\ handler'[w].row = handler[w].row
  <2>1. inbox[i].status \notin {"absent", "queued"}
    BY <1>2 DEF TakenInv
  <2>2. ~ At(w, "idle")
    BY <1>2 DEF Owning, At
  <2>3. /\ i \in Snapshots
        /\ \/ inbox'[i] = inbox[i]
           \/ RowClaimed(i) \/ RowSucceeds(i) \/ RowFails(i) \/ RowRenewed(i)
           \/ RowLapses(i) \/ RowTerminalized(i)
    BY <1>2, <2>2, HandledRow
  <2> QED
    BY <2>1, <2>3, RowShapes
<1> QED
  BY <1>1, <1>2, OwnersStay

\* A recorded success stays while its commit is counted.
LEMMA SuccessKept ==
  ASSUME TypeOK, [Next]_vars, NEW i \in Snapshots,
         inbox[i].status = "succeeded", commits'[i] > 0
  PROVE  inbox'[i].status = "succeeded"
<1>1. CASE \E k \in Snapshots : NewSuccess(k)
  <2>1. PICK k \in Snapshots : Succeed(k)
    BY <1>1 DEF NewSuccess
  <2> QED
    BY <2>1, NewSuccessIs
<1> QED
  BY <1>1, SuccessSplit DEF SameSuccesses, FewerSuccesses

\* A handler at its record leaves it by a record that lands or fails, or dies.
LEMMA RecorderStays ==
  ASSUME TypeOK, [Next]_vars, NEW u \in Workers, At(u, "record")
  PROVE  \/ At(u, "record")' /\ handler'[u].row = handler[u].row
         \/ Record(u) \/ RecordFails(u) \/ Crash(u)
<1> DEFINE Stays == \/ At(u, "record")' /\ handler'[u].row = handler[u].row
                    \/ Record(u) \/ RecordFails(u) \/ Crash(u)
<1>0. handler'[u] = handler[u] => Stays
  BY DEF At
<1>1. CASE StillStep
  BY <1>0, <1>1, StillKeeps
<1>2. ASSUME NEW w \in Workers,
             \/ \E i \in Snapshots : ClaimJob(w, i)
             \/ ClaimRow(w) /\ Claimable(handler[w].row)
             \/ SettleJob(w) \/ Crash(w)
      PROVE  Stays
  <2>1. u # w => handler'[u] = handler[u]
    BY <1>2 DEF ClaimJob, ClaimRow, SettleJob, Crash, TypeOK
  <2>2. u = w => Crash(u)
    BY <1>2 DEF ClaimJob, ClaimRow, SettleJob, At
  <2> QED
    BY <1>0, <2>1, <2>2
<1>3. ASSUME NEW w \in Workers, AcquireLock(w)
      PROVE  Stays
  <2>1. Goto(w, "check") /\ At(w, "lock") /\ ~ At(w, "idle")
    BY <1>3 DEF AcquireLock, At
  <2>2. u # w
    BY <2>1 DEF At
  <2> QED
    BY <1>0, <2>1, <2>2, Moves
<1>4. ASSUME NEW w \in Workers, NEW leases, Stall(w, leases)
      PROVE  Stays
  <2>1. handler[w] \in Running
    BY <1>4, HandlerRuns DEF TypeOK, Stall, At
  <2>2. handler'[u].phase = handler[u].phase /\ handler'[u].row = handler[u].row
    BY <1>4, <2>1 DEF Stall, TypeOK, Running
  <2> QED
    BY <2>2 DEF At
<1>5. ASSUME NEW w \in Workers, NEW ph \in Phase,
             WaitingMove(w, ph) \/ ReleasingMove(w, ph) \/ HoldingMove(w, ph)
      PROVE  Stays
  <2>1. ~ At(w, "idle")
    BY <1>5 DEF WaitingMove, ReleasingMove, HoldingMove, Holding, At
  <2>2. u # w => handler'[u] = handler[u]
    BY <1>5, <2>1, Moves DEF WaitingMove, ReleasingMove, HoldingMove
  <2>3. u = w => Record(u) \/ RecordFails(u)
    BY <1>5
       DEF WaitingMove, ReleasingMove, HoldingMove, Holding, Check, Import, At
  <2> QED
    BY <1>0, <2>2, <2>3
<1> QED
  BY <1>1, <1>2, <1>3, <1>4, <1>5, HandlerSplit

\* A counted commit that is not forgotten was counted, and not forgotten,
\* before, or is the one an importer has just seen.
LEMMA Remembered ==
  ASSUME TypeOK, [Next]_vars, NEW i \in Snapshots,
         i \notin forgotten', commits'[i] > 0
  PROVE  /\ i \notin forgotten
         /\ commits[i] > 0 \/ \E w \in Workers : Import(w) /\ handler[w].row = i
<1> USE DEF history
<1> DEFINE Was == /\ i \notin forgotten
                  /\ \/ commits[i] > 0
                     \/ \E w \in Workers : Import(w) /\ handler[w].row = i
<1>0. commits \in [Snapshots -> Nat]
  BY DEF TypeOK
<1>1. commits' = commits /\ forgotten' = forgotten => Was
  OBVIOUS
<1>2. ASSUME NEW w \in Workers, Import(w)
      PROVE  Was
  BY <1>0, <1>2 DEF Import, Commit
<1>3. ASSUME NEW w \in Workers, ImportThrows(w) \/ Crash(w) \/ RecordFails(w)
      PROVE  Was
  <2>1. \/ commits' = commits
        \/ Commit(handler[w].row) /\ Forget(handler[w].row)
    BY <1>3 DEF ImportThrows, Crash, RecordFails, At
  <2>2. forgotten' = forgotten \/ Forget(handler[w].row)
    BY <1>3 DEF ImportThrows, Crash, RecordFails, At
  <2>3. i \notin forgotten
    BY <2>2 DEF Forget
  <2>4. CASE commits' = commits
    BY <2>3, <2>4
  <2>5. CASE Commit(handler[w].row) /\ Forget(handler[w].row)
    <3>1. i # handler[w].row
      BY <2>5 DEF Forget
    <3>2. commits'[i] = commits[i]
      BY <1>0, <2>5, <3>1 DEF Commit
    <3> QED
      BY <2>3, <3>2
  <2> QED
    BY <2>1, <2>4, <2>5
<1>4. ASSUME Retain
      PROVE  Was
  BY <1>0, <1>4 DEF Retain
<1>5. ASSUME NEW w \in Workers,
             \/ \E k \in Snapshots : ClaimJob(w, k)
             \/ ClaimRow(w) \/ ClaimRowFails(w) \/ RenewLease(w)
             \/ Record(w) \/ MarkFailed(w)
             \/ Look(w) \/ AcquireLock(w) \/ LockTimesOut(w) \/ QueryFails(w)
             \/ Check(w) \/ MarkFailedFails(w) \/ SettleJob(w)
             \/ \E leases \in SUBSET Lease \ {{}} : Stall(w, leases)
      PROVE  commits' = commits /\ forgotten' = forgotten
  BY <1>5 DEF ClaimJob, ClaimRow, ClaimRowFails, RenewLease, Record,
              MarkFailed, Look, AcquireLock, LockTimesOut, QueryFails, Check,
              MarkFailedFails, SettleJob, Stall
<1>6. ASSUME \/ \E k \in Snapshots : Accept(k) \/ JobLapses(k) \/ LeaseLapses(k)
             \/ \E s \in late : LateLands(s)
      PROVE  commits' = commits /\ forgotten' = forgotten
  BY <1>6 DEF Accept, JobLapses, LeaseLapses, LateLands, LateClaim,
              LateRenewal, LateFailure, LateSuccess
<1>7. SweepJobs \/ ReclaimJobs \/ Terminalize \/ Reenqueue \/ UNCHANGED vars =>
        commits' = commits /\ forgotten' = forgotten
  BY DEF SweepJobs, ReclaimJobs, Terminalize, Reenqueue, vars
<1>8. ASSUME NEW w \in Workers, WorkerStep(w)
      PROVE  Was
  BY <1>1, <1>2, <1>3, <1>5, <1>8 DEF WorkerStep, HandlerStep, HandlerOutage
<1> QED
  BY <1>1, <1>4, <1>6, <1>7, <1>8 DEF Next, RecoveryRuns

LEMMA KnownStep == TypeOK /\ TakenInv /\ KnownInv /\ [Next]_vars => KnownInv'
<1> SUFFICES ASSUME TypeOK, TakenInv, KnownInv, [Next]_vars,
                    NEW i \in Snapshots, i \notin forgotten', commits'[i] > 0
             PROVE  \/ inbox'[i].status = "succeeded"
                    \/ \E w \in Workers : At(w, "record")' /\ handler'[w].row = i
  BY DEF KnownInv
<1>1. /\ i \notin forgotten
      /\ commits[i] > 0 \/ \E w \in Workers : Import(w) /\ handler[w].row = i
  BY Remembered
<1>2. ASSUME NEW w \in Workers, Import(w), handler[w].row = i
      PROVE  At(w, "record")' /\ handler'[w].row = i
  BY <1>2, Moves DEF Import, At
<1>3. CASE inbox[i].status = "succeeded"
  BY <1>3, SuccessKept
<1>4. ASSUME NEW u \in Workers, At(u, "record"), handler[u].row = i,
             Record(u) \/ RecordFails(u) \/ Crash(u)
      PROVE  inbox'[i].status = "succeeded"
  <2>1. Record(u)
    BY <1>4 DEF RecordFails, Crash, Forget
  <2>2. inbox[i].status \notin {"absent", "queued"}
    BY <1>4 DEF TakenInv, Owning, At
  <2>3. inbox[i].status \in InboxStatus /\ Succeed(i)
    BY <1>4, <2>1 DEF TypeOK, InboxRow, Record
  <2>4. CASE inbox[i].status \in {"processing", "failed"}
    <3>1. inbox' = [inbox EXCEPT ![i] = Done(i, "succeeded")]
      BY <2>3, <2>4 DEF Succeed
    <3> QED
      BY <3>1 DEF TypeOK, Done, InboxRow
  <2> QED
    BY SuccessKept, <2>2, <2>3, <2>4 DEF InboxStatus
<1>5. CASE commits[i] > 0 /\ inbox[i].status # "succeeded"
  <2>1. PICK u \in Workers : At(u, "record") /\ handler[u].row = i
    BY <1>1, <1>5 DEF KnownInv
  <2> QED
    BY <1>4, <2>1, RecorderStays
<1> QED
  BY <1>1, <1>2, <1>3, <1>5

\* A row says 'failed' of a committed import only while its importer is about
\* to correct that, unless a crash or an outage lost the commit from sight.
THEOREM FailureIsHonest == Spec => []FailedIsHonest
<1>1. Init => TakenInv /\ KnownInv
  BY DEF Init, TakenInv, KnownInv, Owning, Idle
<1>2. KnownInv => FailedIsHonest
  BY DEF KnownInv, FailedIsHonest
<1> QED
  BY <1>1, <1>2, TakenStep, KnownStep, PresentCorrect, InboxTypeCorrect, PTL
     DEF Spec
=============================================================================
