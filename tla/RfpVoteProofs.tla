--------------------------- MODULE RfpVoteProofs ---------------------------
(***************************************************************************)
(* Theorems about RfpVote, for every number of voters and every bound.     *)
(***************************************************************************)
EXTENDS RfpVote, FiniteSetTheorems, TLAPS

-----------------------------------------------------------------------------
(* Type correctness *)

\* A cycle is of a round that was opened, and a live job has a try left, or has
\* lost some to leases that lapsed.
RoundInv ==
  /\ cycle.status # "none" => cycle.round \in 1 .. opened
  /\ \A j \in Creates : Live(creates[j]) => creates[j].tries < MaxTries + faults

TypeInv == TypeOK /\ RoundInv

\* The edits of the deal's columns.
LEMMA CycleEdits ==
  ASSUME NEW c \in Cycle, NEW n \in Nat
  PROVE  /\ [c EXCEPT !.status = "declined"] \in Cycle
         /\ [c EXCEPT !.status = "pending"] \in Cycle
         /\ [c EXCEPT !.status = "sendFailed"] \in Cycle
         /\ [c EXCEPT !.override = "approving", !.decision = "approved",
                      !.reviewedAt = n] \in Cycle
         /\ [c EXCEPT !.override = "none", !.decision = "reconfirmed",
                      !.reviewedAt = n] \in Cycle
         /\ [c EXCEPT !.status = "pending", !.override = "none",
                      !.attemptAt = n] \in Cycle
         /\ [c EXCEPT !.status = "approved", !.override = "none",
                      !.attemptAt = 0] \in Cycle
         /\ [c EXCEPT !.override = "failed",
                      !.status = IF @ = "pending" THEN "sendFailed" ELSE @] \in Cycle
BY DEF Cycle

LEMMA NoCycleType ==
  /\ NoCycle \in Cycle
  /\ \A n \in Nat, r \in 0 .. MaxRounds :
       [NoCycle EXCEPT !.status = "pending", !.round = r, !.requestedAt = n]
         \in Cycle
<1>1. MaxRounds \in Nat /\ 0 \in 0 .. MaxRounds
  BY RfpAssumption
<1>2. NoCycle \in Cycle
  BY <1>1 DEF NoCycle, Cycle
<1> QED
  BY <1>2 DEF Cycle

LEMMA NoSignalType == NoSignal \in [attempt : Nat, answered : Nat]
BY DEF NoSignal, Signal

\* One vote more is still no more votes than voters.
LEMMA CountedType ==
  ASSUME TypeOK, NEW r \in Rounds, VoterLeft(r), NEW d \in {"approve", "reject"}
  PROVE  /\ Counted(votes[r], d) \in [approve : 0 .. Voters, reject : 0 .. Voters]
         /\ Counted(votes[r], "approve").approve = votes[r].approve + 1
         /\ Counted(votes[r], "approve").reject = votes[r].reject
         /\ Counted(votes[r], "reject").approve = votes[r].approve
         /\ Counted(votes[r], "reject").reject = votes[r].reject + 1
<1>1. votes[r] \in [approve : 0 .. Voters, reject : 0 .. Voters]
  BY DEF TypeOK
<1>2. votes[r].approve + votes[r].reject < Voters
  BY DEF VoterLeft
<1>3. Counted(votes[r], "approve") = [votes[r] EXCEPT !.approve = votes[r].approve + 1]
  BY DEF Counted
<1>4. Counted(votes[r], "reject") = [votes[r] EXCEPT !.reject = votes[r].reject + 1]
  BY DEF Counted
<1>5. d = "approve" \/ d = "reject"
  OBVIOUS
<1> QED
  BY <1>1, <1>2, <1>3, <1>4, <1>5, RfpAssumption

LEMMA FaultsType ==
  ASSUME TypeOK
  PROVE  /\ MaxTries \in Nat \ {0} /\ MaxFaults \in Nat
         /\ faults \in Nat /\ faults <= MaxFaults
<1>1. faults \in 0 .. MaxFaults
  BY DEF TypeOK
<1>2. MaxTries \in Nat \ {0} /\ MaxFaults \in Nat
  BY RfpAssumption
<1> QED
  BY <1>1, <1>2

LEMMA TriesType ==
  ASSUME NEW job \in CreateJob
  PROVE  job.tries \in Nat
<1>1. job.tries \in 0 .. MaxTries + MaxFaults
  BY DEF CreateJob
<1>2. MaxTries \in Nat /\ MaxFaults \in Nat
  BY RfpAssumption
<1> QED
  BY <1>1, <1>2

\* A job in the queue, and what a try makes of it.
LEMMA JobType ==
  ASSUME NEW r \in Rounds, clock' \in Nat
  PROVE  Job(r) \in CreateJob /\ Job(r).round = r /\ Job(r).at = clock'
         /\ Job(r).tries = 0 /\ Live(Job(r))
BY RfpAssumption DEF Job, CreateJob, Live

LEMMA AfterTryType ==
  ASSUME TypeOK, NEW job \in CreateJob, Live(job), job.tries < MaxTries + faults
  PROVE  /\ AfterTry(job) \in CreateJob
         /\ AfterTry(job).round = job.round
         /\ AfterTry(job).at = job.at
         /\ AfterTry(job).stalled = job.stalled /\ AfterTry(job).loose = job.loose
         /\ Live(AfterTry(job)) => AfterTry(job).tries < MaxTries
<1>1. job.tries + 1 \in 0 .. MaxTries + MaxFaults
  BY FaultsType, TriesType
<1>2. /\ AfterTry(job) = [job EXCEPT !.tries = job.tries + 1, !.status = AfterTry(job).status]
      /\ AfterTry(job).status \in {"queued", "dead"}
      /\ AfterTry(job).status = "queued" => job.tries + 1 < MaxTries
  BY DEF AfterTry, CreateJob
<1> QED
  BY <1>1, <1>2 DEF CreateJob, Live

\* Changing one element of a sequence, and adding one.
LEMMA SeqChange ==
  ASSUME NEW S, NEW s \in Seq(S), NEW i \in 1 .. Len(s), NEW x \in S
  PROVE  /\ [s EXCEPT ![i] = x] \in Seq(S)
         /\ Len([s EXCEPT ![i] = x]) = Len(s)
         /\ \A k \in 1 .. Len(s) :
              [s EXCEPT ![i] = x][k] = IF k = i THEN x ELSE s[k]
OBVIOUS

LEMMA SeqAdd ==
  ASSUME NEW S, NEW s \in Seq(S), NEW x \in S
  PROVE  /\ Append(s, x) \in Seq(S)
         /\ Len(Append(s, x)) = Len(s) + 1
         /\ Append(s, x)[Len(s) + 1] = x
         /\ \A k \in 1 .. Len(s) : Append(s, x)[k] = s[k]
OBVIOUS

\* The rows of the three tables.
LEMMA CreateRow == ASSUME TypeOK, NEW j \in Creates PROVE creates[j] \in CreateJob
BY DEF TypeOK, Creates

LEMMA InviteRow == ASSUME TypeOK, NEW i \in Invites PROVE invites[i] \in InviteJob
BY DEF TypeOK, Invites

LEMMA ProjectRow == ASSUME TypeOK, NEW p \in Projects PROVE projects[p] \in Project
BY DEF TypeOK, Projects

\* A step of the worker or of its sweep on one create job.
WorkerStep(j) ==
  Authorise(j) \/ AuthoriseBlind(j) \/ Post(j) \/ Stray(j) \/ JobSweep(j)

\* It leaves the deal alone unless it is the sweep of a dead job, and asks for
\* one project at most, in the name of the job.
LEMMA WorkerFrame ==
  ASSUME NEW j, WorkerStep(j)
  PROVE  /\ UNCHANGED <<active, linked, opened, votes, invites, glance, clock, began,
                         overruled>>
         /\ \/ UNCHANGED <<cycle, blame, slips>>
            \/ creates[j].status = "dead" /\ SweepFails(j)
         /\ projects' = projects \/ projects' = Append(projects, Request(creates[j]))
         /\ faults' = faults \/ (faults < MaxFaults /\ faults' = faults + 1)
<1>1. CASE Authorise(j) \/ AuthoriseBlind(j)
  BY <1>1 DEF Authorise, AuthoriseBlind, JobFrame
<1>2. CASE Post(j)
  BY <1>2 DEF Post, PostAccepted, PostLost, PostRefused, JobFrame
<1>3. CASE Stray(j)
  BY <1>3 DEF Stray, Lapse, StrayAuthorise, StrayPost, JobFrame
<1>4. CASE JobSweep(j)
  BY <1>4 DEF JobSweep
<1> QED
  BY <1>1, <1>2, <1>3, <1>4 DEF WorkerStep

\* A lapse and the runs it leaves behind, on the job alone.
LEMMA StrayTouches ==
  ASSUME TypeInv, NEW j \in Creates, Stray(j)
  PROVE  \E x \in CreateJob :
           /\ creates' = [creates EXCEPT ![j] = x]
           /\ x.round = creates[j].round
           /\ x.at = creates[j].at
           /\ CanAsk(creates[j])
           /\ Live(x) => Live(creates[j]) /\ x.tries < MaxTries + faults'
<1>0. creates[j] \in CreateJob
  BY DEF TypeInv, TypeOK, Creates
<1>1. Live(creates[j]) => creates[j].tries < MaxTries + faults
  BY DEF TypeInv, RoundInv
<1>2. faults \in Nat /\ MaxFaults \in Nat /\ MaxTries \in Nat /\ faults <= MaxFaults
  BY FaultsType DEF TypeInv
<1>3. ASSUME NEW lives \in BOOLEAN, Lapse(j, lives)
      PROVE  \E s, l \in Nat :
               /\ creates' = [creates EXCEPT ![j] =
                    [creates[j] EXCEPT !.status = "queued", !.tries = creates[j].tries + 1,
                                       !.stalled = s, !.loose = l]]
               /\ Live(creates[j])
               /\ creates[j].tries + 1 \in 0 .. MaxTries + MaxFaults
               /\ creates[j].tries + 1 < MaxTries + faults'
  <2> DEFINE s == IF lives /\ creates[j].status = "queued"
                  THEN creates[j].stalled + 1 ELSE creates[j].stalled
             l == IF lives /\ creates[j].status = "cleared"
                  THEN creates[j].loose + 1 ELSE creates[j].loose
  <2>1. s \in Nat /\ l \in Nat
    BY <1>0 DEF CreateJob
  <2>2. /\ creates' = [creates EXCEPT ![j] =
             [creates[j] EXCEPT !.status = "queued", !.tries = creates[j].tries + 1,
                                !.stalled = s, !.loose = l]]
        /\ Live(creates[j]) /\ faults < MaxFaults /\ faults' = faults + 1
    BY <1>3 DEF Lapse, Lapsed
  <2>3. /\ creates[j].tries + 1 \in 0 .. MaxTries + MaxFaults
        /\ creates[j].tries + 1 < MaxTries + faults'
    BY <1>0, <1>1, <1>2, <2>2, TriesType
  <2> HIDE DEF s, l
  <2> QED
    BY <2>1, <2>2, <2>3
<1>4. ASSUME NEW readable \in BOOLEAN, StrayAuthorise(j, readable)
      PROVE  \E s, l \in Nat :
               /\ creates' = [creates EXCEPT ![j] =
                    [creates[j] EXCEPT !.stalled = s, !.loose = l]]
               /\ creates[j].stalled > 0 /\ faults <= faults' /\ faults' \in Nat
  <2> DEFINE s == creates[j].stalled - 1
             l == IF Creatable(creates[j]) \/ ~ readable
                  THEN creates[j].loose + 1 ELSE creates[j].loose
  <2>1. /\ creates' = [creates EXCEPT ![j] = [creates[j] EXCEPT !.stalled = s, !.loose = l]]
        /\ creates[j].stalled > 0
        /\ faults' = faults \/ faults' = faults + 1
    BY <1>4 DEF StrayAuthorise, Rechecked
  <2>2. s \in Nat /\ l \in Nat
    BY <1>0, <2>1 DEF CreateJob
  <2>3. faults <= faults' /\ faults' \in Nat
    BY <1>2, <2>1
  <2> HIDE DEF s, l
  <2> QED
    BY <2>1, <2>2, <2>3
<1>5. ASSUME NEW accepted \in BOOLEAN, StrayPost(j, accepted)
      PROVE  \E l \in Nat :
               /\ creates' = [creates EXCEPT ![j] = [creates[j] EXCEPT !.loose = l]]
               /\ creates[j].loose > 0 /\ faults' = faults
  <2>1. /\ creates' = [creates EXCEPT ![j] = [creates[j] EXCEPT !.loose = creates[j].loose - 1]]
        /\ creates[j].loose > 0 /\ faults' = faults
    BY <1>5 DEF StrayPost
  <2>2. creates[j].loose - 1 \in Nat
    BY <1>0, <2>1 DEF CreateJob
  <2> QED
    BY <2>1, <2>2
<1>6. ASSUME NEW lives \in BOOLEAN, Lapse(j, lives)
      PROVE  \E x \in CreateJob :
               /\ creates' = [creates EXCEPT ![j] = x]
               /\ x.round = creates[j].round
               /\ x.at = creates[j].at
               /\ CanAsk(creates[j])
               /\ Live(x) => Live(creates[j]) /\ x.tries < MaxTries + faults'
  <2>1. PICK s \in Nat, l \in Nat :
               /\ creates' = [creates EXCEPT ![j] =
                    [creates[j] EXCEPT !.status = "queued", !.tries = creates[j].tries + 1,
                                       !.stalled = s, !.loose = l]]
               /\ Live(creates[j])
               /\ creates[j].tries + 1 \in 0 .. MaxTries + MaxFaults
               /\ creates[j].tries + 1 < MaxTries + faults'
    BY <1>3, <1>6
  <2> DEFINE x == [creates[j] EXCEPT !.status = "queued", !.tries = creates[j].tries + 1,
                                     !.stalled = s, !.loose = l]
  <2>2. /\ x \in CreateJob /\ x.round = creates[j].round /\ x.at = creates[j].at
        /\ x.tries = creates[j].tries + 1
    BY <1>0, <2>1 DEF CreateJob
  <2> QED
    BY <2>1, <2>2 DEF CanAsk
<1>7. ASSUME NEW readable \in BOOLEAN, StrayAuthorise(j, readable)
      PROVE  \E x \in CreateJob :
               /\ creates' = [creates EXCEPT ![j] = x]
               /\ x.round = creates[j].round
               /\ x.at = creates[j].at
               /\ CanAsk(creates[j])
               /\ Live(x) => Live(creates[j]) /\ x.tries < MaxTries + faults'
  <2>1. PICK s \in Nat, l \in Nat :
               /\ creates' = [creates EXCEPT ![j] =
                    [creates[j] EXCEPT !.stalled = s, !.loose = l]]
               /\ creates[j].stalled > 0 /\ faults <= faults' /\ faults' \in Nat
    BY <1>4, <1>7
  <2> DEFINE x == [creates[j] EXCEPT !.stalled = s, !.loose = l]
  <2>2. /\ x \in CreateJob /\ x.round = creates[j].round /\ x.at = creates[j].at
        /\ x.status = creates[j].status /\ x.tries = creates[j].tries
    BY <1>0 DEF CreateJob
  <2>3. Live(x) => Live(creates[j]) /\ x.tries < MaxTries + faults'
    <3>1. creates[j].tries \in Nat
      BY <1>0, TriesType
    <3> QED
      BY <1>1, <1>2, <2>1, <2>2, <3>1 DEF Live
  <2> QED
    BY <2>1, <2>2, <2>3 DEF CanAsk
<1>8. ASSUME NEW accepted \in BOOLEAN, StrayPost(j, accepted)
      PROVE  \E x \in CreateJob :
               /\ creates' = [creates EXCEPT ![j] = x]
               /\ x.round = creates[j].round
               /\ x.at = creates[j].at
               /\ CanAsk(creates[j])
               /\ Live(x) => Live(creates[j]) /\ x.tries < MaxTries + faults'
  <2>1. PICK l \in Nat :
               /\ creates' = [creates EXCEPT ![j] = [creates[j] EXCEPT !.loose = l]]
               /\ creates[j].loose > 0 /\ faults' = faults
    BY <1>5, <1>8
  <2> DEFINE x == [creates[j] EXCEPT !.loose = l]
  <2>2. /\ x \in CreateJob /\ x.round = creates[j].round /\ x.at = creates[j].at
        /\ x.status = creates[j].status /\ x.tries = creates[j].tries
    BY <1>0 DEF CreateJob
  <2>3. Live(x) => Live(creates[j]) /\ x.tries < MaxTries + faults'
    BY <1>1, <2>1, <2>2 DEF Live
  <2> QED
    BY <2>1, <2>2, <2>3 DEF CanAsk
<1> QED
  BY <1>6, <1>7, <1>8 DEF Stray

\* It keeps the job's round and time, does not bring it back to life, and lets
\* only a job that can ask leave something behind that can.
LEMMA WorkerTouches ==
  ASSUME TypeInv, NEW j \in Creates, WorkerStep(j)
  PROVE  \E x \in CreateJob :
           /\ creates' = [creates EXCEPT ![j] = x]
           /\ x.round = creates[j].round
           /\ x.at = creates[j].at
           /\ CanAsk(x) => CanAsk(creates[j])
           /\ Live(x) => x.tries < MaxTries + faults'
<1>0. creates \in Seq(CreateJob) /\ creates[j] \in CreateJob
  BY DEF TypeInv, TypeOK, Creates
<1>1. Live(creates[j]) => creates[j].tries < MaxTries + faults
  BY DEF TypeInv, RoundInv
<1>2. faults \in Nat /\ faults' \in Nat /\ faults <= faults' /\ MaxTries \in Nat
  BY WorkerFrame, FaultsType DEF TypeInv
<1>3. CASE Authorise(j) \/ AuthoriseBlind(j)
  <2>1. PICK s \in {"cleared", "done"} :
           creates' = [creates EXCEPT ![j] = [creates[j] EXCEPT !.status = s]]
    BY <1>3 DEF Authorise, AuthoriseBlind
  <2> DEFINE x == [creates[j] EXCEPT !.status = s]
  <2>2. /\ x \in CreateJob /\ x.round = creates[j].round /\ x.at = creates[j].at
        /\ x.tries = creates[j].tries
    BY <1>0 DEF CreateJob
  <2>3. Live(creates[j])
    BY <1>3 DEF Authorise, AuthoriseBlind, Live
  <2>4. x.tries < MaxTries + faults'
    BY <1>0, <1>1, <1>2, <2>2, <2>3, TriesType
  <2> QED
    BY <2>1, <2>2, <2>3, <2>4 DEF CanAsk
<1>4. CASE PostAccepted(j)
  <2> DEFINE x == [creates[j] EXCEPT !.status = "done"]
  <2>1. creates' = [creates EXCEPT ![j] = x] /\ Live(creates[j])
    BY <1>4 DEF PostAccepted, Live
  <2>2. x \in CreateJob /\ x.round = creates[j].round /\ x.at = creates[j].at /\ ~ Live(x)
    BY <1>0 DEF CreateJob, Live
  <2> QED
    BY <2>1, <2>2 DEF CanAsk
<1>5. CASE PostLost(j) \/ PostRefused(j)
  <2>1. /\ creates' = [creates EXCEPT ![j] = AfterTry(creates[j])]
        /\ Live(creates[j])
    BY <1>5 DEF PostLost, PostRefused, Live
  <2>2. /\ AfterTry(creates[j]) \in CreateJob
        /\ AfterTry(creates[j]).round = creates[j].round
        /\ AfterTry(creates[j]).at = creates[j].at
        /\ Live(AfterTry(creates[j])) => AfterTry(creates[j]).tries < MaxTries
    BY <1>0, <1>1, <2>1, AfterTryType DEF TypeInv
  <2>3. Live(AfterTry(creates[j])) => AfterTry(creates[j]).tries < MaxTries + faults'
    BY <1>2, <2>2, RfpAssumption DEF CreateJob
  <2> QED
    BY <2>1, <2>2, <2>3 DEF CanAsk
<1>6. CASE JobSweep(j)
  <2> DEFINE x == [creates[j] EXCEPT !.handled = TRUE]
  <2>1. creates' = [creates EXCEPT ![j] = x] /\ creates[j].status = "dead"
    BY <1>6 DEF JobSweep
  <2>2. /\ x \in CreateJob /\ x.round = creates[j].round /\ x.at = creates[j].at /\ ~ Live(x)
        /\ x.stalled = creates[j].stalled /\ x.loose = creates[j].loose
    BY <1>0, <2>1 DEF CreateJob, Live
  <2> QED
    BY <2>1, <2>2 DEF CanAsk
<1>7. CASE Stray(j)
  BY <1>7, StrayTouches
<1> QED
  BY <1>3, <1>4, <1>5, <1>6, <1>7 DEF WorkerStep, Post

SameStamps(c) ==
  /\ c.requestedAt = cycle.requestedAt
  /\ c.attemptAt = cycle.attemptAt
  /\ c.reviewedAt = cycle.reviewedAt

\* What a signal that fails or links the deal makes of its row.
LEMMA SignalEdits ==
  ASSUME TypeOK
  PROVE  /\ Failed \in Cycle /\ Linked \in Cycle
         /\ Failed.status = IF cycle.status = "pending" THEN "sendFailed" ELSE cycle.status
         /\ Failed.override = "failed" /\ Failed.round = cycle.round
         /\ Failed.decision = cycle.decision /\ SameStamps(Failed)
         /\ Linked.status = "approved" /\ Linked.override = "none"
         /\ Linked.round = cycle.round /\ Linked.decision = cycle.decision
<1>1. cycle \in Cycle
  BY DEF TypeOK
<1>2. Failed \in Cycle /\ Linked \in Cycle
  BY <1>1, CycleEdits DEF Failed, Linked
<1>3. /\ Failed.status = IF cycle.status = "pending" THEN "sendFailed" ELSE cycle.status
      /\ Failed.override = "failed" /\ Failed.round = cycle.round
      /\ Failed.decision = cycle.decision /\ SameStamps(Failed)
  BY <1>1 DEF Cycle, Failed, SameStamps
<1>4. /\ Linked.status = "approved" /\ Linked.override = "none"
      /\ Linked.round = cycle.round /\ Linked.decision = cycle.decision
  BY <1>1 DEF Cycle, Linked
<1> QED
  BY <1>2, <1>3, <1>4

\* A sweep that fails the deal on a dead job.
LEMMA SweepFailsType ==
  ASSUME TypeOK, NEW j \in Creates, SweepFails(j)
  PROVE  /\ cycle' = Failed /\ cycle' \in Cycle
         /\ blame' = Signal(creates[j].at, 0) /\ blame' \in [attempt : Nat, answered : Nat]
         /\ slips \subseteq slips'
         /\ slips' \subseteq {"otherRound", "jobLive", "adrift", "overtaken"}
         /\ cycle.status \in {"pending", "declined"} /\ cycle'.round = cycle.round
<1>1. creates[j].at \in Nat
  BY CreateRow DEF CreateJob
<1>2. /\ cycle' = Failed /\ blame' = Signal(creates[j].at, 0)
      /\ slips' = slips \/ slips' = slips \union {"adrift"}
      /\ cycle.status \in {"pending", "declined"}
  BY DEF SweepFails, MayFail, InFlight
<1>3. blame' \in [attempt : Nat, answered : Nat]
  BY <1>1, <1>2 DEF Signal
<1> QED
  BY <1>2, <1>3, SignalEdits DEF TypeOK

\* The worker's posts and the sweeps leave the well-formed state well formed.
LEMMA WorkerType ==
  ASSUME TypeInv, NEW j \in Creates, WorkerStep(j)
  PROVE  TypeInv'
<1>0. PICK x \in CreateJob :
           /\ creates' = [creates EXCEPT ![j] = x]
           /\ x.round = creates[j].round
           /\ x.at = creates[j].at
           /\ Live(x) => x.tries < MaxTries + faults'
  BY WorkerTouches
<1>1. /\ creates' \in Seq(CreateJob)
      /\ Len(creates') = Len(creates)
      /\ \A k \in Creates : creates'[k] = IF k = j THEN x ELSE creates[k]
  BY <1>0, SeqChange DEF TypeInv, TypeOK, Creates
<1>2. /\ projects' \in Seq(Project)
      /\ Len(projects) <= Len(projects')
  <2>1. CASE projects' = projects
    BY <2>1 DEF TypeInv, TypeOK
  <2>2. CASE projects' = Append(projects, Request(creates[j]))
    <3>1. creates[j] \in CreateJob
      BY DEF TypeInv, TypeOK, Creates
    <3>2. Request(creates[j]) \in Project
      BY <3>1 DEF Request, Project, CreateJob
    <3> QED
      BY <2>2, <3>2, SeqAdd DEF TypeInv, TypeOK
  <2> QED
    BY <2>1, <2>2, WorkerFrame
<1>3. /\ faults' \in 0 .. MaxFaults /\ faults <= faults' /\ faults \in Nat
      /\ MaxTries \in Nat /\ \A k \in Creates : creates[k].tries \in Nat
  <2>1. \A k \in Creates : creates[k].tries \in Nat
    BY CreateRow, TriesType DEF TypeInv
  <2>2. /\ faults \in Nat /\ faults <= MaxFaults /\ MaxFaults \in Nat /\ MaxTries \in Nat
        /\ faults' = faults \/ (faults < MaxFaults /\ faults' = faults + 1)
    BY WorkerFrame, FaultsType DEF TypeInv
  <2> QED
    BY <2>1, <2>2
<1>4. /\ cycle' \in Cycle /\ blame' \in [attempt : Nat, answered : Nat]
      /\ slips' \subseteq {"otherRound", "jobLive", "adrift", "overtaken"}
      /\ cycle'.status # "none" => cycle.status # "none" /\ cycle'.round = cycle.round
  <2>1. CASE UNCHANGED <<cycle, blame, slips>>
    BY <2>1 DEF TypeInv, TypeOK
  <2>2. CASE SweepFails(j)
    BY <2>2, SweepFailsType DEF TypeInv
  <2> QED
    BY <2>1, <2>2, WorkerFrame
<1>5. UNCHANGED <<active, linked, opened, votes, invites, glance, clock, began, overruled>>
  BY WorkerFrame
<1>6. linked' \in 0 .. Len(projects') /\ Creates' = Creates
  BY <1>1, <1>2, <1>5 DEF TypeInv, TypeOK, Creates
<1>7. TypeOK'
  BY <1>1, <1>2, <1>3, <1>4, <1>5, <1>6 DEF TypeInv, TypeOK, Cycle, Rounds
<1>8. RoundInv'
  <2>1. ASSUME NEW k \in Creates, Live(creates'[k])
        PROVE  creates'[k].tries < MaxTries + faults'
    <3>1. CASE k = j
      BY <1>0, <1>1, <2>1, <3>1
    <3>2. CASE k # j
      <4>1. creates'[k] = creates[k]
        BY <1>1, <3>2
      <4>2. creates[k].tries < MaxTries + faults
        BY <2>1, <4>1 DEF TypeInv, RoundInv
      <4> QED
        BY <1>3, <4>1, <4>2
    <3> QED
      BY <3>1, <3>2
  <2>2. \A k \in Creates' : Live(creates[k])' => creates'[k].tries < MaxTries + faults'
    BY <1>6, <2>1 DEF Live
  <2> QED
    BY <1>4, <1>5, <2>2 DEF TypeInv, RoundInv
<1> QED
  BY <1>7, <1>8 DEF TypeInv

\* What each request makes of the deal's row.
LEMMA OpenSets ==
  ASSUME TypeOK, Open
  PROVE  /\ cycle' \in Cycle
         /\ cycle'.status = "pending" /\ cycle'.round = opened + 1
         /\ cycle'.override = "none" /\ cycle'.decision = "none"
         /\ cycle'.requestedAt = clock + 1
         /\ opened' = opened + 1 /\ opened' \in Rounds
<1>1. opened' = opened + 1 /\ opened' \in Rounds /\ opened' \in 0 .. MaxRounds
  <2>1. /\ opened \in Nat /\ MaxRounds \in Nat
        /\ opened < MaxRounds /\ opened' = opened + 1
    BY RfpAssumption DEF TypeOK, Open
  <2> QED
    BY <2>1 DEF Rounds
<1>2. cycle' = [NoCycle EXCEPT !.status = "pending", !.round = opened', !.requestedAt = clock']
  BY DEF Open
<1>3. clock' = clock + 1 /\ clock' \in Nat
  BY DEF TypeOK, Open
<1>4. cycle' \in Cycle
  BY <1>1, <1>2, <1>3, NoCycleType
<1>5. /\ cycle'.status = "pending" /\ cycle'.round = opened'
      /\ cycle'.override = "none" /\ cycle'.decision = "none"
      /\ cycle'.requestedAt = clock'
  BY <1>2 DEF NoCycle
<1> QED
  BY <1>1, <1>3, <1>4, <1>5

LEMMA ApproveSets ==
  ASSUME TypeOK, Approve
  PROVE  /\ cycle' \in Cycle
         /\ cycle.status = "declined" /\ cycle'.status = "declined"
         /\ cycle'.round = cycle.round
         /\ cycle'.override = "approving" /\ cycle'.decision = "approved"
         /\ cycle'.reviewedAt = clock + 1
<1>1. cycle \in Cycle /\ clock' = clock + 1 /\ clock' \in Nat
  BY DEF TypeOK, Approve
<1>2. cycle' = [cycle EXCEPT !.override = "approving", !.decision = "approved",
                             !.reviewedAt = clock']
  BY DEF Approve
<1>3. cycle.status = "declined"
  BY DEF Approve, Actionable
<1>4. cycle' \in Cycle
  BY <1>1, <1>2, CycleEdits
<1> QED
  BY <1>1, <1>2, <1>3, <1>4 DEF Cycle

LEMMA ReconfirmSets ==
  ASSUME TypeOK, Reconfirm
  PROVE  /\ cycle' \in Cycle
         /\ cycle.status = "declined" /\ cycle'.status = "declined"
         /\ cycle'.round = cycle.round
         /\ cycle'.override = "none" /\ cycle'.decision = "reconfirmed"
<1>1. cycle \in Cycle /\ clock' \in Nat
  BY DEF TypeOK, Reconfirm
<1>2. cycle' = [cycle EXCEPT !.override = "none", !.decision = "reconfirmed",
                             !.reviewedAt = clock']
  BY DEF Reconfirm
<1>3. cycle.status = "declined"
  BY DEF Reconfirm, Actionable
<1>4. cycle' \in Cycle
  BY <1>1, <1>2, CycleEdits
<1> QED
  BY <1>1, <1>2, <1>3, <1>4 DEF Cycle

LEMMA RetryCreateSets ==
  ASSUME TypeOK, RetryCreate
  PROVE  /\ cycle' \in Cycle
         /\ cycle.status = "sendFailed" /\ cycle'.status = "pending"
         /\ cycle'.round = cycle.round
         /\ cycle'.override = "none" /\ cycle'.decision = cycle.decision
         /\ cycle'.attemptAt = clock + 1
<1>1. cycle \in Cycle /\ clock' = clock + 1 /\ clock' \in Nat
  BY DEF TypeOK, RetryCreate
<1>2. cycle' = [cycle EXCEPT !.status = "pending", !.override = "none",
                             !.attemptAt = clock']
  BY DEF RetryCreate
<1>3. cycle.status = "sendFailed"
  BY DEF RetryCreate, CreateFailed
<1>4. cycle' \in Cycle
  BY <1>1, <1>2, CycleEdits
<1> QED
  BY <1>1, <1>2, <1>3, <1>4 DEF Cycle

\* The steps that move only the status: a deciding denial, a new invitation,
\* and the invitation sweep.
LEMMA StatusSets ==
  ASSUME TypeOK, NEW s \in {"pending", "declined", "sendFailed"},
         cycle' = [cycle EXCEPT !.status = s]
  PROVE  /\ cycle' \in Cycle
         /\ cycle'.status = s /\ cycle'.round = cycle.round
         /\ cycle'.override = cycle.override /\ cycle'.decision = cycle.decision
         /\ SameStamps(cycle')
<1>1. cycle \in Cycle
  BY DEF TypeOK
<1> QED
  BY <1>1 DEF Cycle, SameStamps

LEMMA NoCycleSets ==
  ASSUME Cancel \/ MoveBack
  PROVE  /\ cycle' = NoCycle /\ cycle' \in Cycle
         /\ cycle'.status = "none" /\ cycle'.round = 0
         /\ cycle'.override = "none" /\ cycle'.decision = "none"
<1>1. cycle' = NoCycle
  BY DEF Cancel, MoveBack
<1>2. NoCycle \in Cycle
  BY NoCycleType, RfpAssumption
<1> QED
  BY <1>1, <1>2 DEF NoCycle

\* A request that adds one create job of the deal's round.
LEMMA CreateAdded ==
  ASSUME TypeInv, NEW r \in Rounds, clock' \in Nat,
         creates' = Append(creates, Job(r))
  PROVE  /\ creates' \in Seq(CreateJob)
         /\ Len(creates') = Len(creates) + 1
         /\ creates'[Len(creates) + 1] = Job(r)
         /\ \A k \in Creates : creates'[k] = creates[k]
         /\ \A k \in Creates' : Live(creates'[k]) => creates'[k].tries < MaxTries + faults
<1>1. Job(r) \in CreateJob /\ Job(r).tries < MaxTries + faults
  BY JobType, FaultsType DEF TypeInv
<1>2. /\ creates' \in Seq(CreateJob)
      /\ Len(creates') = Len(creates) + 1
      /\ creates'[Len(creates) + 1] = Job(r)
      /\ \A k \in Creates : creates'[k] = creates[k]
  BY <1>1, SeqAdd DEF TypeInv, TypeOK, Creates
<1>3. ASSUME NEW k \in Creates'
      PROVE  k \in Creates \/ k = Len(creates) + 1
  BY <1>2 DEF Creates, TypeInv, TypeOK
<1> QED
  BY <1>1, <1>2, <1>3 DEF TypeInv, RoundInv

\* The deal's round exists as long as it has one.
LEMMA DealRound ==
  ASSUME TypeInv, cycle.status # "none"
  PROVE  cycle.round \in Rounds
<1>1. opened \in 0 .. MaxRounds /\ MaxRounds \in Nat
  BY RfpAssumption DEF TypeInv, TypeOK
<1> QED
  BY <1>1 DEF TypeInv, RoundInv, Rounds

LEMMA OpenType == TypeInv /\ Open => TypeInv'
<1> SUFFICES ASSUME TypeInv, Open PROVE TypeInv'
  OBVIOUS
<1>1. /\ cycle' \in Cycle /\ cycle'.round = opened' /\ opened' \in Rounds
  BY OpenSets DEF TypeInv
<1>2. opened' \in 0 .. MaxRounds /\ opened' \in 1 .. opened'
  BY <1>1, RfpAssumption DEF Rounds
<1>3. Invitation(opened') \in InviteJob
  BY <1>1 DEF Invitation, InviteJob
<1>4. invites' \in Seq(InviteJob) /\ Len(invites') = Len(invites) + 1
  BY <1>3, SeqAdd DEF TypeInv, TypeOK, Open
<1>5. clock' \in Nat /\ began' \in Nat /\ blame' \in [attempt : Nat, answered : Nat]
  BY NoSignalType DEF TypeInv, TypeOK, Open
<1>6. glance' \in 0 .. Len(invites')
  BY <1>4 DEF TypeInv, TypeOK, Open
<1>7. TypeOK'
  BY <1>1, <1>2, <1>4, <1>5, <1>6 DEF TypeInv, TypeOK, Open
<1> QED
  BY <1>1, <1>2, <1>7 DEF TypeInv, RoundInv, Open, Creates, Live

LEMMA CastType ==
  ASSUME TypeInv, NEW d \in {"approve", "reject"}, NEW r \in 1 .. opened, Cast(d, r)
  PROVE  TypeInv'
<1>0. r \in Rounds /\ cycle.round = r /\ VoterLeft(r)
  <2>1. cycle.status # "none" /\ cycle.round = r /\ VoterLeft(r)
    BY DEF Cast, OpenTo
  <2> QED
    BY <2>1, DealRound
<1>1. votes' \in [Rounds -> [approve : 0 .. Voters, reject : 0 .. Voters]]
  <2>1. Counted(votes[r], d) \in [approve : 0 .. Voters, reject : 0 .. Voters]
    BY <1>0, CountedType DEF TypeInv
  <2>2. votes' = [votes EXCEPT ![r] = Counted(votes[r], d)]
    BY DEF Cast
  <2> QED
    BY <1>0, <2>1, <2>2 DEF TypeInv, TypeOK
<1>2. /\ cycle' \in Cycle /\ cycle'.round = cycle.round
      /\ cycle'.status # "none" => cycle.status # "none"
  <2>1. cycle' = cycle \/ cycle' = [cycle EXCEPT !.status = "declined"]
    BY DEF Cast
  <2>2. cycle.status = "pending" /\ cycle \in Cycle
    BY DEF Cast, OpenTo, TypeInv, TypeOK
  <2> QED
    BY <2>1, <2>2, StatusSets DEF TypeInv
<1>3. clock' = clock /\ clock' \in Nat
  BY DEF Cast, TypeInv, TypeOK
<1>4. /\ creates' \in Seq(CreateJob)
      /\ \A k \in Creates' : Live(creates'[k]) => creates'[k].tries < MaxTries + faults
  <2>1. CASE creates' = creates
    BY <2>1 DEF TypeInv, TypeOK, RoundInv, Creates
  <2>2. CASE creates' = Append(creates, Job(r))
    BY <1>0, <1>3, <2>2, CreateAdded
  <2> QED
    BY <2>1, <2>2 DEF Cast
<1>5. TypeOK'
  BY <1>1, <1>2, <1>3, <1>4 DEF TypeInv, TypeOK, Cast
<1> QED
  BY <1>2, <1>4, <1>5 DEF TypeInv, RoundInv, Cast, Live

LEMMA ApproveType == TypeInv /\ Approve => TypeInv'
<1> SUFFICES ASSUME TypeInv, Approve PROVE TypeInv'
  OBVIOUS
<1>1. /\ cycle' \in Cycle /\ cycle'.round = cycle.round
      /\ cycle.status # "none" /\ cycle.round \in Rounds
  BY ApproveSets, DealRound DEF TypeInv
<1>2. clock' \in Nat /\ began' \in Nat /\ blame' \in [attempt : Nat, answered : Nat]
  BY NoSignalType DEF TypeInv, TypeOK, Approve
<1>3. /\ creates' \in Seq(CreateJob)
      /\ \A k \in Creates' : Live(creates'[k]) => creates'[k].tries < MaxTries + faults
  BY <1>1, <1>2, CreateAdded DEF Approve
<1>4. TypeOK'
  BY <1>1, <1>2, <1>3 DEF TypeInv, TypeOK, Approve
<1> QED
  BY <1>1, <1>3, <1>4 DEF TypeInv, RoundInv, Approve, Live

LEMMA ReconfirmType == TypeInv /\ Reconfirm => TypeInv'
<1> SUFFICES ASSUME TypeInv, Reconfirm PROVE TypeInv'
  OBVIOUS
<1>1. /\ cycle' \in Cycle /\ cycle'.round = cycle.round /\ cycle.status # "none"
  BY ReconfirmSets DEF TypeInv
<1>2. clock' \in Nat /\ active' \in BOOLEAN
  BY DEF TypeInv, TypeOK, Reconfirm
<1>4. TypeOK'
  BY <1>1, <1>2 DEF TypeInv, TypeOK, Reconfirm
<1> QED
  BY <1>1, <1>4 DEF TypeInv, RoundInv, Reconfirm, Live, Creates

LEMMA RetryCreateType == TypeInv /\ RetryCreate => TypeInv'
<1> SUFFICES ASSUME TypeInv, RetryCreate PROVE TypeInv'
  OBVIOUS
<1>1. /\ cycle' \in Cycle /\ cycle'.round = cycle.round
      /\ cycle.status # "none" /\ cycle.round \in Rounds
  BY RetryCreateSets, DealRound DEF TypeInv
<1>2. clock' \in Nat /\ began' \in Nat /\ blame' \in [attempt : Nat, answered : Nat]
  BY NoSignalType DEF TypeInv, TypeOK, RetryCreate
<1>3. /\ creates' \in Seq(CreateJob)
      /\ \A k \in Creates' : Live(creates'[k]) => creates'[k].tries < MaxTries + faults
  BY <1>1, <1>2, CreateAdded DEF RetryCreate
<1>4. TypeOK'
  BY <1>1, <1>2, <1>3 DEF TypeInv, TypeOK, RetryCreate
<1> QED
  BY <1>1, <1>3, <1>4 DEF TypeInv, RoundInv, RetryCreate, Live

LEMMA RetryInviteType == TypeInv /\ RetryInvite => TypeInv'
<1> SUFFICES ASSUME TypeInv, RetryInvite PROVE TypeInv'
  OBVIOUS
<1>1. cycle.status # "none" /\ cycle.round \in Rounds
  BY DealRound DEF RetryInvite, InviteFailed
<1>2. cycle' \in Cycle /\ cycle'.round = cycle.round
  BY StatusSets DEF TypeInv, RetryInvite
<1>3. Invitation(cycle.round) \in InviteJob
  BY <1>1 DEF Invitation, InviteJob
<1>4. invites' \in Seq(InviteJob) /\ Len(invites') = Len(invites) + 1
  BY <1>3, SeqAdd DEF TypeInv, TypeOK, RetryInvite
<1>5. glance' \in 0 .. Len(invites')
  BY <1>4 DEF TypeInv, TypeOK, RetryInvite
<1>6. TypeOK'
  BY <1>2, <1>4, <1>5 DEF TypeInv, TypeOK, RetryInvite
<1> QED
  BY <1>1, <1>2, <1>6 DEF TypeInv, RoundInv, RetryInvite, Creates, Live

LEMMA WithdrawnCreate ==
  ASSUME NEW job \in CreateJob
  PROVE  /\ Withdrawn(job) \in CreateJob
         /\ Withdrawn(job).round = job.round /\ Withdrawn(job).at = job.at
         /\ Live(Withdrawn(job)) => Live(job) /\ Withdrawn(job).tries = job.tries
         /\ CanAsk(Withdrawn(job)) => CanAsk(job)
<1>1. CASE job.status = "queued"
  BY <1>1 DEF Withdrawn, CreateJob, Live, CanAsk
<1>2. CASE job.status = "dead"
  BY <1>2 DEF Withdrawn, CreateJob, Live, CanAsk
<1>3. CASE job.status \notin {"queued", "dead"}
  <2>1. Withdrawn(job) = job
    BY <1>3 DEF Withdrawn
  <2> QED
    BY <2>1
<1> QED
  BY <1>1, <1>2, <1>3

LEMMA WithdrawnInvite ==
  ASSUME NEW job \in InviteJob
  PROVE  Withdrawn(job) \in InviteJob
<1>1. CASE job.status = "queued"
  BY <1>1 DEF Withdrawn, InviteJob
<1>2. CASE job.status = "dead"
  BY <1>2 DEF Withdrawn, InviteJob
<1>3. CASE job.status \notin {"queued", "dead"}
  BY <1>3 DEF Withdrawn
<1> QED
  BY <1>1, <1>2, <1>3

\* What moving the deal back makes of its create jobs.
LEMMA MoveBackJobs ==
  ASSUME TypeInv, MoveBack
  PROVE  /\ creates' \in Seq(CreateJob) /\ Len(creates') = Len(creates)
         /\ \A k \in Creates :
              /\ creates'[k].round = creates[k].round
              /\ creates'[k].at = creates[k].at
              /\ Live(creates'[k]) =>
                   Live(creates[k]) /\ creates'[k].tries = creates[k].tries
              /\ CanAsk(creates'[k]) => CanAsk(creates[k])
<1>1. creates' = [j \in 1 .. Len(creates) |-> Withdrawn(creates[j])]
  BY DEF MoveBack, Creates
<1>2. \A j \in 1 .. Len(creates) : creates[j] \in CreateJob
  BY CreateRow DEF TypeInv, Creates
<1>3. Len(creates) \in Nat
  BY DEF TypeInv, TypeOK
<1>4. \A j \in 1 .. Len(creates) : Withdrawn(creates[j]) \in CreateJob
  BY <1>2, WithdrawnCreate
<1>5. creates' \in Seq(CreateJob) /\ Len(creates') = Len(creates)
  BY <1>1, <1>3, <1>4
<1> QED
  BY <1>1, <1>2, <1>5, WithdrawnCreate DEF Creates

LEMMA MoveBackType == TypeInv /\ MoveBack => TypeInv'
<1> SUFFICES ASSUME TypeInv, MoveBack PROVE TypeInv'
  OBVIOUS
<1>1. cycle' \in Cycle /\ cycle'.status = "none"
  BY NoCycleSets
<1>2. /\ invites' \in Seq(InviteJob) /\ Len(invites') = Len(invites)
  <2>1. invites' = [i \in 1 .. Len(invites) |-> Withdrawn(invites[i])]
    BY DEF MoveBack, Invites
  <2>2. \A i \in 1 .. Len(invites) : Withdrawn(invites[i]) \in InviteJob
    BY InviteRow, WithdrawnInvite DEF TypeInv, Invites
  <2>3. Len(invites) \in Nat
    BY DEF TypeInv, TypeOK
  <2> QED
    BY <2>1, <2>2, <2>3
<1>3. linked' \in 0 .. Len(projects')
  BY DEF TypeInv, TypeOK, MoveBack
<1>4. TypeOK'
  BY <1>1, <1>2, <1>3, MoveBackJobs DEF TypeInv, TypeOK, MoveBack
<1>5. \A k \in Creates' : Live(creates'[k]) => creates'[k].tries < MaxTries + faults
  BY MoveBackJobs DEF TypeInv, RoundInv, Creates
<1> QED
  BY <1>1, <1>4, <1>5 DEF TypeInv, RoundInv, Live, MoveBack

LEMMA CancelType == TypeInv /\ Cancel => TypeInv'
<1> SUFFICES ASSUME TypeInv, Cancel PROVE TypeInv'
  OBVIOUS
<1>1. cycle' \in Cycle /\ cycle'.status = "none"
  BY NoCycleSets
<1>2. TypeOK'
  BY <1>1 DEF TypeInv, TypeOK, Cancel
<1> QED
  BY <1>1, <1>2 DEF TypeInv, RoundInv, Cancel, Live, Creates

LEMMA ArchiveType == TypeInv /\ Archive => TypeInv'
<1> SUFFICES ASSUME TypeInv, Archive PROVE TypeInv'
  OBVIOUS
<1>1. faults' \in 0 .. MaxFaults
  <2>1. faults < MaxFaults /\ faults' = faults + 1
    BY DEF Archive
  <2> QED
    BY <2>1, RfpAssumption DEF TypeInv, TypeOK
<1>2. TypeOK'
  BY <1>1 DEF TypeInv, TypeOK, Archive
<1>3. /\ faults \in Nat /\ faults' = faults + 1 /\ MaxTries \in Nat
      /\ \A j \in Creates : creates[j].tries \in Nat
  BY CreateRow, RfpAssumption DEF Archive, TypeInv, TypeOK, CreateJob
<1>4. \A j \in Creates : Live(creates[j]) => creates[j].tries < MaxTries + faults'
  BY <1>3 DEF TypeInv, RoundInv
<1> QED
  BY <1>2, <1>4 DEF TypeInv, RoundInv, Archive, Live, Creates

\* What SyncHub's end of a request, and the delivery of its answer, make of it.
LEMMA ProjectTouches ==
  ASSUME TypeInv, NEW p \in Projects, Finish(p) \/ Deliver(p)
  PROVE  /\ projects' \in Seq(Project) /\ Len(projects') = Len(projects)
         /\ \A q \in Projects :
              /\ projects'[q].round = projects[q].round
              /\ projects'[q].attempt = projects[q].attempt
              /\ \/ projects'[q].answer = projects[q].answer /\ projects'[q].at = projects[q].at
                 \/ projects'[q].at = clock
<1>0. projects \in Seq(Project) /\ projects[p] \in Project /\ clock \in Nat
  BY ProjectRow DEF TypeInv, TypeOK
<1>1. PICK x \in Project :
        /\ projects' = [projects EXCEPT ![p] = x]
        /\ x.round = projects[p].round /\ x.attempt = projects[p].attempt
        /\ \/ x.answer = projects[p].answer /\ x.at = projects[p].at
           \/ x.at = clock
  <2>1. CASE Finish(p)
    <3>1. PICK a \in {"created", "failed"} :
            projects' = [projects EXCEPT ![p] = [projects[p] EXCEPT !.answer = a, !.at = clock]]
      BY <2>1 DEF Finish
    <3> DEFINE x == [projects[p] EXCEPT !.answer = a, !.at = clock]
    <3>2. /\ x \in Project /\ x.at = clock
          /\ x.round = projects[p].round /\ x.attempt = projects[p].attempt
      BY <1>0 DEF Project
    <3> QED
      BY <3>1, <3>2
  <2>2. CASE Deliver(p)
    <3> DEFINE x == [projects[p] EXCEPT !.acked = TRUE]
    <3>1. projects' = [projects EXCEPT ![p] = x]
      BY <2>2 DEF Deliver
    <3>2. /\ x \in Project
          /\ x.round = projects[p].round /\ x.attempt = projects[p].attempt
          /\ x.answer = projects[p].answer /\ x.at = projects[p].at
      BY <1>0 DEF Project
    <3> QED
      BY <3>1, <3>2
  <2> QED
    BY <2>1, <2>2
<1>2. p \in 1 .. Len(projects)
  BY DEF Projects
<1> QED
  BY <1>0, <1>1, <1>2, SeqChange DEF Projects

\* A delivered answer is dropped, links the deal, or fails it.
Dropped == UNCHANGED <<cycle, linked, blame, slips>>

LinkedBy(p) ==
  /\ projects[p].answer = "created" /\ MayLink(p, projects[p].at)
  /\ cycle' = Linked /\ linked' = p

FailedBy(p) ==
  /\ projects[p].answer = "failed" /\ MayFail(projects[p].at)
  /\ cycle' = Failed /\ linked' = linked

SignalledBy(p) ==
  /\ blame' = Signal(projects[p].attempt, projects[p].at)
  /\ slips' = Slip(p)

LEMMA DeliverCases ==
  ASSUME NEW p, Deliver(p)
  PROVE  Dropped \/ ((LinkedBy(p) \/ FailedBy(p)) /\ SignalledBy(p))
<1> DEFINE applies == \/ projects[p].answer = "created" /\ MayLink(p, projects[p].at)
                      \/ projects[p].answer = "failed" /\ MayFail(projects[p].at)
<1>1. CASE ~ applies
  BY <1>1 DEF Deliver, Dropped
<1>2. CASE applies
  BY <1>2 DEF Deliver, LinkedBy, FailedBy, SignalledBy
<1> QED
  BY <1>1, <1>2

LEMMA FinishType ==
  ASSUME TypeInv, NEW p \in Projects, Finish(p)
  PROVE  TypeInv'
<1>1. projects' \in Seq(Project) /\ Len(projects') = Len(projects)
  BY ProjectTouches
<1>2. TypeOK'
  BY <1>1 DEF TypeInv, TypeOK, Finish
<1> QED
  BY <1>2 DEF TypeInv, RoundInv, Finish, Live, Creates

LEMMA DeliverType ==
  ASSUME TypeInv, NEW p \in Projects, Deliver(p)
  PROVE  TypeInv'
<1>1. projects' \in Seq(Project) /\ Len(projects') = Len(projects)
  BY ProjectTouches
<1>2. /\ cycle' \in Cycle /\ linked' \in 0 .. Len(projects)
      /\ blame' \in [attempt : Nat, answered : Nat]
      /\ slips' \subseteq {"otherRound", "jobLive", "adrift", "overtaken"}
      /\ cycle'.status # "none" => cycle.status # "none" /\ cycle'.round = cycle.round
  <2>0. /\ linked \in 0 .. Len(projects) /\ p \in 0 .. Len(projects)
        /\ projects[p].attempt \in Nat /\ projects[p].at \in Nat
    <3>1. projects[p] \in Project
      BY ProjectRow DEF TypeInv
    <3>2. projects[p].attempt \in Nat /\ projects[p].at \in Nat
      BY <3>1 DEF Project
    <3> QED
      BY <3>2 DEF TypeInv, TypeOK, Projects
  <2>1. CASE Dropped
    BY <2>1 DEF Dropped, TypeInv, TypeOK
  <2>2. ASSUME LinkedBy(p) \/ FailedBy(p)
        PROVE  /\ cycle' \in Cycle /\ linked' \in 0 .. Len(projects)
               /\ cycle.status # "none" /\ cycle'.round = cycle.round
    BY <2>0, <2>2, SignalEdits
       DEF LinkedBy, MayLink, FailedBy, MayFail, InFlight, TypeInv
  <2>3. ASSUME SignalledBy(p)
        PROVE  /\ blame' \in [attempt : Nat, answered : Nat]
               /\ slips' \subseteq {"otherRound", "jobLive", "adrift", "overtaken"}
    <3>1. blame' \in [attempt : Nat, answered : Nat]
      BY <2>0, <2>3 DEF SignalledBy, Signal
    <3>2. slips' \subseteq {"otherRound", "jobLive", "adrift", "overtaken"}
      BY <2>3 DEF SignalledBy, Slip, TypeInv, TypeOK
    <3> QED
      BY <3>1, <3>2
  <2> QED
    BY <2>1, <2>2, <2>3, DeliverCases
<1>3. TypeOK'
  BY <1>1, <1>2 DEF TypeInv, TypeOK, Deliver
<1> QED
  BY <1>2, <1>3 DEF TypeInv, RoundInv, Deliver, Live, Creates

LEMMA SweepType ==
  ASSUME TypeInv,
         \/ StuckSweep \/ InviteFlip
         \/ \E i \in Invites : InviteDies(i) \/ InviteGlance(i)
  PROVE  TypeInv'
<1>1. CASE StuckSweep
  <2>1. PICK j \in Creates : SweepFails(j)
    BY <1>1 DEF StuckSweep
  <2>2. /\ cycle' \in Cycle /\ cycle'.round = cycle.round /\ cycle.status # "none"
        /\ blame' \in [attempt : Nat, answered : Nat]
        /\ slips' \subseteq {"otherRound", "jobLive", "adrift", "overtaken"}
    BY <2>1, SweepFailsType DEF TypeInv
  <2>3. TypeOK'
    BY <1>1, <2>2 DEF TypeInv, TypeOK, StuckSweep
  <2> QED
    BY <1>1, <2>2, <2>3 DEF TypeInv, RoundInv, StuckSweep, Live, Creates
<1>2. ASSUME NEW i \in Invites, InviteDies(i)
      PROVE  TypeInv'
  <2> DEFINE x == [invites[i] EXCEPT !.status = "dead"]
  <2>1. x \in InviteJob
    BY InviteRow DEF TypeInv, InviteJob
  <2>2. invites' = [invites EXCEPT ![i] = x]
    BY <1>2 DEF InviteDies
  <2>3. invites' \in Seq(InviteJob) /\ Len(invites') = Len(invites)
    BY <2>1, <2>2, SeqChange DEF TypeInv, TypeOK, Invites
  <2>4. TypeOK'
    BY <1>2, <2>3 DEF TypeInv, TypeOK, InviteDies
  <2> QED
    BY <1>2, <2>4 DEF TypeInv, RoundInv, InviteDies, Live, Creates
<1>3. ASSUME NEW i \in Invites, InviteGlance(i)
      PROVE  TypeInv'
  <2> DEFINE x == [invites[i] EXCEPT !.handled = TRUE]
  <2>1. x \in InviteJob
    BY InviteRow DEF TypeInv, InviteJob
  <2>2. invites' = [invites EXCEPT ![i] = x] \/ invites' = invites
    BY <1>3 DEF InviteGlance
  <2>3. invites' \in Seq(InviteJob) /\ Len(invites') = Len(invites)
    <3>1. invites \in Seq(InviteJob) /\ i \in 1 .. Len(invites)
      BY DEF TypeInv, TypeOK, Invites
    <3> HIDE DEF x
    <3> QED
      BY <2>1, <2>2, <3>1, SeqChange
  <2>4. glance' \in 0 .. Len(invites)
    <3>1. glance' = i \/ glance' = glance
      BY <1>3 DEF InviteGlance
    <3> QED
      BY <3>1 DEF TypeInv, TypeOK, Invites
  <2>5. TypeOK'
    BY <1>3, <2>3, <2>4 DEF TypeInv, TypeOK, InviteGlance
  <2> QED
    BY <1>3, <2>5 DEF TypeInv, RoundInv, InviteGlance, Live, Creates
<1>4. CASE InviteFlip
  <2> DEFINE x == [invites[glance] EXCEPT !.handled = TRUE]
  <2>0. glance \in Invites
    BY <1>4 DEF TypeInv, TypeOK, InviteFlip, Invites
  <2>1. x \in InviteJob
    BY <2>0, InviteRow DEF TypeInv, InviteJob
  <2>2. invites' = [invites EXCEPT ![glance] = x]
    BY <1>4 DEF InviteFlip
  <2>3. invites' \in Seq(InviteJob) /\ Len(invites') = Len(invites)
    BY <2>0, <2>1, <2>2, SeqChange DEF TypeInv, TypeOK, Invites
  <2>4. /\ cycle' \in Cycle
        /\ cycle'.status # "none" => cycle.status # "none" /\ cycle'.round = cycle.round
        /\ slips' \subseteq {"otherRound", "jobLive", "adrift", "overtaken"}
    <3>1. CASE InviteOpen(glance)
      BY <1>4, <3>1, StatusSets DEF InviteFlip, InviteOpen, TypeInv, TypeOK
    <3>2. CASE ~ InviteOpen(glance)
      BY <1>4, <3>2 DEF InviteFlip, TypeInv, TypeOK
    <3> QED
      BY <3>1, <3>2
  <2>5. glance' \in 0 .. Len(invites')
    BY <1>4, <2>3 DEF InviteFlip, TypeInv, TypeOK
  <2>6. TypeOK'
    BY <1>4, <2>3, <2>4, <2>5 DEF TypeInv, TypeOK, InviteFlip
  <2> QED
    BY <1>4, <2>4, <2>6 DEF TypeInv, RoundInv, InviteFlip, Live, Creates
<1> QED
  BY <1>1, <1>2, <1>3, <1>4

\* The cases of a step.
LEMMA NextCases ==
  ASSUME [Next]_vars
  PROVE  \/ Open \/ Approve \/ Reconfirm \/ RetryCreate \/ RetryInvite
         \/ Cancel \/ MoveBack \/ Archive
         \/ \E d \in {"approve", "reject"}, r \in 1 .. opened : Cast(d, r)
         \/ \E j \in Creates : WorkerStep(j)
         \/ \E p \in Projects : Finish(p) \/ Deliver(p)
         \/ StuckSweep \/ InviteFlip
         \/ \E i \in Invites : InviteDies(i) \/ InviteGlance(i)
         \/ UNCHANGED vars
BY DEF Next, Requests, WorkerStep

LEMMA TypeStep == TypeInv /\ [Next]_vars => TypeInv'
<1> SUFFICES ASSUME TypeInv, [Next]_vars PROVE TypeInv'
  OBVIOUS
<1>1. CASE UNCHANGED vars
  BY <1>1 DEF vars, TypeInv, TypeOK, RoundInv, Live, Creates
<1> QED
  BY <1>1, NextCases, OpenType, ApproveType, ReconfirmType, RetryCreateType,
     RetryInviteType, CancelType, MoveBackType, ArchiveType, CastType, WorkerType,
     FinishType, DeliverType, SweepType

LEMMA TypeInvCorrect == Spec => []TypeInv
<1>1. Init => TypeInv
  <2> SUFFICES ASSUME Init PROVE TypeInv
    OBVIOUS
  <2>1. cycle \in Cycle /\ cycle.status = "none"
    BY NoCycleType DEF Init, NoCycle
  <2>2. votes \in [Rounds -> [approve : 0 .. Voters, reject : 0 .. Voters]]
    BY RfpAssumption DEF Init
  <2>3. /\ creates \in Seq(CreateJob) /\ invites \in Seq(InviteJob)
        /\ projects \in Seq(Project) /\ Len(creates) = 0
        /\ linked \in 0 .. Len(projects) /\ glance \in 0 .. Len(invites)
    BY DEF Init
  <2>4. opened \in 0 .. MaxRounds /\ faults \in 0 .. MaxFaults
    BY RfpAssumption DEF Init
  <2>5. TypeOK
    BY <2>1, <2>2, <2>3, <2>4, NoSignalType DEF Init, TypeOK
  <2> QED
    BY <2>1, <2>3, <2>5 DEF TypeInv, RoundInv, Creates
<1> QED
  BY <1>1, TypeStep, PTL DEF Spec

\* The rows of the vote, its jobs and its projects stay in their domains.
THEOREM TypeCorrect == Spec => []TypeOK
BY TypeInvCorrect, PTL DEF TypeInv

-----------------------------------------------------------------------------
(* Verdicts and denials are final *)

\* Only a vote in an open round adds to a round's votes.
LEMMA VotesStep ==
  ASSUME TypeInv, [Next]_vars, NEW r \in Rounds, Outcome(r) # "pending"
  PROVE  votes'[r] = votes[r]
<1>1. ASSUME NEW d \in {"approve", "reject"}, NEW q \in 1 .. opened, Cast(d, q)
      PROVE  votes'[r] = votes[r]
  <2>1. q # r
    BY <1>1 DEF Cast, OpenTo
  <2>2. votes' = [votes EXCEPT ![q] = Counted(votes[q], d)]
    BY <1>1 DEF Cast
  <2> QED
    BY <2>1, <2>2 DEF TypeInv, TypeOK
<1>2. CASE ~ \E d \in {"approve", "reject"}, q \in 1 .. opened : Cast(d, q)
  BY <1>2, NextCases, WorkerFrame
     DEF vars, Open, Approve, Reconfirm, RetryCreate, RetryInvite, Cancel, MoveBack,
         Archive, Finish, Deliver, StuckSweep, InviteDies, InviteGlance, InviteFlip
<1> QED
  BY <1>1, <1>2

\* A round that is decided stays as it was decided.
THEOREM VerdictsAreFinal == Spec => VerdictIsFinal
<1>1. TypeInv /\ [Next]_vars =>
        [\A r \in Rounds : Outcome(r) # "pending" => votes'[r] = votes[r]]_vars
  BY VotesStep
<1> QED
  BY <1>1, TypeInvCorrect, PTL DEF Spec, VerdictIsFinal

\* A linked deal is approved, and a reconfirmed denial has nothing in flight.
DenialInv ==
  /\ linked # 0 => cycle.status = "approved"
  /\ cycle.decision = "reconfirmed" =>
       cycle.status = "declined" /\ cycle.override = "none"

\* What a step may do to the deal's row and its link.
LEMMA DealSteps ==
  ASSUME TypeInv, [Next]_vars
  PROVE  \/ cycle' = cycle /\ linked' = linked
         \/ Open \/ Approve \/ Reconfirm \/ RetryCreate \/ Cancel \/ MoveBack
         \/ \E p \in Projects : LinkedBy(p)
         \/ cycle' = Failed /\ linked' = linked /\ \E at \in Nat : MayFail(at)
         \/ /\ linked' = linked
            /\ \/ cycle' = [cycle EXCEPT !.status = "pending"] /\ cycle.status = "sendFailed"
               \/ /\ cycle' = [cycle EXCEPT !.status = "declined"]
                  /\ cycle.status = "pending" /\ cycle.round \in Rounds
                  /\ Outcome(cycle.round)' = "rejected"
               \/ cycle' = [cycle EXCEPT !.status = "sendFailed"] /\ cycle.status = "pending"
<1>1. CASE RetryInvite
  BY <1>1 DEF RetryInvite, InviteFailed
<1>2. CASE Archive \/ UNCHANGED vars
  BY <1>2 DEF Archive, vars
<1>3. ASSUME NEW d \in {"approve", "reject"}, NEW r \in 1 .. opened, Cast(d, r),
             cycle' # cycle
      PROVE  /\ cycle' = [cycle EXCEPT !.status = "declined"]
             /\ cycle.status = "pending" /\ cycle.round \in Rounds
             /\ Outcome(cycle.round)' = "rejected" /\ linked' = linked
  <2>1. cycle.status = "pending" /\ cycle.round = r
    BY <1>3 DEF Cast, OpenTo
  <2>2. cycle' = [cycle EXCEPT !.status = "declined"] /\ Outcome(r)' = "rejected"
    BY <1>3 DEF Cast
  <2>3. Outcome(cycle.round)' = "rejected" \/ cycle'.round # r
    BY <2>2
  <2>4. cycle'.round = cycle.round /\ cycle.round \in Rounds
    BY <2>1, <2>2, StatusSets, DealRound DEF TypeInv
  <2> QED
    BY <1>3, <2>1, <2>2, <2>3, <2>4 DEF Cast
<1>4. ASSUME NEW d \in {"approve", "reject"}, NEW r \in 1 .. opened, Cast(d, r)
      PROVE  linked' = linked
  BY <1>4 DEF Cast
<1>5. ASSUME NEW j \in Creates, WorkerStep(j)
      PROVE  /\ linked' = linked
             /\ cycle' = cycle \/ (cycle' = Failed /\ MayFail(creates[j].at))
             /\ creates[j].at \in Nat
  BY <1>5, CreateRow, WorkerFrame DEF SweepFails, TypeInv, CreateJob
<1>6. ASSUME NEW p \in Projects, Finish(p)
      PROVE  cycle' = cycle /\ linked' = linked
  BY <1>6 DEF Finish
<1>7. ASSUME NEW p \in Projects, Deliver(p)
      PROVE  /\ \/ cycle' = cycle /\ linked' = linked
                \/ LinkedBy(p)
                \/ cycle' = Failed /\ linked' = linked /\ MayFail(projects[p].at)
             /\ projects[p].at \in Nat
  BY <1>7, DeliverCases, ProjectRow DEF Dropped, FailedBy, TypeInv, Project
<1>8. CASE StuckSweep
  <2>1. PICK j \in Creates : cycle' = Failed /\ MayFail(creates[j].at)
    BY <1>8 DEF StuckSweep, SweepFails
  <2>2. creates[j].at \in Nat
    BY CreateRow DEF TypeInv, CreateJob
  <2> QED
    BY <1>8, <2>1, <2>2 DEF StuckSweep
<1>9. CASE InviteFlip
  BY <1>9 DEF InviteFlip, InviteOpen
<1>10. ASSUME NEW i \in Invites, InviteDies(i) \/ InviteGlance(i)
       PROVE  cycle' = cycle /\ linked' = linked
  BY <1>10 DEF InviteDies, InviteGlance
<1> QED
  BY <1>1, <1>2, <1>3, <1>4, <1>5, <1>6, <1>7, <1>8, <1>9, <1>10, NextCases

LEMMA DenialStep == TypeInv /\ DenialInv /\ [Next]_vars => DenialInv'
<1> SUFFICES ASSUME TypeInv, DenialInv, [Next]_vars PROVE DenialInv'
  OBVIOUS
<1>1. CASE Open
  BY <1>1, OpenSets DEF Open, DenialInv, TypeInv
<1>2. CASE Approve
  BY <1>2, ApproveSets DEF Approve, DenialInv, TypeInv
<1>3. CASE Reconfirm
  BY <1>3, ReconfirmSets DEF Reconfirm, DenialInv, TypeInv
<1>4. CASE RetryCreate
  BY <1>4, RetryCreateSets DEF RetryCreate, DenialInv, TypeInv
<1>5. CASE Cancel \/ MoveBack
  BY <1>5, NoCycleSets DEF Cancel, MoveBack, DenialInv
<1>6. ASSUME NEW p \in Projects, LinkedBy(p)
      PROVE  DenialInv'
  BY <1>6, SignalEdits DEF LinkedBy, MayLink, DenialInv, TypeInv
<1>7. ASSUME NEW at \in Nat, cycle' = Failed, linked' = linked, MayFail(at)
      PROVE  DenialInv'
  BY <1>7, SignalEdits DEF MayFail, InFlight, DenialInv, TypeInv
<1>8. ASSUME linked' = linked, NEW s \in {"pending", "declined", "sendFailed"},
             cycle' = [cycle EXCEPT !.status = s],
             cycle.status \in {"sendFailed", "pending"}
      PROVE  DenialInv'
  BY <1>8, StatusSets DEF DenialInv, TypeInv
<1>9. CASE cycle' = cycle /\ linked' = linked
  BY <1>9 DEF DenialInv
<1> QED
  BY <1>1, <1>2, <1>3, <1>4, <1>5, <1>6, <1>7, <1>8, <1>9, DealSteps

LEMMA DenialCorrect == Spec => []DenialInv
<1>1. Init => DenialInv
  BY DEF Init, DenialInv, NoCycle
<1> QED
  BY <1>1, DenialStep, TypeInvCorrect, PTL DEF Spec

LEMMA DenialHolds ==
  ASSUME TypeInv, DenialInv, [Next]_vars, cycle.decision = "reconfirmed"
  PROVE  cycle' = cycle /\ linked' = linked
<1>1. cycle.status = "declined" /\ cycle.override = "none" /\ linked = 0
  BY DEF DenialInv
<1> QED
  BY <1>1, DealSteps DEF Open, Approve, Actionable, Reconfirm, RetryCreate, CreateFailed,
     Cancel, MoveBack, LinkedBy, MayLink, MayFail

\* Nothing that was still under way moves a deal off an upheld denial.
THEOREM DenialsStand == Spec => DenialStands
<1>1. TypeInv /\ DenialInv /\ [Next]_vars =>
        [cycle.decision = "reconfirmed" => cycle' = cycle /\ linked' = linked]_vars
  BY DenialHolds
<1> QED
  BY <1>1, TypeInvCorrect, DenialCorrect, PTL DEF Spec, DenialStands

-----------------------------------------------------------------------------
(* A deal fails or is linked on the word of its latest attempt *)

\* The steps that queue a create job, always of the deal's round and now.
Queues == Approve \/ RetryCreate \/ \E d \in {"approve", "reject"}, r \in 1 .. opened : Cast(d, r)

QueuesOne ==
  /\ Queues
  /\ cycle.status # "none" /\ cycle.round \in Rounds
  /\ clock' \in Nat
  /\ creates' = Append(creates, Job(cycle.round))

\* What a step does to the create jobs: none changes its round or its time, or
\* can ask again once it could not, and at most one is added.
LEMMA JobsKept ==
  ASSUME TypeInv, [Next]_vars
  PROVE  /\ \A k \in Creates :
              /\ k \in Creates'
              /\ creates'[k].round = creates[k].round
              /\ creates'[k].at = creates[k].at
              /\ CanAsk(creates'[k]) => CanAsk(creates[k])
         /\ \/ Creates' = Creates
            \/ /\ QueuesOne
               /\ \A k \in Creates' : k \in Creates \/ k = Len(creates) + 1
               /\ creates'[Len(creates) + 1] = Job(cycle.round)
<1>1. ASSUME creates' = creates
      PROVE  /\ Creates' = Creates
             /\ \A k \in Creates : CanAsk(creates'[k]) => CanAsk(creates[k])
  BY <1>1 DEF Creates
<1>2. CASE QueuesOne
  <2>1. /\ Len(creates') = Len(creates) + 1
        /\ creates'[Len(creates) + 1] = Job(cycle.round)
        /\ \A k \in Creates : creates'[k] = creates[k]
    BY <1>2, CreateAdded DEF QueuesOne
  <2>2. Len(creates) \in Nat
    BY DEF TypeInv, TypeOK
  <2> QED
    BY <1>2, <2>1, <2>2 DEF Creates
<1>3. ASSUME NEW d \in {"approve", "reject"}, NEW r \in 1 .. opened, Cast(d, r),
             creates' # creates
      PROVE  QueuesOne
  <2>1. creates' = Append(creates, Job(r)) /\ clock' = clock
    BY <1>3 DEF Cast
  <2>2. cycle.round = r /\ cycle.status = "pending"
    BY <1>3 DEF Cast, OpenTo
  <2>3. cycle.round \in Rounds /\ clock' \in Nat
    BY <2>1, <2>2, DealRound DEF TypeInv, TypeOK
  <2> QED
    BY <1>3, <2>1, <2>2, <2>3 DEF QueuesOne, Queues
<1>4. CASE Approve \/ RetryCreate
  <2>1. cycle.status # "none"
    BY <1>4, ApproveSets, RetryCreateSets DEF TypeInv
  <2>2. creates' = Append(creates, Job(cycle.round)) /\ clock' \in Nat
    BY <1>4 DEF Approve, RetryCreate, TypeInv, TypeOK
  <2>3. QueuesOne
    BY <1>4, <2>1, <2>2, DealRound DEF QueuesOne, Queues
  <2> QED
    BY <1>2, <2>3
<1>5. CASE MoveBack
  BY <1>5, MoveBackJobs DEF Creates
<1>6. ASSUME NEW j \in Creates, WorkerStep(j)
      PROVE  /\ Creates' = Creates
             /\ \A k \in Creates :
                  /\ creates'[k].round = creates[k].round
                  /\ creates'[k].at = creates[k].at
                  /\ CanAsk(creates'[k]) => CanAsk(creates[k])
  <2>1. PICK x \in CreateJob :
           /\ creates' = [creates EXCEPT ![j] = x]
           /\ x.round = creates[j].round
           /\ x.at = creates[j].at
           /\ CanAsk(x) => CanAsk(creates[j])
    BY <1>6, WorkerTouches
  <2>2. creates \in Seq(CreateJob) /\ j \in 1 .. Len(creates)
    BY DEF TypeInv, TypeOK, Creates
  <2>3. /\ Len(creates') = Len(creates)
        /\ \A k \in Creates : creates'[k] = IF k = j THEN x ELSE creates[k]
    BY <2>1, <2>2, SeqChange DEF Creates
  <2> QED
    BY <2>1, <2>3 DEF Creates
<1>7. CASE /\ ~ (Approve \/ RetryCreate \/ MoveBack)
           /\ ~ \E d \in {"approve", "reject"}, r \in 1 .. opened : Cast(d, r)
           /\ ~ \E j \in Creates : WorkerStep(j)
  <2>1. creates' = creates
    BY <1>7, NextCases
       DEF vars, Open, Reconfirm, RetryInvite, Cancel, Archive, Finish, Deliver,
           StuckSweep, InviteDies, InviteGlance, InviteFlip
  <2> QED
    BY <1>1, <2>1
<1> QED
  BY <1>1, <1>2, <1>3, <1>4, <1>5, <1>6, <1>7

\* What a step does to the requests SyncHub accepted: none changes its round,
\* an answer is stamped now, and a new request is of the job that posted it.
LEMMA ProjectsKept ==
  ASSUME TypeInv, [Next]_vars
  PROVE  /\ clock' \in Nat /\ clock <= clock'
         /\ \A p \in Projects' :
              \/ /\ p \in Projects
                 /\ projects'[p].round = projects[p].round
                 /\ projects'[p].at \in {projects[p].at, clock}
              \/ /\ projects'[p].at = 0
                 /\ \E j \in Creates : projects'[p].round = creates[j].round
<1>0. clock' \in Nat /\ clock <= clock'
  <2>1. clock' = clock \/ clock' = clock + 1
    BY NextCases, WorkerFrame
       DEF vars, Open, Approve, Reconfirm, RetryCreate, RetryInvite, Cancel, MoveBack,
           Archive, Cast, Finish, Deliver, StuckSweep, InviteDies, InviteGlance,
           InviteFlip
  <2> QED
    BY <2>1 DEF TypeInv, TypeOK
<1>1. ASSUME NEW q \in Projects, Finish(q) \/ Deliver(q)
      PROVE  \A p \in Projects' :
               /\ p \in Projects
               /\ projects'[p].round = projects[p].round
               /\ projects'[p].at \in {projects[p].at, clock}
  BY <1>1, ProjectTouches DEF Projects
<1>2. ASSUME NEW j \in Creates, projects' = Append(projects, Request(creates[j]))
      PROVE  \A p \in Projects' :
               \/ p \in Projects /\ projects'[p] = projects[p]
               \/ projects'[p].at = 0 /\ projects'[p].round = creates[j].round
  <2>1. creates[j] \in CreateJob /\ projects \in Seq(Project)
    BY CreateRow DEF TypeInv, TypeOK
  <2>2. Request(creates[j]) \in Project
    BY <2>1 DEF Request, Project, CreateJob
  <2>3. /\ Len(projects') = Len(projects) + 1
        /\ projects'[Len(projects) + 1] = Request(creates[j])
        /\ \A k \in 1 .. Len(projects) : projects'[k] = projects[k]
    BY <1>2, <2>1, <2>2, SeqAdd
  <2>4. Len(projects) \in Nat
    BY <2>1
  <2> QED
    BY <2>3, <2>4 DEF Projects, Request
<1>3. ASSUME projects' = projects
      PROVE  \A p \in Projects' : p \in Projects /\ projects'[p] = projects[p]
  BY <1>3 DEF Projects
<1>4. \/ projects' = projects
      \/ \E q \in Projects : Finish(q) \/ Deliver(q)
      \/ \E j \in Creates : projects' = Append(projects, Request(creates[j]))
  BY NextCases, WorkerFrame
     DEF vars, Open, Approve, Reconfirm, RetryCreate, RetryInvite, Cancel, MoveBack,
         Archive, Cast, StuckSweep, InviteDies, InviteGlance, InviteFlip
<1> QED
  BY <1>0, <1>1, <1>2, <1>3, <1>4

\* Jobs and answers are stamped in the past; unless a denial was upheld, nothing
\* was stamped after the attempt began, and one of the deal's stamps says when.
StampInv ==
  /\ \A k \in Creates : creates[k].at <= clock
  /\ \A p \in Projects : projects[p].at <= clock
  /\ cycle.decision # "reconfirmed" => clock = began
  /\ cycle.status \in {"pending", "declined", "sendFailed"} /\ cycle.decision # "reconfirmed" =>
       began \in {cycle.requestedAt, cycle.attemptAt, cycle.reviewedAt}

\* Hence a stamp that is fresh is one given since this attempt began.
LEMMA FreshIsCurrent ==
  ASSUME TypeInv, StampInv, NEW at \in Nat, at <= clock, Fresh(at),
         cycle.decision # "reconfirmed",
         cycle.status \in {"pending", "declined", "sendFailed"}
  PROVE  at = began
<1>1. clock = began /\ began \in {cycle.requestedAt, cycle.attemptAt, cycle.reviewedAt}
  BY DEF StampInv
<1>2. at >= began
  BY <1>1 DEF Fresh
<1>3. began \in Nat
  BY DEF TypeInv, TypeOK
<1> QED
  BY <1>1, <1>2, <1>3

\* What a signal does: at is the time compared, of the dead job or of the answer.
Signalled(at) ==
  /\ UNCHANGED <<began, clock>>
  /\ cycle.decision # "reconfirmed" /\ Fresh(at) /\ cycle.status # "none"
  /\ \/ cycle' = Linked
     \/ cycle' = Failed /\ cycle.status \in {"pending", "declined"}
  /\ blame'.attempt = at \/ blame'.answered = at

LEMMA SignalSteps ==
  ASSUME TypeInv, StampInv, [Next]_vars
  PROVE  \/ UNCHANGED <<cycle, began, clock>>
         \/ Open \/ Approve \/ Reconfirm \/ RetryCreate \/ Cancel \/ MoveBack
         \/ \E at \in Nat : at <= clock /\ Signalled(at)
         \/ /\ UNCHANGED <<began, clock>>
            /\ \E s \in {"pending", "declined", "sendFailed"} :
                 /\ cycle' = [cycle EXCEPT !.status = s]
                 /\ cycle.status \in {"pending", "sendFailed"}
<1>1. CASE RetryInvite
  BY <1>1 DEF RetryInvite, InviteFailed
<1>2. CASE Archive \/ UNCHANGED vars
  BY <1>2 DEF Archive, vars
<1>3. ASSUME NEW d \in {"approve", "reject"}, NEW r \in 1 .. opened, Cast(d, r)
      PROVE  /\ UNCHANGED <<began, clock>>
             /\ \/ cycle' = cycle
                \/ cycle' = [cycle EXCEPT !.status = "declined"] /\ cycle.status = "pending"
  BY <1>3 DEF Cast, OpenTo
<1>4. ASSUME NEW j \in Creates, creates[j].at \in Nat, creates[j].at <= clock,
             SweepFails(j), UNCHANGED <<began, clock>>
      PROVE  \E at \in Nat : at <= clock /\ Signalled(at)
  BY <1>4 DEF SweepFails, MayFail, InFlight, Signal, Signalled
<1>5. ASSUME NEW j \in Creates
      PROVE  creates[j].at \in Nat /\ creates[j].at <= clock
  BY CreateRow DEF TypeInv, CreateJob, StampInv
<1>6. ASSUME NEW j \in Creates, WorkerStep(j)
      PROVE  \/ UNCHANGED <<cycle, began, clock>>
             \/ \E at \in Nat : at <= clock /\ Signalled(at)
  BY <1>4, <1>5, <1>6, WorkerFrame
<1>7. CASE StuckSweep
  BY <1>4, <1>5, <1>7 DEF StuckSweep
<1>8. ASSUME NEW p \in Projects, Finish(p)
      PROVE  UNCHANGED <<cycle, began, clock>>
  BY <1>8 DEF Finish
<1>9. ASSUME NEW p \in Projects, Deliver(p)
      PROVE  \/ UNCHANGED <<cycle, began, clock>>
             \/ \E at \in Nat : at <= clock /\ Signalled(at)
  <2>1. UNCHANGED <<began, clock>>
    BY <1>9 DEF Deliver
  <2>2. projects[p].at \in Nat /\ projects[p].at <= clock
    BY ProjectRow DEF TypeInv, Project, StampInv
  <2>3. CASE Dropped
    BY <2>1, <2>3 DEF Dropped
  <2>4. CASE (LinkedBy(p) \/ FailedBy(p)) /\ SignalledBy(p)
    <3>1. Signalled(projects[p].at)
      BY <2>1, <2>4
         DEF LinkedBy, FailedBy, SignalledBy, MayLink, MayFail, InFlight, Signal, Signalled
    <3> QED
      BY <2>2, <3>1
  <2> QED
    BY <1>9, <2>3, <2>4, DeliverCases
<1>10. CASE InviteFlip
  BY <1>10 DEF InviteFlip, InviteOpen
<1>11. ASSUME NEW i \in Invites, InviteDies(i) \/ InviteGlance(i)
       PROVE  UNCHANGED <<cycle, began, clock>>
  BY <1>11 DEF InviteDies, InviteGlance
<1> QED
  BY <1>1, <1>2, <1>3, <1>6, <1>7, <1>8, <1>9, <1>10, <1>11, NextCases

LEMMA StampStep == TypeInv /\ DenialInv /\ StampInv /\ [Next]_vars => StampInv'
<1> SUFFICES ASSUME TypeInv, DenialInv, StampInv, [Next]_vars PROVE StampInv'
  OBVIOUS
<1> DEFINE Stamped ==
      /\ cycle.decision # "reconfirmed" => clock = began
      /\ cycle.status \in {"pending", "declined", "sendFailed"}
           /\ cycle.decision # "reconfirmed" =>
         began \in {cycle.requestedAt, cycle.attemptAt, cycle.reviewedAt}
<1>0. Stamped
  BY DEF StampInv
<1>1. \A k \in Creates' : creates'[k].at <= clock'
  <2>1. \A k \in Creates : creates[k].at \in Nat /\ creates[k].at <= clock
    BY CreateRow DEF TypeInv, CreateJob, StampInv
  <2>2. clock' \in Nat /\ clock <= clock' /\ clock \in Nat
    BY ProjectsKept DEF TypeInv, TypeOK
  <2>3. Job(cycle.round).at = clock'
    BY DEF Job
  <2> QED
    BY <2>1, <2>2, <2>3, JobsKept
<1>2. \A p \in Projects' : projects'[p].at <= clock'
  <2>1. \A p \in Projects : projects[p].at \in Nat /\ projects[p].at <= clock
    BY ProjectRow DEF TypeInv, Project, StampInv
  <2>2. clock \in Nat
    BY DEF TypeInv, TypeOK
  <2> QED
    BY <2>1, <2>2, ProjectsKept
<1>3. Stamped'
  <2>1. CASE UNCHANGED <<cycle, began, clock>>
    BY <1>0, <2>1
  <2>2. CASE Open
    BY <2>2, OpenSets DEF Open, TypeInv
  <2>3. CASE Approve
    BY <2>3, ApproveSets DEF Approve, TypeInv
  <2>4. CASE Reconfirm
    BY <2>4, ReconfirmSets DEF TypeInv
  <2>5. CASE RetryCreate
    BY <2>5, RetryCreateSets DEF RetryCreate, TypeInv
  <2>6. CASE Cancel \/ MoveBack
    <3>1. cycle.decision # "reconfirmed" /\ UNCHANGED <<began, clock>>
      BY <2>6 DEF Cancel, MoveBack, DenialInv
    <3> QED
      BY <1>0, <2>6, <3>1, NoCycleSets
  <2>7. ASSUME NEW at \in Nat, at <= clock, Signalled(at)
        PROVE  Stamped'
    <3>1. UNCHANGED <<began, clock>> /\ cycle.decision # "reconfirmed"
      BY <2>7 DEF Signalled
    <3>2. CASE cycle' = Linked
      BY <1>0, <3>1, <3>2, SignalEdits DEF TypeInv
    <3>3. CASE cycle' = Failed /\ cycle.status \in {"pending", "declined"}
      BY <1>0, <3>1, <3>3, SignalEdits DEF TypeInv, SameStamps
    <3> QED
      BY <2>7, <3>2, <3>3 DEF Signalled
  <2>8. ASSUME UNCHANGED <<began, clock>>, NEW s \in {"pending", "declined", "sendFailed"},
               cycle' = [cycle EXCEPT !.status = s], cycle.status \in {"pending", "sendFailed"}
        PROVE  Stamped'
    BY <1>0, <2>8, StatusSets DEF TypeInv, SameStamps
  <2> QED
    BY <1>0, <2>1, <2>2, <2>3, <2>4, <2>5, <2>6, <2>7, <2>8, SignalSteps
<1> QED
  BY <1>1, <1>2, <1>3 DEF StampInv

LEMMA StampCorrect == Spec => []StampInv
<1>1. Init => StampInv
  BY DEF Init, StampInv, NoCycle, Creates, Projects
<1> QED
  BY <1>1, StampStep, TypeInvCorrect, DenialCorrect, PTL DEF Spec

FailsOrLinks ==
  \/ cycle'.override = "failed" /\ cycle.override # "failed"
  \/ cycle'.status = "approved" /\ cycle.status # "approved"

LEMMA SignalHolds ==
  ASSUME TypeInv, StampInv, [Next]_vars, FailsOrLinks
  PROVE  blame'.attempt = began \/ blame'.answered >= began
<1>1. PICK at \in Nat : at <= clock /\ Signalled(at)
  <2>1. CASE Open \/ Approve \/ Reconfirm \/ RetryCreate \/ Cancel \/ MoveBack
    BY <2>1, OpenSets, ApproveSets, ReconfirmSets, RetryCreateSets, NoCycleSets
       DEF FailsOrLinks, TypeInv
  <2>2. ASSUME NEW s \in {"pending", "declined", "sendFailed"},
               cycle' = [cycle EXCEPT !.status = s]
        PROVE  FALSE
    BY <2>2, StatusSets DEF FailsOrLinks, TypeInv
  <2> QED
    BY <2>1, <2>2, SignalSteps DEF FailsOrLinks
<1>2. cycle.status \in {"pending", "declined", "sendFailed"}
  <2>1. cycle.status # "approved"
    BY <1>1, SignalEdits DEF Signalled, FailsOrLinks, TypeInv
  <2> QED
    BY <1>1, <2>1 DEF Signalled, TypeInv, TypeOK, Cycle
<1>3. at = began
  BY <1>1, <1>2, FreshIsCurrent DEF Signalled
<1> QED
  BY <1>1, <1>3 DEF Signalled

\* A deal fails or is linked only for a dead job of its latest attempt, or on an
\* answer that is about that attempt or was given after it had begun.
THEOREM SignalsAreCurrent == Spec => SignalIsCurrent
<1>1. TypeInv /\ StampInv /\ [Next]_vars =>
        [\/ cycle'.override = "failed" /\ cycle.override # "failed"
         \/ cycle'.status = "approved" /\ cycle.status # "approved"
         => blame'.attempt = began \/ blame'.answered >= began]_vars
  BY SignalHolds DEF FailsOrLinks
<1> QED
  BY <1>1, TypeInvCorrect, StampCorrect, PTL DEF Spec, SignalIsCurrent

-----------------------------------------------------------------------------
(* A project is asked for only where it was earned *)

\* A sweep that fails the deal on a dead job.
SweptBy(j) ==
  /\ creates[j].status = "dead" /\ MayFail(creates[j].at)
  /\ cycle' = Failed
  /\ CanAsk(creates[j]) => "adrift" \in slips'

\* The ways a step changes the deal's row.
LEMMA CycleSteps ==
  ASSUME TypeInv, [Next]_vars
  PROVE  \/ cycle' = cycle
         \/ Open \/ Approve \/ Reconfirm \/ RetryCreate \/ Cancel \/ MoveBack
         \/ \E p \in Projects : Deliver(p) /\ (LinkedBy(p) \/ FailedBy(p)) /\ SignalledBy(p)
         \/ \E j \in Creates : SweptBy(j)
         \/ RetryInvite
         \/ \E d \in {"approve", "reject"}, r \in 1 .. opened :
              /\ Cast(d, r) /\ cycle' = [cycle EXCEPT !.status = "declined"]
              /\ Outcome(r)' = "rejected"
         \/ InviteFlip /\ cycle.status = "pending" /\ cycle' = [cycle EXCEPT !.status = "sendFailed"]
<1>1. CASE Archive \/ UNCHANGED vars
  BY <1>1 DEF Archive, vars
<1>2. ASSUME NEW d \in {"approve", "reject"}, NEW r \in 1 .. opened, Cast(d, r)
      PROVE  \/ cycle' = cycle
             \/ /\ cycle' = [cycle EXCEPT !.status = "declined"]
                /\ Outcome(r)' = "rejected"
  BY <1>2 DEF Cast
<1>3. ASSUME NEW j \in Creates, WorkerStep(j)
      PROVE  cycle' = cycle \/ SweptBy(j)
  BY <1>3, WorkerFrame DEF SweepFails, SweptBy
<1>4. ASSUME NEW p \in Projects, Finish(p)
      PROVE  cycle' = cycle
  BY <1>4 DEF Finish
<1>5. ASSUME NEW p \in Projects, Deliver(p)
      PROVE  cycle' = cycle \/ ((LinkedBy(p) \/ FailedBy(p)) /\ SignalledBy(p))
  BY <1>5, DeliverCases DEF Dropped
<1>6. CASE StuckSweep
  BY <1>6 DEF StuckSweep, SweepFails, SweptBy
<1>7. CASE InviteFlip
  BY <1>7 DEF InviteFlip, InviteOpen
<1>8. ASSUME NEW i \in Invites, InviteDies(i) \/ InviteGlance(i)
      PROVE  cycle' = cycle
  BY <1>8 DEF InviteDies, InviteGlance
<1> QED
  BY <1>1, <1>2, <1>3, <1>4, <1>5, <1>6, <1>7, <1>8, NextCases

\* What was decided, overruled or counted against the code stays so.
LEMMA EarnedKept ==
  ASSUME TypeInv, [Next]_vars
  PROVE  /\ overruled \subseteq overruled' /\ slips \subseteq slips'
         /\ ~ Approve => overruled' = overruled
         /\ \A r \in Rounds : Outcome(r) # "pending" => Outcome(r)' = Outcome(r)
         /\ \A r \in Rounds : Earned(r) => Earned(r)'
<1>1. /\ overruled \subseteq overruled'
      /\ ~ Approve => overruled' = overruled
  BY NextCases, WorkerFrame
     DEF vars, Open, Approve, Reconfirm, RetryCreate, RetryInvite, Cancel, MoveBack,
         Archive, Cast, Finish, Deliver, StuckSweep, InviteDies, InviteGlance,
         InviteFlip
<1>2. slips \subseteq slips'
  BY NextCases, WorkerFrame
     DEF vars, Open, Approve, Reconfirm, RetryCreate, RetryInvite, Cancel, MoveBack,
         Archive, Cast, Finish, Deliver, Slip, StuckSweep, SweepFails, InviteDies, InviteGlance,
         InviteFlip
<1>3. ASSUME NEW r \in Rounds, Outcome(r) # "pending"
      PROVE  Outcome(r)' = Outcome(r)
  <2>1. votes'[r] = votes[r]
    BY <1>3, VotesStep
  <2> QED
    BY <2>1 DEF Outcome
<1>4. ASSUME NEW r \in Rounds, Earned(r)
      PROVE  Earned(r)'
  BY <1>1, <1>3, <1>4 DEF Earned
<1> QED
  BY <1>1, <1>2, <1>3, <1>4

\* How rounds, verdicts, overrulings and jobs hang together.
RoundFacts ==
  /\ \A k \in Creates : creates[k].round <= opened
  /\ \A k \in Creates :
       creates[k].at = clock /\ cycle.status # "none" => creates[k].round = cycle.round
  /\ \A r \in overruled : Outcome(r) = "rejected"
  /\ cycle.status = "declined" => Outcome(cycle.round) = "rejected"
  /\ cycle.status = "declined" /\ cycle.override = "none" /\ cycle.decision # "reconfirmed" =>
       cycle.round \notin overruled

LEMMA OpenedGrows ==
  ASSUME TypeInv, [Next]_vars
  PROVE  /\ (opened' = opened + 1 /\ Open) \/ opened' = opened
         /\ opened \in Nat
<1>1. (opened' = opened + 1 /\ Open) \/ opened' = opened
  BY NextCases, WorkerFrame
     DEF vars, Open, Approve, Reconfirm, RetryCreate, RetryInvite, Cancel, MoveBack,
         Archive, Cast, Finish, Deliver, StuckSweep, InviteDies, InviteGlance,
         InviteFlip
<1> QED
  BY <1>1, RfpAssumption DEF TypeInv, TypeOK

\* The stamp of a step that opens, overrules, retries or upholds is a new one.
LEMMA ClockTicks ==
  ASSUME TypeInv, Open \/ Approve \/ Reconfirm \/ RetryCreate
  PROVE  clock' = clock + 1 /\ clock \in Nat
BY DEF Open, Approve, Reconfirm, RetryCreate, TypeInv, TypeOK

LEMMA JobRoundStep ==
  ASSUME TypeInv, StampInv, RoundFacts, [Next]_vars, NEW k \in Creates'
  PROVE  /\ creates'[k].round <= opened'
         /\ creates'[k].at = clock' /\ cycle'.status # "none" =>
              creates'[k].round = cycle'.round
<1>1. CASE k \in Creates
  <2>1. creates'[k].round = creates[k].round /\ creates'[k].at = creates[k].at
    BY <1>1, JobsKept
  <2>2. creates[k].round <= opened' /\ creates[k].at <= clock /\ creates[k].at \in Nat
    BY <1>1, OpenedGrows, CreateRow, RfpAssumption
       DEF RoundFacts, StampInv, TypeInv, CreateJob, Rounds
  <2>3. CASE Open \/ Approve \/ Reconfirm \/ RetryCreate
    BY <2>1, <2>2, <2>3, ClockTicks
  <2>4. CASE ~ (Open \/ Approve \/ Reconfirm \/ RetryCreate)
    <3>1. clock' = clock
      BY <2>4, NextCases, WorkerFrame
         DEF vars, RetryInvite, Cancel, MoveBack, Archive, Cast, Finish, Deliver,
             StuckSweep, InviteDies, InviteGlance, InviteFlip
    <3>2. cycle'.status # "none" => cycle.status # "none" /\ cycle'.round = cycle.round
      BY <2>4, CycleSteps, NoCycleSets, SignalEdits, StatusSets
         DEF TypeInv, LinkedBy, MayLink, FailedBy, MayFail, InFlight, SweptBy,
             RetryInvite, InviteFailed, Cast, OpenTo
    <3> QED
      BY <1>1, <2>1, <2>2, <3>1, <3>2 DEF RoundFacts
  <2> QED
    BY <2>3, <2>4
<1>2. CASE k \notin Creates
  <2>1. /\ QueuesOne /\ creates'[k] = Job(cycle.round)
    BY <1>2, JobsKept
  <2>2. creates'[k].round = cycle.round
    BY <2>1 DEF Job
  <2>3. cycle.round <= opened /\ opened' = opened
    <3>1. cycle.round \in 1 .. opened
      BY <2>1 DEF QueuesOne, TypeInv, RoundInv
    <3>2. opened' = opened
      BY <2>1 DEF QueuesOne, Queues, Approve, RetryCreate, Cast
    <3> QED
      BY <3>1, <3>2, OpenedGrows
  <2>4. cycle'.round = cycle.round
    <3>1. CASE Approve \/ RetryCreate
      BY <3>1, ApproveSets, RetryCreateSets DEF TypeInv
    <3>2. CASE \E d \in {"approve", "reject"}, r \in 1 .. opened : Cast(d, r)
      BY <3>2, StatusSets DEF Cast, TypeInv
    <3> QED
      BY <2>1, <3>1, <3>2 DEF QueuesOne, Queues
  <2> QED
    BY <2>2, <2>3, <2>4
<1> QED
  BY <1>1, <1>2

\* A failed or linked deal keeps its round.
LEMMA DealKeepsRound ==
  ASSUME TypeInv, [Next]_vars, ~ Open, ~ Cancel, ~ MoveBack
  PROVE  cycle'.round = cycle.round
BY CycleSteps, ApproveSets, ReconfirmSets, RetryCreateSets, SignalEdits, StatusSets
   DEF TypeInv, LinkedBy, FailedBy, SweptBy, RetryInvite

LEMMA RoundFactsStep == TypeInv /\ DenialInv /\ StampInv /\ RoundFacts /\ [Next]_vars => RoundFacts'
<1> SUFFICES ASSUME TypeInv, DenialInv, StampInv, RoundFacts, [Next]_vars PROVE RoundFacts'
  OBVIOUS
<1> DEFINE Denied == /\ cycle.status = "declined"
                     /\ cycle.override = "none" /\ cycle.decision # "reconfirmed"
<1>0. /\ \A r \in overruled : Outcome(r) = "rejected" /\ r \in Rounds
      /\ cycle.status = "declined" =>
           Outcome(cycle.round) = "rejected" /\ cycle.round \in Rounds
      /\ Denied => cycle.round \notin overruled
  BY DealRound DEF RoundFacts, TypeInv, TypeOK
<1>1. \A r \in overruled' : Outcome(r)' = "rejected"
  <2>1. \A r \in overruled : Outcome(r)' = "rejected"
    BY <1>0, EarnedKept
  <2>2. ASSUME Approve PROVE Outcome(cycle.round)' = "rejected" /\ overruled' = overruled \cup {cycle.round}
    <3>1. cycle.status = "declined" /\ cycle'.round = cycle.round
      BY <2>2, ApproveSets DEF TypeInv
    <3>2. votes' = votes
      BY <2>2 DEF Approve
    <3> QED
      BY <1>0, <2>2, <3>1, <3>2 DEF Approve, Outcome
  <2>3. \A r \in overruled' : r \in overruled \/ (Approve /\ r = cycle.round)
    BY <2>2, EarnedKept
  <2>4. ASSUME Approve PROVE Outcome(cycle.round)' = "rejected" /\ cycle'.round = cycle.round
    BY <2>2, <2>4, ApproveSets DEF TypeInv
  <2> QED
    BY <2>1, <2>3, <2>4
<1>2. /\ cycle'.status = "declined" => Outcome(cycle.round)' = "rejected"
      /\ Denied' => cycle'.round \notin overruled'
  <2>1. CASE cycle' = cycle
    <3>1. ~ Approve
      <4>1. ASSUME Approve PROVE FALSE
        <5>1. cycle.decision # "reconfirmed" /\ cycle.override # "approving"
          BY <4>1 DEF Approve, Actionable
        <5>2. cycle'.override = "approving"
          BY <4>1, ApproveSets DEF TypeInv
        <5> QED
          BY <2>1, <5>1, <5>2
      <4> QED
        BY <4>1
    <3>2. overruled' = overruled
      BY <3>1, EarnedKept
    <3>3. cycle'.status = "declined" => Outcome(cycle.round)' = Outcome(cycle.round)
      BY <1>0, <2>1, EarnedKept
    <3> QED
      BY <1>0, <2>1, <3>2, <3>3
  <2>2. CASE Approve
    <3>1. cycle.status = "declined" /\ cycle'.round = cycle.round /\ cycle'.override = "approving"
      BY <2>2, ApproveSets DEF TypeInv
    <3> QED
      BY <1>0, <3>1, EarnedKept
  <2>3. CASE Reconfirm
    <3>1. /\ cycle.status = "declined" /\ cycle'.round = cycle.round
          /\ cycle'.decision = "reconfirmed"
      BY <2>3, ReconfirmSets DEF TypeInv
    <3> QED
      BY <1>0, <3>1, EarnedKept
  <2>4. CASE Open \/ RetryCreate \/ Cancel \/ MoveBack
    BY <2>4, OpenSets, RetryCreateSets, NoCycleSets DEF TypeInv
  <2>5. ASSUME NEW p \in Projects, LinkedBy(p) PROVE cycle'.status # "declined"
    BY <2>5, SignalEdits DEF LinkedBy, TypeInv
  <2>6. ASSUME cycle' = Failed
        PROVE  /\ cycle'.override = "failed" /\ cycle'.round = cycle.round
               /\ cycle'.status = "declined" => cycle.status = "declined"
    BY <2>6, SignalEdits DEF TypeInv
  <2>7. CASE cycle' = Failed
    BY <1>0, <2>6, <2>7, EarnedKept
  <2>8. CASE RetryInvite \/ cycle' = [cycle EXCEPT !.status = "sendFailed"]
    BY <2>8, StatusSets DEF RetryInvite, TypeInv
  <2>9. ASSUME NEW d \in {"approve", "reject"}, NEW r \in 1 .. opened, Cast(d, r),
               cycle' = [cycle EXCEPT !.status = "declined"], Outcome(r)' = "rejected"
        PROVE  /\ Outcome(cycle.round)' = "rejected"
               /\ cycle'.round \notin overruled'
    <3>1. cycle.round = r /\ Outcome(r) = "pending" /\ overruled' = overruled
      BY <2>9 DEF Cast, OpenTo
    <3>2. cycle'.round = cycle.round
      BY <2>9, StatusSets DEF TypeInv
    <3> QED
      BY <1>0, <2>9, <3>1, <3>2
  <2> QED
    BY <2>1, <2>2, <2>3, <2>4, <2>5, <2>7, <2>8, <2>9, CycleSteps DEF FailedBy, SweptBy
<1>3. \A k \in Creates' :
        /\ creates'[k].round <= opened'
        /\ creates'[k].at = clock' /\ cycle'.status # "none" =>
             creates'[k].round = cycle'.round
  BY JobRoundStep
<1> QED
  BY <1>1, <1>2, <1>3 DEF RoundFacts, Outcome


\* What must have been earned: the round of a job, of a project, and of a deal
\* that is linked, failed or being approved.
Claimed(r) ==
  \/ \E j \in Creates : creates[j].round = r
  \/ \E p \in Projects : projects[p].round = r
  \/ /\ cycle.round = r /\ cycle.status # "none"
     /\ cycle.status = "approved" \/ cycle.override \in {"failed", "approving"}

\* As long as no answer was taken for another round's, what is claimed is
\* earned, and no two jobs have the same time.
EarnInv ==
  "otherRound" \notin slips =>
    /\ \A r \in Rounds : Claimed(r) => Earned(r)
    /\ \A j, k \in Creates : creates[j].at = creates[k].at => j = k

\* The dead job a sweep fails the deal on is the deal's round's, and now.
LEMMA SweptIsCurrent ==
  ASSUME TypeInv, StampInv, RoundFacts, NEW j \in Creates, SweptBy(j)
  PROVE  creates[j].round = cycle.round /\ creates[j].at = clock
<1>1. creates[j].at \in Nat /\ creates[j].at <= clock
  BY CreateRow DEF TypeInv, CreateJob, StampInv
<1>2. /\ cycle.status \in {"pending", "declined"} /\ cycle.decision # "reconfirmed"
      /\ Fresh(creates[j].at)
  BY DEF SweptBy, MayFail, InFlight
<1>3. creates[j].at = began /\ clock = began
  BY <1>1, <1>2, FreshIsCurrent DEF StampInv
<1> QED
  BY <1>2, <1>3 DEF RoundFacts

\* A round nobody approved or overruled has no job.
LEMMA NothingAsked ==
  ASSUME EarnInv, "otherRound" \notin slips,
         NEW r \in Rounds, Outcome(r) # "approved", r \notin overruled
  PROVE  \A k \in Creates : creates[k].round # r
BY DEF EarnInv, Earned, Claimed

\* The round a job is queued for is earned, and no other job is of its time.
LEMMA QueuedIsEarned ==
  ASSUME TypeInv, StampInv, RoundFacts, EarnInv, [Next]_vars, QueuesOne,
         "otherRound" \notin slips, NEW r \in Rounds, r = cycle.round
  PROVE  /\ Earned(r)'
         /\ \A k \in Creates : creates[k].at # clock'
<1>1. \A k \in Creates : creates[k].at \in Nat /\ creates[k].at <= clock
  BY CreateRow DEF TypeInv, CreateJob, StampInv
<1>2. CASE Approve
  <2>1. r \in overruled'
    BY <1>2 DEF Approve
  <2> QED
    BY <1>1, <1>2, <2>1, ClockTicks DEF Earned
<1>3. CASE RetryCreate
  <2>1. Claimed(r)
    BY <1>3 DEF RetryCreate, CreateFailed, Claimed
  <2>2. Earned(r)'
    BY <2>1, EarnedKept DEF EarnInv
  <2> QED
    BY <1>1, <1>3, <2>2, ClockTicks
<1>4. ASSUME NEW d \in {"approve", "reject"}, NEW q \in 1 .. opened, Cast(d, q)
      PROVE  /\ Earned(r)'
             /\ \A k \in Creates : creates[k].at # clock'
  <2>1. q = r /\ Outcome(r) = "pending" /\ cycle.status = "pending" /\ clock' = clock
    BY <1>4 DEF Cast, OpenTo
  <2>2. Len(creates') # Len(creates)
    BY CreateAdded DEF QueuesOne, TypeInv, TypeOK
  <2>3. Outcome(r)' = "approved"
    BY <1>4, <2>1, <2>2 DEF Cast
  <2>4. r \notin overruled
    BY <2>1 DEF RoundFacts
  <2>5. \A k \in Creates : creates[k].round # r
    BY <2>1, <2>4, NothingAsked
  <2> QED
    BY <2>1, <2>3, <2>5 DEF Earned, RoundFacts
<1> QED
  BY <1>2, <1>3, <1>4 DEF QueuesOne, Queues

\* No step makes a claim that is not earned.
LEMMA ClaimStep ==
  ASSUME TypeInv, DenialInv, StampInv, RoundFacts, EarnInv, [Next]_vars,
         "otherRound" \notin slips', NEW r \in Rounds, Claimed(r)'
  PROVE  Earned(r)'
<1>0. "otherRound" \notin slips
  BY EarnedKept
<1>1. Claimed(r) => Earned(r)'
  BY <1>0, EarnedKept DEF EarnInv
<1>2. ASSUME NEW j \in Creates', creates'[j].round = r
      PROVE  Earned(r)'
  <2>1. CASE j \in Creates
    BY <1>1, <1>2, <2>1, JobsKept DEF Claimed
  <2>2. CASE j \notin Creates
    <3>1. QueuesOne /\ creates'[j] = Job(cycle.round)
      BY <2>2, JobsKept
    <3>2. r = cycle.round
      BY <1>2, <3>1 DEF Job
    <3> QED
      BY <1>0, <3>1, <3>2, QueuedIsEarned
  <2> QED
    BY <2>1, <2>2
<1>3. ASSUME NEW p \in Projects', projects'[p].round = r
      PROVE  Earned(r)'
  <2>1. Claimed(r)
    BY <1>3, ProjectsKept DEF Claimed
  <2> QED
    BY <1>1, <2>1
<1> DEFINE Due == cycle.status = "approved" \/ cycle.override \in {"failed", "approving"}
<1>4. ASSUME cycle'.round = r, cycle'.status # "none", Due'
      PROVE  Earned(r)'
  <2>1. CASE Due /\ cycle.status # "none" /\ cycle.round = r
    BY <1>1, <2>1 DEF Claimed
  <2>2. CASE Approve
    BY <1>4, <2>2, ApproveSets DEF Approve, Earned, TypeInv
  <2>3. ASSUME NEW p \in Projects, LinkedBy(p) \/ FailedBy(p), SignalledBy(p)
        PROVE  Earned(r)'
    <3>1. projects[p].round = cycle.round
      BY <2>3 DEF SignalledBy, Slip
    <3>2. cycle'.round = cycle.round
      BY <2>3, SignalEdits DEF LinkedBy, FailedBy, TypeInv
    <3> QED
      BY <1>1, <1>4, <3>1, <3>2 DEF Claimed
  <2>4. ASSUME NEW j \in Creates, SweptBy(j)
        PROVE  Earned(r)'
    <3>1. creates[j].round = cycle.round
      BY <2>4, SweptIsCurrent
    <3>2. cycle'.round = cycle.round
      BY <2>4, SignalEdits DEF SweptBy, TypeInv
    <3> QED
      BY <1>1, <1>4, <3>1, <3>2 DEF Claimed
  <2>5. CASE Open \/ Reconfirm \/ RetryCreate \/ Cancel \/ MoveBack
    BY <1>4, <2>5, OpenSets, ReconfirmSets, RetryCreateSets, NoCycleSets DEF TypeInv
  <2>6. ASSUME NEW s \in {"pending", "declined", "sendFailed"},
               cycle' = [cycle EXCEPT !.status = s], cycle.status \in {"pending", "sendFailed"}
        PROVE  Earned(r)'
    BY <1>4, <2>1, <2>6, StatusSets DEF TypeInv
  <2>7. CASE cycle' = cycle
    BY <1>4, <2>1, <2>7
  <2> QED
    BY <2>2, <2>3, <2>4, <2>5, <2>6, <2>7, CycleSteps
       DEF RetryInvite, InviteFailed, Cast, OpenTo
<1> QED
  BY <1>2, <1>3, <1>4 DEF Claimed

LEMMA EarnStep ==
  TypeInv /\ DenialInv /\ StampInv /\ RoundFacts /\ EarnInv /\ [Next]_vars => EarnInv'
<1> SUFFICES ASSUME TypeInv, DenialInv, StampInv, RoundFacts, EarnInv, [Next]_vars,
                    "otherRound" \notin slips'
             PROVE  /\ \A r \in Rounds : Claimed(r)' => Earned(r)'
                    /\ \A j, k \in Creates' : creates'[j].at = creates'[k].at => j = k
  BY DEF EarnInv
<1>0. "otherRound" \notin slips
  BY EarnedKept
<1>1. \A r \in Rounds : Claimed(r)' => Earned(r)'
  BY ClaimStep
<1>2. ASSUME NEW j \in Creates', NEW k \in Creates', creates'[j].at = creates'[k].at
      PROVE  j = k
  <2>1. \A i \in Creates' : i \in Creates => creates'[i].at = creates[i].at
    BY JobsKept
  <2>2. CASE j \in Creates /\ k \in Creates
    BY <1>0, <1>2, <2>1, <2>2 DEF EarnInv
  <2>3. CASE j \notin Creates \/ k \notin Creates
    <3>1. /\ QueuesOne
          /\ \A i \in Creates' : i \in Creates \/ (i = Len(creates) + 1 /\ creates'[i].at = clock')
      BY <2>3, JobsKept DEF Job
    <3>2. \A i \in Creates : creates[i].at # clock'
      <4>1. cycle.round \in Rounds
        BY <3>1 DEF QueuesOne
      <4> QED
        BY <1>0, <3>1, <4>1, QueuedIsEarned
    <3> HIDE DEF Creates
    <3> QED
      BY <1>2, <2>1, <2>3, <3>1, <3>2
  <2> QED
    BY <2>2, <2>3
<1> QED
  BY <1>1, <1>2


LEMMA EarnCorrect == Spec => [](RoundFacts /\ EarnInv)
<1>1. Init => RoundFacts /\ EarnInv
  BY DEF Init, RoundFacts, EarnInv, Claimed, NoCycle, Creates, Projects
<1>2. TypeInv /\ DenialInv /\ StampInv /\ RoundFacts /\ EarnInv /\ [Next]_vars =>
        (RoundFacts /\ EarnInv)'
  BY RoundFactsStep, EarnStep
<1> QED
  BY <1>1, <1>2, TypeInvCorrect, DenialCorrect, StampCorrect, PTL DEF Spec

\* A project is asked for only in a round two voters approved or a reviewer
\* overruled, as long as no callback of an earlier round was taken for another's.
THEOREM OnlyEarnedCreates == Spec => []CreatesAreEarned
<1>1. TypeInv /\ EarnInv => CreatesAreEarned
  <2> SUFFICES ASSUME TypeInv, EarnInv, "otherRound" \notin slips
               PROVE  /\ \A j \in Creates : Earned(creates[j].round)
                      /\ \A p \in Projects : Earned(projects[p].round)
                      /\ cycle.status = "approved" => Earned(cycle.round)
    BY DEF CreatesAreEarned
  <2>1. \A r \in Rounds : Claimed(r) => Earned(r)
    BY DEF EarnInv
  <2>2. ASSUME NEW j \in Creates PROVE Earned(creates[j].round)
    BY <2>1, CreateRow DEF Claimed, TypeInv, CreateJob
  <2>3. ASSUME NEW p \in Projects PROVE Earned(projects[p].round)
    BY <2>1, ProjectRow DEF Claimed, TypeInv, Project
  <2>4. ASSUME cycle.status = "approved" PROVE Earned(cycle.round)
    BY <2>1, <2>4, DealRound DEF Claimed
  <2> QED
    BY <2>2, <2>3, <2>4
<1> QED
  BY <1>1, TypeInvCorrect, EarnCorrect, PTL

-----------------------------------------------------------------------------
(* No two jobs ask for a project of the deal's round *)

Quiet == slips \intersect {"otherRound", "jobLive", "adrift"} = {}

\* A project of the deal's round may still be asked for in the name of the job.
Mine(j) == CanAsk(creates[j]) /\ creates[j].round = cycle.round

\* There is one at most, none once the attempt failed, and it is of this attempt.
LiveInv ==
  Quiet =>
    /\ \A j, k \in Creates : Mine(j) /\ Mine(k) => j = k
    /\ cycle.override = "failed" => \A k \in Creates : ~ Mine(k)
    /\ cycle.decision # "reconfirmed" => \A k \in Creates : Mine(k) => creates[k].at = clock

\* Nothing asks for the round a job is queued for.
LEMMA QueuedIsAlone ==
  ASSUME TypeInv, RoundFacts, EarnInv, LiveInv, [Next]_vars, QueuesOne, Quiet
  PROVE  /\ \A k \in Creates : ~ Mine(k)
         /\ cycle'.round = cycle.round
         /\ cycle'.override # "failed"
<1>0. "otherRound" \notin slips
  BY DEF Quiet
<1>1. CASE Approve
  <2>1. cycle'.round = cycle.round /\ cycle'.override # "failed"
    BY <1>1, ApproveSets DEF TypeInv
  <2>2. CASE cycle.override = "failed"
    BY <2>1, <2>2 DEF LiveInv
  <2>3. CASE cycle.override = "none"
    <3>1. /\ cycle.round \in Rounds /\ cycle.round \notin overruled
          /\ Outcome(cycle.round) = "rejected"
      BY <1>1, <2>3 DEF Approve, Actionable, RoundFacts, QueuesOne
    <3>2. \A k \in Creates : creates[k].round # cycle.round
      BY <1>0, <3>1, NothingAsked
    <3> QED
      BY <2>1, <3>2 DEF Mine
  <2> QED
    BY <1>1, <2>2, <2>3 DEF Approve, Actionable
<1>2. CASE RetryCreate
  BY <1>2, RetryCreateSets DEF RetryCreate, CreateFailed, LiveInv, TypeInv
<1>3. ASSUME NEW d \in {"approve", "reject"}, NEW r \in 1 .. opened, Cast(d, r)
      PROVE  /\ \A k \in Creates : ~ Mine(k)
             /\ cycle'.round = cycle.round
             /\ cycle'.override # "failed"
  <2>1. cycle.round = r /\ Outcome(r) = "pending" /\ cycle.status = "pending" /\ r \in Rounds
    BY <1>3 DEF Cast, OpenTo, QueuesOne
  <2>2. r \notin overruled
    BY <2>1 DEF RoundFacts
  <2>3. \A k \in Creates : creates[k].round # r
    BY <1>0, <2>1, <2>2, NothingAsked
  <2>4. cycle.override # "failed"
    BY <1>0, <2>1, <2>2 DEF EarnInv, Claimed, Earned
  <2>5. cycle'.round = cycle.round /\ cycle'.override = cycle.override
    BY <1>3, StatusSets DEF Cast, TypeInv
  <2> QED
    BY <2>1, <2>3, <2>4, <2>5 DEF Mine
<1> QED
  BY <1>1, <1>2, <1>3 DEF QueuesOne, Queues

\* Where no job is queued, none becomes the deal's, and a deal fails with none.
LEMMA NoneBecomesMine ==
  ASSUME TypeInv, RoundFacts, [Next]_vars, Creates' = Creates,
         NEW k \in Creates, Mine(k)'
  PROVE  Mine(k) /\ cycle'.round = cycle.round
<1>1. creates'[k].round = creates[k].round /\ (CanAsk(creates'[k]) => CanAsk(creates[k]))
  BY JobsKept
<1>2. creates[k].round \in Nat /\ creates[k].round >= 1 /\ creates[k].round <= opened
  BY CreateRow, RfpAssumption DEF RoundFacts, TypeInv, CreateJob, Rounds
<1>3. CASE Open
  BY <1>1, <1>2, <1>3, OpenSets, OpenedGrows DEF Mine, TypeInv
<1>4. CASE Cancel \/ MoveBack
  BY <1>1, <1>2, <1>4, NoCycleSets DEF Mine
<1>5. CASE ~ (Open \/ Cancel \/ MoveBack)
  BY <1>1, <1>5, DealKeepsRound DEF Mine
<1> QED
  BY <1>3, <1>4, <1>5

LEMMA FailsAlone ==
  ASSUME TypeInv, DenialInv, StampInv, RoundFacts, EarnInv, LiveInv, [Next]_vars,
         Quiet, Quiet', Creates' = Creates, cycle'.override = "failed",
         NEW k \in Creates, Mine(k)
  PROVE  FALSE
<1>1. CASE cycle.override = "failed"
  BY <1>1 DEF LiveInv
<1>2. ASSUME NEW p \in Projects, FailedBy(p), SignalledBy(p) PROVE FALSE
  <2>1. "jobLive" \in slips'
    BY <1>2 DEF FailedBy, SignalledBy, Slip, Mine
  <2> QED
    BY <2>1 DEF Quiet
<1>3. ASSUME NEW j \in Creates, SweptBy(j) PROVE FALSE
  <2>1. creates[j].at = clock
    BY <1>3, SweptIsCurrent
  <2>2. creates[k].at = clock
    BY <1>3 DEF SweptBy, MayFail, LiveInv
  <2>3. j = k
    BY <2>1, <2>2 DEF EarnInv, Quiet
  <2>4. "adrift" \in slips'
    BY <1>3, <2>3 DEF SweptBy, Mine
  <2> QED
    BY <2>4 DEF Quiet
<1>4. CASE cycle'.override = cycle.override
  BY <1>1, <1>4
<1>5. CASE Open \/ Approve \/ Reconfirm \/ RetryCreate \/ Cancel \/ MoveBack
  BY <1>5, OpenSets, ApproveSets, ReconfirmSets, RetryCreateSets, NoCycleSets DEF TypeInv
<1>6. ASSUME NEW p \in Projects, LinkedBy(p) PROVE FALSE
  BY <1>6, SignalEdits DEF LinkedBy, TypeInv
<1>7. ASSUME NEW s \in {"pending", "declined", "sendFailed"}, cycle' = [cycle EXCEPT !.status = s]
      PROVE  FALSE
  BY <1>4, <1>7, StatusSets DEF TypeInv
<1> QED
  BY <1>2, <1>3, <1>4, <1>5, <1>6, <1>7, CycleSteps DEF RetryInvite

\* Where no job is queued, the time stands still under the jobs of the deal.
LEMMA MineStaysCurrent ==
  ASSUME TypeInv, DenialInv, LiveInv, [Next]_vars, Quiet, Creates' = Creates,
         NEW k \in Creates, Mine(k), ~ Open, cycle'.decision # "reconfirmed"
  PROVE  creates'[k].at = clock'
<1>1. cycle.decision # "reconfirmed"
  BY DenialHolds
<1>2. creates'[k].at = clock
  BY <1>1, JobsKept DEF LiveInv
<1>3. ~ Reconfirm
  BY ReconfirmSets DEF TypeInv
<1>4. ~ Approve /\ ~ RetryCreate
  <2>1. ASSUME Approve \/ RetryCreate PROVE FALSE
    <3>1. /\ cycle.status # "none" /\ clock' \in Nat
          /\ creates' = Append(creates, Job(cycle.round))
      <4>1. cycle.status # "none"
        BY <2>1, ApproveSets, RetryCreateSets DEF TypeInv
      <4>2. creates' = Append(creates, Job(cycle.round)) /\ clock' \in Nat
        BY <2>1, ClockTicks DEF Approve, RetryCreate
      <4> QED
        BY <4>1, <4>2
    <3>2. Len(creates') = Len(creates) + 1
      BY <3>1, CreateAdded, DealRound
    <3>3. Len(creates) \in Nat /\ Len(creates) + 1 \notin 1 .. Len(creates)
      BY DEF TypeInv, TypeOK
    <3> QED
      BY <3>2, <3>3 DEF Creates
  <2> QED
    BY <2>1
<1>5. clock' = clock
  BY <1>3, <1>4, NextCases, WorkerFrame
     DEF vars, RetryInvite, Cancel, MoveBack, Archive, Cast, Finish, Deliver,
         StuckSweep, InviteDies, InviteGlance, InviteFlip
<1> QED
  BY <1>2, <1>5

LEMMA LiveStep ==
  TypeInv /\ DenialInv /\ StampInv /\ RoundFacts /\ EarnInv /\ LiveInv /\ [Next]_vars => LiveInv'
<1> SUFFICES ASSUME TypeInv, DenialInv, StampInv, RoundFacts, EarnInv, LiveInv,
                    [Next]_vars, Quiet'
             PROVE  /\ \A j, k \in Creates' : Mine(j)' /\ Mine(k)' => j = k
                    /\ cycle'.override = "failed" => \A k \in Creates' : ~ Mine(k)'
                    /\ cycle'.decision # "reconfirmed" =>
                         \A k \in Creates' : Mine(k)' => creates'[k].at = clock'
  BY DEF LiveInv
<1>0. Quiet
  BY EarnedKept DEF Quiet
<1>1. CASE Creates' = Creates
  <2>1. \A k \in Creates : Mine(k)' => Mine(k)
    BY <1>1, NoneBecomesMine
  <2>2. \A j, k \in Creates : Mine(j)' /\ Mine(k)' => j = k
    BY <1>0, <2>1 DEF LiveInv
  <2>3. cycle'.override = "failed" => \A k \in Creates : ~ Mine(k)'
    BY <1>0, <1>1, <2>1, FailsAlone
  <2>4. ASSUME cycle'.decision # "reconfirmed", NEW k \in Creates, Mine(k)'
        PROVE  creates'[k].at = clock'
    <3>1. Mine(k) /\ cycle'.round = cycle.round
      BY <1>1, <2>4, NoneBecomesMine
    <3>2. ~ Open
      <4>1. creates[k].round <= opened /\ creates[k].round \in Nat
        BY CreateRow DEF RoundFacts, TypeInv, CreateJob, Rounds
      <4>2. opened \in Nat
        BY OpenedGrows
      <4> QED
        BY <3>1, <4>1, <4>2, OpenSets DEF Mine, TypeInv
    <3> QED
      BY <1>0, <1>1, <2>4, <3>1, <3>2, MineStaysCurrent
  <2> QED
    BY <1>1, <2>2, <2>3, <2>4
<1>2. CASE Creates' # Creates
  <2>1. /\ QueuesOne
        /\ \A k \in Creates' : k \in Creates \/ k = Len(creates) + 1
        /\ creates'[Len(creates) + 1].at = clock'
    BY <1>2, JobsKept DEF Job
  <2>2. \A k \in Creates : ~ Mine(k)'
    <3>1. \A k \in Creates :
            creates'[k].round = creates[k].round /\ (CanAsk(creates'[k]) => CanAsk(creates[k]))
      BY JobsKept
    <3> QED
      BY <1>0, <2>1, <3>1, QueuedIsAlone DEF Mine
  <2>3. \A k \in Creates' : Mine(k)' => k = Len(creates) + 1
    BY <2>1, <2>2
  <2>4. cycle'.override # "failed"
    BY <1>0, <2>1, QueuedIsAlone
  <2> QED
    BY <2>1, <2>3, <2>4
<1> QED
  BY <1>1, <1>2

\* Two jobs that can still ask for a project of the deal's round never exist at
\* once, the runs without a lease included, as long as no failure is surfaced
\* while its job or such a run is still to ask, and none to a wrong round.
THEOREM OneCreateIsLive == Spec => []OneLiveCreate
<1>1. Init => LiveInv
  BY DEF Init, LiveInv, NoCycle, Creates
<1>2. Spec => []LiveInv
  BY <1>1, LiveStep, TypeInvCorrect, DenialCorrect, StampCorrect, EarnCorrect, PTL
     DEF Spec
<1>3. LiveInv => OneLiveCreate
  <2> DEFINE S == {j \in Creates : CanAsk(creates[j]) /\ creates[j].round = cycle.round}
  <2> SUFFICES ASSUME LiveInv, Quiet PROVE Cardinality(S) <= 1
    BY DEF OneLiveCreate, Quiet
  <2>1. \A j, k \in S : j = k
    BY DEF LiveInv, Mine
  <2>2. CASE S = {}
    BY <2>2, FS_EmptySet
  <2>3. ASSUME NEW x \in S PROVE Cardinality(S) <= 1
    <3>1. S = {x}
      BY <2>1
    <3> HIDE DEF S
    <3> QED
      BY <3>1, FS_Singleton
  <2> QED
    BY <2>2, <2>3
<1> QED
  BY <1>2, <1>3, PTL
=============================================================================
