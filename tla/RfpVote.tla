------------------------------ MODULE RfpVote ------------------------------
(***************************************************************************)
(* The vote on one deal's RFP and the Bid Board project it earns           *)
(* (server/src/modules/deals/rfp-vote-service.ts, rfp-override-service.ts, *)
(* routes.ts, internal-rfp/routes.ts; worker/src/jobs/                     *)
(* rfp-bidboard-create.ts and rfp-vote-invitation.ts).                     *)
(*                                                                         *)
(* Three voters decide a round, two of three.  An approval, or a reviewer  *)
(* who overrides a denial, queues a job that asks SyncHub for the project; *)
(* SyncHub answers later with a callback that names the deal and a time,   *)
(* and neither the round nor the attempt.  Three time stamps on the deal   *)
(* tell a current answer from an old one, and two sweeps turn a dead job   *)
(* into a failure somebody can see.                                        *)
(*                                                                         *)
(* Left out: service deals and everything else that carries a SyncHub      *)
(* request id, permissions, e-mail texts, stages, change orders.  The      *)
(* queue is the at-least-once one of module JobQueue, reduced to claims,   *)
(* tries and leases that lapse under a run that goes on.  Each request is  *)
(* one transaction whose UPDATE re-checks what it read; the one statement  *)
(* that does not is split in two, see InviteGlance.                        *)
(***************************************************************************)
EXTENDS Naturals, Sequences, FiniteSets

CONSTANTS
  Voters,      \* how many voters are invited (3)
  MaxRounds,   \* bound on the rounds ever opened
  MaxCreates,  \* bound on the rfp_bidboard_create jobs ever queued
  MaxInvites,  \* bound on the rfp_vote_invitation jobs ever queued
  MaxTries,    \* max_attempts of a create job (8)
  MaxFaults    \* bound on answers lost, re-checks that could not be read,
               \* leases that lapse and deals archived under the vote

ASSUME RfpAssumption ==
  /\ {Voters, MaxRounds, MaxCreates, MaxInvites, MaxTries} \subseteq Nat \ {0}
  /\ MaxFaults \in Nat

VARIABLES
  active,    \* deals.is_active
  linked,    \* the project deals.procore_bid_id names, 0 when not Bid Board owned
  cycle,     \* the rfp_* columns of the deal
  opened,    \* how many rounds were ever opened
  votes,     \* the table rfp_votes: per round, how many voters gave which vote
  creates,   \* the rfp_bidboard_create jobs
  invites,   \* the rfp_vote_invitation jobs
  glance,    \* the dead invitation whose statement took its snapshot, 0 for none
  projects,  \* the create requests SyncHub accepted, with their callbacks
  clock,     \* the time, advanced by whatever stamps the deal
  faults,    \* how much of MaxFaults is used
  began,     \* history: when the current attempt at a project began
  blame,     \* history: the last signal that linked or failed the deal
             \* since then
  overruled, \* history: the rounds whose denial a reviewer overrode
  slips      \* history: which of the windows the code leaves open were hit

vars == <<active, linked, cycle, opened, votes, creates, invites, glance,
          projects, clock, faults, began, blame, overruled, slips>>

-----------------------------------------------------------------------------
(* Data *)

Rounds == 1 .. MaxRounds
Creates == 1 .. Len(creates)
Invites == 1 .. Len(invites)
Projects == 1 .. Len(projects)

\* The columns buildRfpCycleReset and cancelPendingRfp set to NULL; 0 is NULL.
NoCycle ==
  [status |-> "none", round |-> 0, override |-> "none", decision |-> "none",
   requestedAt |-> 0, attemptAt |-> 0, reviewedAt |-> 0]

\* stalled and loose count the runs whose lease has lapsed and that still go
\* on: before their re-check, and past it.
Job(r) == [round |-> r, at |-> clock', status |-> "queued", tries |-> 0,
           handled |-> FALSE, stalled |-> 0, loose |-> 0]

Invitation(r) == [round |-> r, status |-> "queued", handled |-> FALSE]

\* attempt is history: SyncHub is not told when the job was queued.
Request(job) == [round |-> job.round, attempt |-> job.at,
                 answer |-> "running", at |-> 0, acked |-> FALSE]

\* A signal: the attempt it is about, and when SyncHub answered, 0 for a dead job.
Signal(attempt, answered) == [attempt |-> attempt, answered |-> answered]

NoSignal == Signal(0, 0)

\* Mistake: the dead letter is never reached.
AfterTryForever(job) ==
  [job EXCEPT !.tries = @ + 1, !.status = "queued"]

\* A failed job waits for its next try or is dead.
AfterTry(job) ==
  [job EXCEPT !.tries = @ + 1,
              !.status = IF job.tries + 1 < MaxTries THEN "queued" ELSE "dead"]

Live(job) == job.status \in {"queued", "cleared"}

\* A project may still be asked for in the name of the job: it is alive, or a
\* run of it is that has lost its lease.
CanAsk(job) == Live(job) \/ job.stalled > 0 \/ job.loose > 0

-----------------------------------------------------------------------------
(* The tally: two of the voters decide *)

Threshold == 2

Outcome(r) ==
  IF votes[r].approve >= Threshold THEN "approved"
  ELSE IF votes[r].reject >= Threshold THEN "rejected" ELSE "pending"

\* A voter has one vote in a round (unique deal, round and voter), so some voter
\* is left to vote as long as there are fewer votes than voters.
VoterLeft(r) == votes[r].approve + votes[r].reject < Voters

Counted(tally, decision) == [tally EXCEPT ![decision] = @ + 1]

-----------------------------------------------------------------------------
(* The guards the statements share *)

\* Mistake: a new round leaves the attempt stamps NULL, and only they are read.
FreshInAttempt(at) == at >= cycle.attemptAt /\ at >= cycle.reviewedAt

\* Mistake: the job and the stamp of one transaction no longer compare equal.
FreshStrictly(at) ==
  /\ at > cycle.requestedAt
  /\ at > cycle.attemptAt
  /\ at > cycle.reviewedAt

\* The signal is no older than any stamp of the current attempt.
Fresh(at) ==
  /\ at >= cycle.requestedAt
  /\ at >= cycle.attemptAt
  /\ at >= cycle.reviewedAt

InFlight ==
  \/ cycle.status = "pending"
  \/ cycle.status = "declined" /\ cycle.override = "approving"

\* The WHERE of the failed callback and of both sweeps.
MayFail(at) ==
  InFlight /\ cycle.decision # "reconfirmed" /\ Fresh(at)

\* Mistake: the created callback does not look at the reviewer's decision.
MayLinkDenied(p, at) ==
  /\ cycle.status # "none"
  /\ Fresh(at)
  /\ linked # p \/ cycle.status # "approved" \/ cycle.override # "none"

\* The WHERE of the created callback for project p.
MayLink(p, at) ==
  /\ cycle.status # "none"
  /\ cycle.decision # "reconfirmed"
  /\ Fresh(at)
  /\ linked # p \/ cycle.status # "approved" \/ cycle.override # "none"

Failed ==
  [cycle EXCEPT !.override = "failed",
                !.status = IF @ = "pending" THEN "sendFailed" ELSE @]

Linked ==
  [cycle EXCEPT !.status = "approved", !.override = "none", !.attemptAt = 0]

\* What a worker re-reads under the deal's delivery lock before it posts.
Creatable(job) == active /\ InFlight /\ cycle.round = job.round

-----------------------------------------------------------------------------
(* Requests *)

\* openRfpVoteRound: reserve the deal with fresh stamps and invite the voters.
Open ==
  /\ active /\ cycle.status = "none" /\ linked = 0
  /\ opened < MaxRounds /\ Len(invites) < MaxInvites
  /\ opened' = opened + 1
  /\ clock' = clock + 1
  /\ began' = clock'
  /\ blame' = NoSignal
  /\ cycle' = [NoCycle EXCEPT !.status = "pending", !.round = opened', !.requestedAt = clock']
  /\ invites' = Append(invites, Invitation(opened'))
  /\ UNCHANGED <<active, linked, votes, creates, glance, projects, faults,
                 overruled, slips>>

\* The round the route read is still the deal's, open and undecided.
OpenTo(r) ==
  /\ active
  /\ cycle.round = r /\ Outcome(r) = "pending" /\ cycle.status = "pending"
  /\ VoterLeft(r)

\* castRfpVote, under the deal's row lock; r is the round the route read earlier.
\* The vote that crosses the threshold queues the create or declines the deal.
Cast(decision, r) ==
  /\ OpenTo(r)
  /\ Len(creates) < MaxCreates
  /\ votes' = [votes EXCEPT ![r] = Counted(@, decision)]
  /\ clock' = clock
  /\ creates' = IF Outcome(r) = "pending" /\ Outcome(r)' = "approved"
                THEN Append(creates, Job(r)) ELSE creates
  /\ cycle' = IF Outcome(r) = "pending" /\ Outcome(r)' = "rejected"
              THEN [cycle EXCEPT !.status = "declined"] ELSE cycle
  /\ UNCHANGED <<active, linked, opened, invites, glance, projects, faults,
                 began, blame, overruled, slips>>

\* Mistake: the state of an earlier approval is not looked at.
ActionableAlways(overrides) ==
  cycle.status = "declined" /\ cycle.decision # "reconfirmed"

\* overrideActionableConditions
Actionable(overrides) ==
  /\ cycle.status = "declined"
  /\ cycle.override \in overrides
  /\ cycle.decision # "reconfirmed"

\* requestOverrideApproval
Approve ==
  /\ active /\ Actionable({"none", "failed"})
  /\ Len(creates) < MaxCreates
  /\ clock' = clock + 1
  /\ began' = clock'
  /\ blame' = NoSignal
  /\ cycle' = [cycle EXCEPT !.override = "approving", !.decision = "approved",
                            !.reviewedAt = clock']
  /\ creates' = Append(creates, Job(cycle.round))
  /\ overruled' = overruled \union {cycle.round}
  /\ UNCHANGED <<active, linked, opened, votes, invites, glance, projects,
                 faults, slips>>

\* reconfirmRfpDecline: the denial stands, and the deal is archived unless an
\* approval was in flight.
Reconfirm ==
  /\ Actionable({"none", "failed", "approving"})
  /\ clock' = clock + 1
  /\ cycle' = [cycle EXCEPT !.override = "none", !.decision = "reconfirmed",
                            !.reviewedAt = clock']
  /\ active' = (active /\ cycle.override = "approving")
  /\ UNCHANGED <<linked, opened, votes, creates, invites, glance, projects,
                 faults, began, blame, overruled, slips>>

\* Mistake: a failed invitation is taken for a failed create.
CreateFailedMaybe == cycle.status = "sendFailed"

\* Which of its branches /rfp-retry takes for a deal in send_failed.
CreateFailed == cycle.status = "sendFailed" /\ cycle.override = "failed"

InviteFailed ==
  /\ cycle.status = "sendFailed" /\ cycle.override = "none"
  /\ \E i \in Invites : invites[i].status = "dead" /\ invites[i].round = cycle.round

\* The branch of /rfp-retry that queues the create again.
RetryCreate ==
  /\ active /\ CreateFailed
  /\ Len(creates) < MaxCreates
  /\ clock' = clock + 1
  /\ began' = clock'
  /\ blame' = NoSignal
  /\ cycle' = [cycle EXCEPT !.status = "pending", !.override = "none", !.attemptAt = clock']
  /\ creates' = Append(creates, Job(cycle.round))
  /\ UNCHANGED <<active, linked, opened, votes, invites, glance, projects,
                 faults, overruled, slips>>

\* The branch of /rfp-retry that invites the voters of the round again.
RetryInvite ==
  /\ active /\ InviteFailed
  /\ Len(invites) < MaxInvites
  /\ cycle' = [cycle EXCEPT !.status = "pending"]
  /\ invites' = Append(invites, Invitation(cycle.round))
  /\ UNCHANGED <<active, linked, opened, votes, creates, glance, projects,
                 clock, faults, began, blame, overruled, slips>>

\* cancelPendingRfp: back to a plain Opportunity; queued jobs are left alone.
Cancel ==
  /\ active /\ linked = 0
  /\ cycle.status \in {"declined", "sendFailed"}
  /\ cycle.decision # "reconfirmed" /\ cycle.override # "approving"
  /\ cycle' = NoCycle
  /\ UNCHANGED <<active, linked, opened, votes, creates, invites, glance,
                 projects, clock, faults, began, blame, overruled, slips>>

\* cancelQueuedRfpJobs: what waits is completed, what is dead is marked handled.
Withdrawn(job) ==
  CASE job.status = "queued" -> [job EXCEPT !.status = "done", !.handled = TRUE]
    [] job.status = "dead" -> [job EXCEPT !.handled = TRUE]
    [] OTHER -> job

\* returnDealToOpportunity, for a deal the Bid Board owns.
MoveBack ==
  /\ active /\ linked # 0
  /\ linked' = 0
  /\ cycle' = NoCycle
  /\ creates' = [j \in Creates |-> Withdrawn(creates[j])]
  /\ invites' = [i \in Invites |-> Withdrawn(invites[i])]
  /\ UNCHANGED <<active, opened, votes, glance, projects, clock, faults,
                 began, blame, overruled, slips>>

\* deleteDeal: the RFP columns stay as they are.
Archive ==
  /\ active
  /\ faults < MaxFaults
  /\ faults' = faults + 1
  /\ active' = FALSE
  /\ UNCHANGED <<linked, cycle, opened, votes, creates, invites, glance,
                 projects, clock, began, blame, overruled, slips>>

Requests ==
  \/ Open \/ Approve \/ Reconfirm \/ RetryCreate \/ RetryInvite
  \/ Cancel \/ MoveBack \/ Archive
  \/ \E d \in {"approve", "reject"}, r \in 1 .. opened : Cast(d, r)

-----------------------------------------------------------------------------
(* The create job: authorise under the lock, then post outside it *)

JobFrame == UNCHANGED <<active, linked, cycle, opened, votes, invites, glance,
                        clock, began, blame, overruled, slips>>

\* A job whose round is over ends without posting.
Authorise(j) ==
  /\ creates[j].status = "queued"
  /\ creates' = [creates EXCEPT ![j].status =
                   IF Creatable(creates[j]) THEN "cleared" ELSE "done"]
  /\ UNCHANGED <<projects, faults>>
  /\ JobFrame

\* The re-check could not be read: the job posts although it would have ended.
AuthoriseBlind(j) ==
  /\ creates[j].status = "queued" /\ ~Creatable(creates[j])
  /\ faults < MaxFaults
  /\ faults' = faults + 1
  /\ creates' = [creates EXCEPT ![j].status = "cleared"]
  /\ UNCHANGED projects
  /\ JobFrame

\* SyncHub accepts, and the worker hears of it.
PostAccepted(j) ==
  /\ creates[j].status = "cleared"
  /\ creates' = [creates EXCEPT ![j].status = "done"]
  /\ projects' = Append(projects, Request(creates[j]))
  /\ UNCHANGED faults
  /\ JobFrame

\* SyncHub accepts, and the answer is lost.
PostLost(j) ==
  /\ creates[j].status = "cleared"
  /\ faults < MaxFaults
  /\ faults' = faults + 1
  /\ creates' = [creates EXCEPT ![j] = AfterTry(@)]
  /\ projects' = Append(projects, Request(creates[j]))
  /\ JobFrame

\* SyncHub refuses, or cannot be reached.
PostRefused(j) ==
  /\ creates[j].status = "cleared"
  /\ creates' = [creates EXCEPT ![j] = AfterTry(@)]
  /\ UNCHANGED <<projects, faults>>
  /\ JobFrame

Post(j) == PostAccepted(j) \/ PostLost(j) \/ PostRefused(j)

\* A job queued again, and the run that may still be at it.
Lapsed(job, lives) ==
  [job EXCEPT !.status = "queued", !.tries = @ + 1,
              !.stalled = IF lives /\ job.status = "queued" THEN @ + 1 ELSE @,
              !.loose = IF lives /\ job.status = "cleared" THEN @ + 1 ELSE @]

\* The worker dies, or stops renewing while the handler waits (the request to
\* SyncHub has no timeout): recoverStaleJobs queues the job again whatever its
\* tries, in the second case beside a run that goes on.  A run that posted and
\* could not write so down is one that went on and posts next.
Lapse(j, lives) ==
  /\ Live(creates[j])
  /\ faults < MaxFaults
  /\ faults' = faults + 1
  /\ creates' = [creates EXCEPT ![j] = Lapsed(@, lives)]
  /\ UNCHANGED projects
  /\ JobFrame

Rechecked(job, goesOn) ==
  [job EXCEPT !.stalled = @ - 1, !.loose = IF goesOn THEN @ + 1 ELSE @]

\* A run without a lease comes to its re-check, which may be unreadable too.
StrayAuthorise(j, readable) ==
  /\ creates[j].stalled > 0
  /\ IF readable THEN UNCHANGED faults
     ELSE faults < MaxFaults /\ faults' = faults + 1
  /\ creates' = [creates EXCEPT ![j] = Rechecked(@, Creatable(creates[j]) \/ ~readable)]
  /\ UNCHANGED projects
  /\ JobFrame

\* It posts, or fails to.  What it writes about the job names a claim that is
\* over and finds no row.
StrayPost(j, accepted) ==
  /\ creates[j].loose > 0
  /\ creates' = [creates EXCEPT ![j].loose = @ - 1]
  /\ projects' = IF accepted THEN Append(projects, Request(creates[j])) ELSE projects
  /\ UNCHANGED faults
  /\ JobFrame

Stray(j) ==
  \/ \E lives \in BOOLEAN : Lapse(j, lives)
  \/ \E readable \in BOOLEAN : StrayAuthorise(j, readable)
  \/ \E accepted \in BOOLEAN : StrayPost(j, accepted)

-----------------------------------------------------------------------------
(* SyncHub's callback *)

\* SyncHub is through with a request and stamps its answer.
Finish(p) ==
  /\ projects[p].answer = "running"
  /\ \E answer \in {"created", "failed"} :
       projects' = [projects EXCEPT ![p] = [@ EXCEPT !.answer = answer, !.at = clock]]
  /\ UNCHANGED <<active, linked, cycle, opened, votes, creates, invites, glance,
                 clock, faults, began, blame, overruled, slips>>

\* The history of a callback that took effect.
Slip(p) ==
  slips \union
    (IF projects[p].round # cycle.round THEN {"otherRound"} ELSE {}) \union
    (IF /\ projects[p].answer = "failed"
        /\ \E j \in Creates : CanAsk(creates[j]) /\ creates[j].round = cycle.round
     THEN {"jobLive"} ELSE {})

\* POST /bid-board-created, at least once; an archived deal is a 404, retried.
Deliver(p) ==
  LET at == projects[p].at
      applies == \/ projects[p].answer = "created" /\ MayLink(p, at)
                 \/ projects[p].answer = "failed" /\ MayFail(at) IN
  /\ active /\ projects[p].answer # "running"
  /\ projects' = [projects EXCEPT ![p] = [@ EXCEPT !.acked = TRUE]]
  /\ IF applies
     THEN /\ cycle' = IF projects[p].answer = "created" THEN Linked ELSE Failed
          /\ linked' = IF projects[p].answer = "created" THEN p ELSE linked
          /\ blame' = Signal(projects[p].attempt, at)
          /\ slips' = Slip(p)
     ELSE UNCHANGED <<cycle, linked, blame, slips>>
  /\ UNCHANGED <<active, opened, votes, creates, invites, glance, clock, faults,
                 began, overruled>>

-----------------------------------------------------------------------------
(* The sweeps *)

\* The dead job j fails the deal, though a run of it may still be under way.
SweepFails(j) ==
  /\ MayFail(creates[j].at)
  /\ cycle' = Failed
  /\ blame' = Signal(creates[j].at, 0)
  /\ slips' = IF CanAsk(creates[j]) THEN slips \union {"adrift"} ELSE slips

\* runRfpBidBoardCreateDeadLetterSweep, one job; it is handled whether or not
\* the deal was.
JobSweep(j) ==
  /\ creates[j].status = "dead" /\ ~creates[j].handled
  /\ creates' = [creates EXCEPT ![j].handled = TRUE]
  /\ \/ SweepFails(j)
     \/ ~ MayFail(creates[j].at) /\ UNCHANGED <<cycle, blame, slips>>
  /\ UNCHANGED <<active, linked, opened, votes, invites, glance, projects,
                 clock, faults, began, overruled>>

\* runRfpBidBoardCreateStuckDealSweep: keyed on the deal, once no job of the
\* attempt is alive.  A job that completed stops counting after 30 minutes.
StuckSweep ==
  /\ active /\ linked = 0
  /\ ~ \E j \in Creates : Live(creates[j]) /\ Fresh(creates[j].at)
  /\ \E j \in Creates : creates[j].status = "dead" /\ SweepFails(j)
  /\ UNCHANGED <<active, linked, opened, votes, creates, invites, glance,
                 projects, clock, faults, began, overruled>>

\* handleRfpVoteInvitation gives up.  An invitation that is delivered changes
\* nothing here and is not told from one that waits.
InviteDies(i) ==
  /\ invites[i].status = "queued"
  /\ invites' = [invites EXCEPT ![i].status = "dead"]
  /\ UNCHANGED <<active, linked, cycle, opened, votes, creates, glance, projects,
                 clock, faults, began, blame, overruled, slips>>

InviteOpen(i) == cycle.status = "pending" /\ cycle.round = invites[i].round

\* runRfpVoteInvitationDeadLetterSweep, one job.  Its UPDATE counts the votes in
\* the snapshot it began with and then waits for the deal's row lock; a vote
\* holds that lock without changing the row, so nothing is counted again.
InviteGlance(i) ==
  /\ invites[i].status = "dead" /\ ~invites[i].handled /\ glance = 0
  /\ IF InviteOpen(i) /\ Outcome(cycle.round) = "pending"
     THEN glance' = i /\ UNCHANGED invites
     ELSE invites' = [invites EXCEPT ![i].handled = TRUE] /\ UNCHANGED glance
  /\ UNCHANGED <<active, linked, cycle, opened, votes, creates, projects, clock,
                 faults, began, blame, overruled, slips>>

InviteFlip ==
  /\ glance # 0
  /\ IF InviteOpen(glance)
     THEN /\ cycle' = [cycle EXCEPT !.status = "sendFailed"]
          /\ slips' = IF Outcome(cycle.round) = "pending" THEN slips
                      ELSE slips \union {"overtaken"}
     ELSE UNCHANGED <<cycle, slips>>
  /\ invites' = [invites EXCEPT ![glance].handled = TRUE]
  /\ glance' = 0
  /\ UNCHANGED <<active, linked, opened, votes, creates, projects, clock,
                 faults, began, blame, overruled>>

-----------------------------------------------------------------------------
(* Specification *)

Init ==
  /\ active = TRUE /\ linked = 0 /\ cycle = NoCycle /\ opened = 0
  /\ votes = [r \in Rounds |-> [approve |-> 0, reject |-> 0]]
  /\ creates = <<>> /\ invites = <<>> /\ glance = 0 /\ projects = <<>>
  /\ clock = 0 /\ faults = 0
  /\ began = 0 /\ blame = NoSignal /\ overruled = {} /\ slips = {}

Next ==
  \/ Requests
  \/ \E j \in Creates :
       Authorise(j) \/ AuthoriseBlind(j) \/ Post(j) \/ Stray(j) \/ JobSweep(j)
  \/ \E p \in Projects : Finish(p) \/ Deliver(p)
  \/ \E i \in Invites : InviteDies(i) \/ InviteGlance(i)
  \/ StuckSweep \/ InviteFlip

Spec == Init /\ [][Next]_vars

\* The worker's poller and its sweeps of creates run on timers; SyncHub ends what
\* it accepts and repeats a callback until it is answered.  Nothing else is owed:
\* not by people, the sweep of invitations or the runs that lost their lease.
Fairness ==
  /\ WF_vars(\E j \in Creates : Authorise(j) \/ Post(j))
  /\ WF_vars(StuckSweep \/ \E j \in Creates : JobSweep(j))
  /\ WF_vars(\E p \in Projects : Finish(p) \/ (~projects[p].acked /\ Deliver(p)))

FairSpec == Spec /\ Fairness

-----------------------------------------------------------------------------
(* Properties *)

Cycle ==
  [status : {"none", "pending", "declined", "sendFailed", "approved"},
   round : 0 .. MaxRounds,
   override : {"none", "approving", "failed"},
   decision : {"none", "approved", "reconfirmed"},
   requestedAt : Nat, attemptAt : Nat, reviewedAt : Nat]

CreateJob ==
  [round : Rounds, at : Nat, status : {"queued", "cleared", "done", "dead"},
   tries : 0 .. MaxTries + MaxFaults, handled : BOOLEAN, stalled : Nat, loose : Nat]

InviteJob ==
  [round : Rounds, status : {"queued", "dead", "done"}, handled : BOOLEAN]

Project ==
  [round : Rounds, attempt : Nat, answer : {"running", "created", "failed"},
   at : Nat, acked : BOOLEAN]

\* The type invariant: every row stays in the domains of its columns, and no
\* job is tried more often than allowed, but for the tries that lapsed.
TypeOK ==
  /\ active \in BOOLEAN
  /\ linked \in 0 .. Len(projects)
  /\ cycle \in Cycle
  /\ opened \in 0 .. MaxRounds
  /\ votes \in [Rounds -> [approve : 0 .. Voters, reject : 0 .. Voters]]
  /\ creates \in Seq(CreateJob)
  /\ invites \in Seq(InviteJob)
  /\ glance \in 0 .. Len(invites)
  /\ projects \in Seq(Project)
  /\ clock \in Nat /\ faults \in 0 .. MaxFaults
  /\ began \in Nat /\ blame \in [attempt : Nat, answered : Nat]
  /\ overruled \subseteq Rounds
  /\ slips \subseteq {"otherRound", "jobLive", "adrift", "overtaken"}

\* A round that is decided stays as it was decided: no vote is added to it by a
\* page that was opened earlier, by the same round asked again, or by a later one.
VerdictIsFinal ==
  [][\A r \in Rounds : Outcome(r) # "pending" => votes'[r] = votes[r]]_vars

\* A denial the reviewers upheld is the end: no callback that was still under way,
\* no dead job and no second approval moves the deal off it.
DenialStands ==
  [][cycle.decision = "reconfirmed" => cycle' = cycle /\ linked' = linked]_vars

\* A deal fails or is linked on the word of its latest attempt: by a sweep only
\* for a dead job of that very attempt, by a callback only if it is about that
\* attempt or if SyncHub gave the answer after it had begun.  So no dead job
\* and no answer left over from an earlier round, override or retry counts.  A
\* request of an earlier attempt that SyncHub ends only now does: it carries a
\* current time, and nothing in the callback tells it apart.
SignalIsCurrent ==
  [][\/ cycle'.override = "failed" /\ cycle.override # "failed"
     \/ cycle'.status = "approved" /\ cycle.status # "approved"
     => blame'.attempt = began \/ blame'.answered >= began]_vars

Earned(r) == Outcome(r) = "approved" \/ r \in overruled

\* A project is asked for only in a round two voters approved or a reviewer
\* overruled, and a linked deal is in such a round -- as long as no callback
\* of an earlier round was taken for one of the current.
CreatesAreEarned ==
  "otherRound" \notin slips =>
    /\ \A j \in Creates : Earned(creates[j].round)
    /\ \A p \in Projects : Earned(projects[p].round)
    /\ cycle.status = "approved" => Earned(cycle.round)

\* Two jobs that can still ask for a project of the same round never exist at
\* once, whoever retries, overrules or sweeps, the runs that lost their lease
\* included -- as long as no failure is surfaced while the job it is about, or
\* a run of it without a lease, is still to ask, and none to a wrong round.
OneLiveCreate ==
  slips \intersect {"otherRound", "jobLive", "adrift"} = {} =>
    Cardinality({j \in Creates : CanAsk(creates[j]) /\ creates[j].round = cycle.round}) <= 1

\* An approved round does not stay "creating" in silence: its deal is linked, or
\* shows a failure somebody can retry, or is archived -- unless the invitation
\* sweep overtook the deciding vote.
ApprovalSurfaces ==
  /\ active /\ cycle.status = "pending" /\ Outcome(cycle.round) = "approved"
  ~> ~active \/ cycle.status # "pending" \/ "overtaken" \in slips
=============================================================================
