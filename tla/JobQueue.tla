------------------------------ MODULE JobQueue ------------------------------
(***************************************************************************)
(* The durable job queue of the worker (worker/src/queue.ts): rows of      *)
(* public.job_queue claimed by several worker processes, each running one  *)
(* main poller and some dedicated ones.  A claim is a lease; every write   *)
(* about a claim is guarded by the attempts value it was claimed at; an    *)
(* outcome that cannot be written is kept in the worker's memory           *)
(* (pendingRecoveries) and replayed; a row whose lease expired is requeued *)
(* by a sweep.                                                             *)
(*                                                                         *)
(* Time is abstract: run_after delays are "claimed at any later moment",   *)
(* and the age of started_processing_at is one bit, "lapsed".  Statements  *)
(* are atomic, but one the worker gave up on may still land later: an      *)
(* outcome (limbo) or the renewal of a lease (strays).                     *)
(***************************************************************************)
EXTENDS Naturals, FiniteSets

CONSTANTS
  Jobs,               \* rows of public.job_queue
  Workers,            \* worker processes
  Pollers,            \* the polling loops each worker runs
  Main,               \* pollJobs, the only poller that flushes
  PollerOf,           \* the poller whose job_type predicate selects a job
  Limit,              \* how many rows one tick of a poller claims
  MaxAttempts,        \* max_attempts of every row
  Unregistered,       \* jobs of a type no handler is registered for
  Deferring,          \* jobs whose handler may return deferJob(...)
  Revivable,          \* dead jobs the server may requeue with attempts = 0
  Withdrawable,       \* pending jobs the server may close
  MaxFaults,          \* bound on faults, deferrals and server edits
  NoWorker            \* the worker of a verdict whose process has crashed

ASSUME ConstantsAssumption ==
  /\ Main \in Pollers
  /\ PollerOf \in [Jobs -> Pollers]
  /\ Limit \in [Pollers -> Nat \ {0}]
  /\ MaxAttempts \in Nat \ {0}
  /\ Unregistered \subseteq Jobs
  /\ Deferring \subseteq Jobs
  /\ Revivable \subseteq Jobs
  /\ Withdrawable \subseteq Jobs
  /\ MaxFaults \in Nat
  /\ NoWorker \notin Workers

VARIABLES
  row,                \* the table; clm is history: which claim holds the row
  doubt,              \* claim transactions whose COMMIT the worker saw fail
  deliveries,         \* claimed jobs a worker is running or writing about
  pendingRecoveries,  \* each worker's intents: writes to be replayed
  limbo,              \* abandoned outcome writes that may still land
  strays,             \* lease renewals under way that their run no longer awaits
  ticking,            \* is the worker's main poller inside a tick?
  snapshot,           \* the intents that tick has still to flush
  claims,             \* history: how often a job has been claimed
  verdicts,           \* history: every outcome a worker has decided
  slipped,            \* history: jobs whose attempts went back too soon
  faults              \* how much of MaxFaults is used

vars == <<row, doubt, deliveries, pendingRecoveries, limbo, strays, ticking,
          snapshot, claims, verdicts, slipped, faults>>

-----------------------------------------------------------------------------
(* Data *)

Status == {"pending", "processing", "completed", "dead"}
Terminal == {"completed", "dead"}

\* What ends a delivery: the handler returned, returned "dead" or "pending",
\* or threw; "unsure" is a claim whose COMMIT failed.
Result == {"returned", "rejected", "deferred", "threw", "unsure"}

Outcome == {"completed", "dead", "pending", "deferred"}

\* The outcome processJob (or the claim requeue path) computes for a delivery.
OutcomeOf(res, att) ==
  CASE res = "returned" -> "completed"
    [] res = "rejected" -> "dead"
    [] res = "deferred" -> "deferred"
    [] res = "threw"    -> IF att >= MaxAttempts THEN "dead" ELSE "pending"
    [] res = "unsure"   -> "pending"

Row == [status : Status, attempts : Nat, lapsed : BOOLEAN, clm : Nat]

\* A guarded statement about one claim of a job.
Write == [job : Jobs, att : Nat \ {0}, clm : Nat, out : Outcome]

\* phase "run": the handler is running and the heartbeat renews the lease;
\* phase "write": the outcome is decided and its write is being attempted.
Delivery == [worker : Workers, job : Jobs, att : Nat \ {0}, clm : Nat,
             phase : {"run", "write"}, out : Outcome, lapsed : BOOLEAN]

Verdict == [worker : Workers \cup {NoWorker}, job : Jobs, att : Nat \ {0},
            clm : Nat, res : Result]

\* Mistake: the intent is reconstructed as a retry instead of kept verbatim.
WriteOfReconstructed(d) ==
  [job |-> d.job, att |-> d.att, clm |-> d.clm, out |-> "pending"]

WriteOf(d) == [job |-> d.job, att |-> d.att, clm |-> d.clm, out |-> d.out]

InDoubt == UNION doubt

\* The reentrancy guard of poller p of worker w is set.
Busy(w, p) ==
  \/ \E d \in deliveries : d.worker = w /\ PollerOf[d.job] = p
  \/ p = Main /\ ticking[w]

Init ==
  /\ row = [j \in Jobs |-> [status |-> "pending", attempts |-> 0,
                            lapsed |-> FALSE, clm |-> 0]]
  /\ doubt = {}
  /\ deliveries = {}
  /\ pendingRecoveries = [w \in Workers |-> {}]
  /\ limbo = {}
  /\ strays = {}
  /\ ticking = [w \in Workers |-> FALSE]
  /\ snapshot = [w \in Workers |-> {}]
  /\ claims = [j \in Jobs |-> 0]
  /\ verdicts = {}
  /\ slipped = {}
  /\ faults = 0

Fault ==
  /\ faults < MaxFaults
  /\ faults' = faults + 1

-----------------------------------------------------------------------------
(* What is still to be executed *)

\* The guarded outcome statements: the writes being attempted, those abandoned,
\* and the intents to replay.
Attempted == {WriteOf(d) : d \in {e \in deliveries : e.phase = "write"}}
Intents == UNION {pendingRecoveries[w] : w \in Workers}
Flushing == UNION {snapshot[w] : w \in Workers}
Outcomes == Attempted \cup limbo \cup Intents \cup Flushing

\* The lease renewals still to come, or still under way when nobody waits for
\* them any more, carry the same guard.
Renewals == {WriteOf(d) : d \in {e \in deliveries : e.phase = "run"}} \cup strays

Tokens == Outcomes \cup Renewals

\* The attempts value of the last claim of j.
Top(j) == IF j \in InDoubt THEN row[j].attempts + 1 ELSE row[j].attempts

\* The attempts of a row move back - a deferral gives its own back, a requeue
\* of a dead job resets them, a claim rolls back - while a statement is still
\* to be executed that carries a value given back: the next claims will have
\* that value again.
Slips ==
  slipped' = slipped \cup
    {j \in Jobs : /\ Top(j)' < Top(j)
                  /\ \E r \in Tokens' : r.job = j /\ r.att > Top(j)'}

-----------------------------------------------------------------------------
(* The guarded writes *)

\* Mistake: the attempts half of the guard is missing.
MatchesAnyClaim(r) == row[r.job].status = "processing"

\* WHERE status = 'processing' AND attempts = $claimed
Matches(r) ==
  /\ row[r.job].status = "processing"
  /\ row[r.job].attempts = r.att

\* The status an outcome gives its row.
StatusOf(out) == IF out = "deferred" THEN "pending" ELSE out

\* Mistake: a retry gives its attempt back as well.
WrittenGivesBack(r) ==
  [row[r.job] EXCEPT
     !.status = StatusOf(r.out),
     !.attempts = IF StatusOf(r.out) = "pending" THEN @ - 1 ELSE @,
     !.lapsed = FALSE]

\* The row after the outcome update: a deferral gives its attempt back.
Written(r) ==
  [row[r.job] EXCEPT
     !.status = StatusOf(r.out),
     !.attempts = IF r.out = "deferred" THEN @ - 1 ELSE @,
     !.lapsed = FALSE]

\* One execution of the statement of r: zero rows affected if it does not match.
Apply(r) ==
  row' = IF Matches(r) THEN [row EXCEPT ![r.job] = Written(r)] ELSE row

\* Mistake: an intent is deleted by its job id alone.
RetireByJob(w, r) ==
  {h \in pendingRecoveries[w] : h.job # r.job}

\* ownsPendingRecovery: the entry attempt r stored, not a newer attempt's.
Retire(w, r) ==
  {h \in pendingRecoveries[w] : ~ (h.job = r.job /\ h.att = r.att)}

\* mayStorePendingRecovery: never evict the intent of a later attempt.
Store(w, r) ==
  IF \A h \in pendingRecoveries[w] : h.job = r.job => r.att >= h.att
  THEN {h \in pendingRecoveries[w] : h.job # r.job} \cup {r}
  ELSE pendingRecoveries[w]

-----------------------------------------------------------------------------
(* A tick: flush, then claim *)

\* pollJobs starts: the reentrancy guard, and the snapshot of the intents.
BeginTick(w) ==
  /\ ~ Busy(w, Main)
  /\ ticking' = [ticking EXCEPT ![w] = TRUE]
  /\ snapshot' = [snapshot EXCEPT ![w] = pendingRecoveries[w]]
  /\ UNCHANGED <<row, doubt, deliveries, pendingRecoveries, limbo, strays,
                 claims, verdicts, slipped, faults>>

\* flushPendingRecoveries replays one intent; matched or not, it is retired.
FlushLands(w, r) ==
  /\ r \in snapshot[w]
  /\ Apply(r)
  /\ pendingRecoveries' = [pendingRecoveries EXCEPT ![w] = Retire(w, r)]
  /\ snapshot' = [snapshot EXCEPT ![w] = @ \ {r}]
  /\ UNCHANGED <<doubt, deliveries, limbo, strays, ticking, claims, verdicts,
                 faults>>
  /\ Slips

\* The first failed replay ends the flush; the statement may land later.
FlushFails(w, r) ==
  /\ r \in snapshot[w]
  /\ Fault
  /\ limbo' = limbo \cup {r}
  /\ snapshot' = [snapshot EXCEPT ![w] = {}]
  /\ UNCHANGED <<row, doubt, deliveries, pendingRecoveries, strays, ticking,
                 claims, verdicts, slipped>>

\* Mistake: a row that has used up its attempts is never claimed again.
ClaimableWithinBudget(p) ==
  {j \in Jobs \ InDoubt : /\ row[j].status = "pending"
                          /\ row[j].attempts < MaxAttempts
                          /\ PollerOf[j] = p}

\* Rows the claim SELECT of poller p can return: a row locked by an
\* unresolved claim transaction is skipped.
Claimable(p) ==
  {j \in Jobs \ InDoubt : row[j].status = "pending" /\ PollerOf[j] = p}

\* Poller p of worker w is at its claim phase.
AtClaim(w, p) ==
  IF p = Main
  THEN /\ ticking[w]
       /\ snapshot[w] = {}
  ELSE ~ Busy(w, p)

\* The row after the claim transaction.
Claimed(j, n) ==
  IF j \in Unregistered
  THEN [row[j] EXCEPT !.status = "dead", !.clm = n]
  ELSE [status |-> "processing", attempts |-> row[j].attempts + 1,
        lapsed |-> FALSE, clm |-> n]

ClaimBatch(w, p, S) ==
  /\ AtClaim(w, p)
  /\ S \subseteq Claimable(p)
  /\ S # {}
  /\ Cardinality(S) <= Limit[p]
  /\ claims' = [j \in Jobs |-> IF j \in S THEN claims[j] + 1 ELSE claims[j]]
  /\ ticking' = IF p = Main THEN [ticking EXCEPT ![w] = FALSE] ELSE ticking

\* Mistake: the delivery is bound to the attempts value read by the SELECT.
NewDeliveryUnbumped(w, j, ph, out) ==
  [worker |-> w, job |-> j, att |-> row[j].attempts,
   clm |-> claims[j] + 1, phase |-> ph, out |-> out, lapsed |-> FALSE]

NewDelivery(w, j, ph, out) ==
  [worker |-> w, job |-> j, att |-> row[j].attempts + 1,
   clm |-> claims[j] + 1, phase |-> ph, out |-> out, lapsed |-> FALSE]

\* claimAndRunJobs: the claim commits and the handlers start.
Claim(w, p, S) ==
  /\ ClaimBatch(w, p, S)
  /\ row' = [j \in Jobs |-> IF j \in S THEN Claimed(j, claims[j] + 1) ELSE row[j]]
  /\ deliveries' = deliveries \cup
       {NewDelivery(w, j, "run", "completed") : j \in S \ Unregistered}
  /\ UNCHANGED <<doubt, pendingRecoveries, limbo, strays, snapshot, verdicts,
                 slipped, faults>>

\* The claim transaction fails on the worker's side: every row it marked is
\* requeued by a guarded write, and no handler runs.
ClaimFails(w, p, S) ==
  /\ ClaimBatch(w, p, S)
  /\ Fault
  /\ doubt' = doubt \cup {S}
  /\ deliveries' = deliveries \cup
       {NewDelivery(w, j, "write", OutcomeOf("unsure", row[j].attempts + 1)) :
          j \in S \ Unregistered}
  /\ verdicts' = verdicts \cup
       {[worker |-> w, job |-> j, att |-> row[j].attempts + 1,
         clm |-> claims[j] + 1, res |-> "unsure"] : j \in S \ Unregistered}
  /\ UNCHANGED <<row, pendingRecoveries, limbo, strays, snapshot, slipped>>

\* The claim returns no row: nothing is pending, nothing is due yet, or the
\* pool has no connection.
EmptyClaim(w) ==
  /\ AtClaim(w, Main)
  /\ ticking' = [ticking EXCEPT ![w] = FALSE]
  /\ UNCHANGED <<row, doubt, deliveries, pendingRecoveries, limbo, strays,
                 snapshot, claims, verdicts, slipped, faults>>

\* The database resolves a claim transaction whose COMMIT failed.
DoubtCommits(S) ==
  /\ S \in doubt
  /\ doubt' = doubt \ {S}
  /\ row' = [j \in Jobs |-> IF j \in S THEN Claimed(j, claims[j]) ELSE row[j]]
  /\ UNCHANGED <<deliveries, pendingRecoveries, limbo, strays, ticking,
                 snapshot, claims, verdicts, slipped, faults>>

DoubtRollsBack(S) ==
  /\ S \in doubt
  /\ doubt' = doubt \ {S}
  /\ UNCHANGED <<row, deliveries, pendingRecoveries, limbo, strays, ticking,
                 snapshot, claims, verdicts, faults>>
  /\ Slips

-----------------------------------------------------------------------------
(* A delivery: processJob *)

Decide(d, res) ==
  /\ d \in deliveries
  /\ d.phase = "run"
  /\ deliveries' = (deliveries \ {d}) \cup
       {[d EXCEPT !.phase = "write", !.out = OutcomeOf(res, d.att)]}
  /\ verdicts' = verdicts \cup
       {[worker |-> d.worker, job |-> d.job, att |-> d.att, clm |-> d.clm,
         res |-> res]}
  /\ UNCHANGED <<row, doubt, pendingRecoveries, limbo, strays, ticking,
                 snapshot, claims, slipped>>

HandlerReturns(d) == Decide(d, "returned") /\ UNCHANGED faults
HandlerRejects(d) == Decide(d, "rejected") /\ UNCHANGED faults
HandlerThrows(d)  == Decide(d, "threw") /\ UNCHANGED faults
HandlerDefers(d)  == d.job \in Deferring /\ Fault /\ Decide(d, "deferred")

\* attemptRecovery: the guarded outcome write executes.  Only one that
\* matched may retire an intent, and only its own.
OutcomeLands(d) ==
  /\ d \in deliveries
  /\ d.phase = "write"
  /\ Apply(WriteOf(d))
  /\ pendingRecoveries' =
       IF Matches(d)
       THEN [pendingRecoveries EXCEPT ![d.worker] = Retire(d.worker, d)]
       ELSE pendingRecoveries
  /\ deliveries' = deliveries \ {d}
  /\ UNCHANGED <<doubt, limbo, strays, ticking, snapshot, claims, verdicts,
                 faults>>
  /\ Slips

\* attemptRecovery: the write fails or times out; its intent is stored, and
\* the abandoned statement may still land.
OutcomeFails(d) ==
  /\ d \in deliveries
  /\ d.phase = "write"
  /\ Fault
  /\ pendingRecoveries' =
       [pendingRecoveries EXCEPT ![d.worker] = Store(d.worker, WriteOf(d))]
  /\ limbo' = limbo \cup {WriteOf(d)}
  /\ deliveries' = deliveries \ {d}
  /\ UNCHANGED <<row, doubt, strays, ticking, snapshot, claims, verdicts,
                 slipped>>

\* The renewal writes the row; no one looks at whether it matched.
Renewed(r) ==
  /\ row' = IF Matches(r) THEN [row EXCEPT ![r.job].lapsed = FALSE] ELSE row
  /\ UNCHANGED <<doubt, deliveries, pendingRecoveries, limbo, ticking, snapshot,
                 claims, verdicts, slipped>>

\* renewJobLease, while the handler runs.
Renew(d) ==
  /\ d \in deliveries
  /\ d.phase = "run"
  /\ Matches(d)
  /\ row[d.job].lapsed
  /\ Renewed(WriteOf(d))
  /\ UNCHANGED <<strays, faults>>

\* A renewal hangs, or is given up on by its timeout, which does not cancel it;
\* the heartbeat that ends with the handler stops the timer and waits for nothing.
RenewStalls(d) ==
  /\ d \in deliveries
  /\ d.phase = "run"
  /\ Fault
  /\ strays' = strays \cup {WriteOf(d)}
  /\ UNCHANGED <<row, doubt, deliveries, pendingRecoveries, limbo, ticking,
                 snapshot, claims, verdicts, slipped>>

-----------------------------------------------------------------------------
(* The environment: the clock, the database, crashes, the server *)

Owner(j) ==
  {d \in deliveries : d.job = j /\ d.clm = row[j].clm}

\* A lease goes 300 s without renewal: its owner is gone, or (a fault) it is
\* slow, paused or cannot reach the database.
LeaseLapses(j) ==
  /\ row[j].status = "processing"
  /\ ~ row[j].lapsed
  /\ row' = [row EXCEPT ![j].lapsed = TRUE]
  /\ deliveries' = {IF d \in Owner(j) THEN [d EXCEPT !.lapsed = TRUE] ELSE d :
                      d \in deliveries}
  /\ IF Owner(j) = {} THEN UNCHANGED faults ELSE Fault
  /\ UNCHANGED <<doubt, pendingRecoveries, limbo, strays, ticking, snapshot,
                 claims, verdicts, slipped>>

\* Mistake: the sweep goes by age and ignores renewals.
StaleByAge(j) == row[j].status = "processing"

\* The rows the expired-lease sweep selects.
Stale(j) ==
  /\ row[j].status = "processing"
  /\ row[j].lapsed

\* Mistake: the sweep buries a row that has used up its attempts.
SweepBuries ==
  /\ \E j \in Jobs : Stale(j)
  /\ row' = [j \in Jobs |->
               IF ~ Stale(j) THEN row[j]
               ELSE IF row[j].attempts >= MaxAttempts
               THEN [row[j] EXCEPT !.status = "dead", !.lapsed = FALSE]
               ELSE [row[j] EXCEPT !.status = "pending", !.lapsed = FALSE]]
  /\ UNCHANGED <<doubt, deliveries, pendingRecoveries, limbo, strays, ticking,
                 snapshot, claims, verdicts, slipped, faults>>

\* recoverStaleJobs, one statement over the table; attempts are kept, so a
\* row may come back at or beyond max_attempts.
Sweep ==
  /\ \E j \in Jobs : Stale(j)
  /\ row' = [j \in Jobs |->
               IF Stale(j) THEN [row[j] EXCEPT !.status = "pending",
                                               !.lapsed = FALSE]
               ELSE row[j]]
  /\ UNCHANGED <<doubt, deliveries, pendingRecoveries, limbo, strays, ticking,
                 snapshot, claims, verdicts, slipped, faults>>

\* An abandoned statement is executed after all.
LimboLands(r) ==
  /\ r \in limbo
  /\ limbo' = limbo \ {r}
  /\ Apply(r)
  /\ UNCHANGED <<doubt, deliveries, pendingRecoveries, strays, ticking,
                 snapshot, claims, verdicts, faults>>
  /\ Slips

\* So is a renewal; of several that stalled under one claim, another may be left.
StrayLands(r) ==
  /\ r \in strays
  /\ Renewed(r)
  /\ \/ strays' = strays \ {r} /\ UNCHANGED faults
     \/ UNCHANGED strays /\ Fault

\* A worker dies and is restarted: its memory is lost.
Crash(w) ==
  /\ Fault
  /\ deliveries' = {d \in deliveries : d.worker # w}
  /\ pendingRecoveries' = [pendingRecoveries EXCEPT ![w] = {}]
  /\ ticking' = [ticking EXCEPT ![w] = FALSE]
  /\ snapshot' = [snapshot EXCEPT ![w] = {}]
  /\ verdicts' = {IF v.worker = w THEN [v EXCEPT !.worker = NoWorker] ELSE v :
                    v \in verdicts}
  /\ UNCHANGED <<row, doubt, limbo, strays, claims, slipped>>

\* A scorecard edit requeues the dead completion e-mail with fresh attempts.
Revive(j) ==
  /\ j \in Revivable
  /\ Fault
  /\ row[j].status = "dead"
  /\ row' = [row EXCEPT ![j].status = "pending", ![j].attempts = 0]
  /\ UNCHANGED <<doubt, deliveries, pendingRecoveries, limbo, strays, ticking,
                 snapshot, claims, verdicts>>
  /\ Slips

\* The server closes a job that is still pending: a reopened corrective action
\* marks it dead, a return to opportunity marks it completed.
Withdraw(j, s) ==
  /\ j \in Withdrawable \ InDoubt
  /\ row[j].status = "pending"
  /\ row' = [row EXCEPT ![j].status = s]
  /\ UNCHANGED <<doubt, deliveries, pendingRecoveries, limbo, strays, ticking,
                 snapshot, claims, verdicts, slipped, faults>>

-----------------------------------------------------------------------------
(* The specification *)

WorkerStep(w) ==
  \/ BeginTick(w)
  \/ EmptyClaim(w)
  \/ \E r \in snapshot[w] : FlushLands(w, r) \/ FlushFails(w, r)
  \/ \E p \in Pollers : \E S \in SUBSET Jobs :
       Claim(w, p, S) \/ ClaimFails(w, p, S)
  \/ Crash(w)

DeliveryStep(d) ==
  \/ HandlerReturns(d)
  \/ HandlerRejects(d)
  \/ HandlerThrows(d)
  \/ HandlerDefers(d)
  \/ OutcomeLands(d)
  \/ OutcomeFails(d)
  \/ Renew(d)
  \/ RenewStalls(d)

DatabaseStep ==
  \/ \E S \in doubt : DoubtCommits(S) \/ DoubtRollsBack(S)
  \/ \E r \in limbo : LimboLands(r)
  \/ \E r \in strays : StrayLands(r)
  \/ \E j \in Jobs : LeaseLapses(j)
  \/ Sweep

ServerStep ==
  \E j \in Jobs : Revive(j) \/ \E s \in Terminal : Withdraw(j, s)

Next ==
  \/ \E w \in Workers : WorkerStep(w)
  \/ \E d \in deliveries : DeliveryStep(d)
  \/ DatabaseStep
  \/ ServerStep

Spec == Init /\ [][Next]_vars

(***************************************************************************)
(* What the code's scheduling justifies.  setInterval keeps every poller   *)
(* ticking; a row is due after a finite run_after, so a poller that keeps  *)
(* reaching its claim phase eventually finds it (strong fairness).  A      *)
(* handler settles, because the model's handlers do; a statement settles   *)
(* within QUEUE_QUERY_TIMEOUT_MS.  A lease nobody renews lapses, and the   *)
(* sweep rides every main tick.  A transaction in doubt is resolved.       *)
(***************************************************************************)
HandlerSettles(w, j) ==
  \E d \in deliveries :
    /\ d.worker = w
    /\ d.job = j
    /\ HandlerReturns(d) \/ HandlerRejects(d) \/ HandlerThrows(d)

WriteSettles(w, j) ==
  \E d \in deliveries :
    /\ d.worker = w
    /\ d.job = j
    /\ OutcomeLands(d) \/ OutcomeFails(d)

FlushSettles(w) ==
  \E r \in snapshot[w] : FlushLands(w, r) \/ FlushFails(w, r)

Fairness ==
  /\ \A w \in Workers :
       /\ WF_vars(BeginTick(w))
       /\ WF_vars(FlushSettles(w))
       /\ WF_vars(EmptyClaim(w))
       /\ \A p \in Pollers :
            SF_vars(\E S \in SUBSET Jobs : Claim(w, p, S))
       /\ \A j \in Jobs :
            /\ WF_vars(HandlerSettles(w, j))
            /\ WF_vars(WriteSettles(w, j))
  /\ \A j \in Jobs : WF_vars(LeaseLapses(j) /\ Owner(j) = {})
  /\ WF_vars(Sweep)
  /\ WF_vars(\E S \in doubt : DoubtCommits(S) \/ DoubtRollsBack(S))

FairSpec == Spec /\ Fairness

-----------------------------------------------------------------------------
(* Properties *)

\* The shapes of the queue's state.
TypeOK ==
  /\ row \in [Jobs -> Row]
  /\ doubt \subseteq SUBSET Jobs
  /\ deliveries \subseteq Delivery
  /\ pendingRecoveries \in [Workers -> SUBSET Write]
  /\ limbo \subseteq Write
  /\ strays \subseteq Write
  /\ ticking \in [Workers -> BOOLEAN]
  /\ snapshot \in [Workers -> SUBSET Write]
  /\ claims \in [Jobs -> Nat]
  /\ verdicts \subseteq Verdict
  /\ slipped \subseteq Jobs
  /\ faults \in Nat

\* Fencing: whatever is still to be executed about a claim - its renewal, its
\* outcome, the replay of that outcome, a statement given up on - can only
\* take effect on that claim, never on a later one of the same row, unless
\* attempts slipped.
Fenced ==
  \A r \in Tokens :
    r.job \notin slipped /\ Matches(r) => row[r.job].clm = r.clm

\* Attempts slip in four ways only: a dead job is requeued with none, a claim
\* rolls back, a deferral lands that had been given up on or kept for replay, or
\* one lands at once while a renewal of its own claim is still under way.  In
\* particular a deferral written at once, with no such renewal, never slips.
SlipsAreExplained ==
  [][\A j \in slipped' \ slipped :
       \/ j \in Revivable /\ row[j].status = "dead"
       \/ j \in InDoubt
       \/ \E r \in limbo \cup Flushing :
            r.job = j /\ r.clm = row[j].clm /\ r.out = "deferred"
       \/ \E r \in Attempted, q \in strays :
            /\ r.job = j /\ r.clm = row[j].clm /\ r.out = "deferred"
            /\ q.job = j /\ q.clm = r.clm]_vars

\* What queue.ts:262-263 says of deferrals: one only lands on the row its own
\* handler claimed, never on a later claim.
DeferralTakesOwnClaim ==
  \A r \in Outcomes :
    r.out = "deferred" /\ Matches(r) => row[r.job].clm = r.clm

\* Leases exclude: a delivery whose handler is running and whose lease never
\* lapsed still holds its row, so nobody else can be running the same job,
\* unless attempts slipped.
LeaseHolderOwnsRow ==
  \A d \in deliveries :
    d.job \notin slipped /\ d.phase = "run" /\ ~ d.lapsed =>
      /\ row[d.job].status = "processing"
      /\ row[d.job].clm = d.clm

\* An outcome already earned is never forgotten: while the row still carries
\* the claim whose handler ended, the worker that ran it (unless it crashed)
\* is about to write the outcome or holds the intent to replay it, unless
\* attempts slipped.
OutcomeRemembered ==
  \A v \in verdicts :
    /\ v.job \notin slipped
    /\ v.worker # NoWorker
    /\ v.res # "unsure"
    /\ row[v.job].status = "processing"
    /\ row[v.job].clm = v.clm
    => \/ \E d \in deliveries :
            d.worker = v.worker /\ d.job = v.job /\ d.clm = v.clm
       \/ \E r \in pendingRecoveries[v.worker] :
            r.job = v.job /\ r.clm = v.clm

\* Nothing is settled that did not run: a row is completed only if some
\* delivery's handler returned, and dead only if one was rejected or threw on
\* its last attempt, whatever was lost, replayed or landed late; the server's
\* own withdrawals and unknown job types aside.
VerdictEarned ==
  \A j \in Jobs \ Withdrawable :
    /\ row[j].status = "completed" =>
         \E v \in verdicts : v.job = j /\ v.res = "returned"
    /\ row[j].status = "dead" /\ j \notin Unregistered =>
         \E v \in verdicts :
           /\ v.job = j
           /\ \/ v.res = "rejected"
              \/ v.res = "threw" /\ v.att >= MaxAttempts

\* A settled row stays settled: no worker statement, however late, moves a
\* completed or a dead row; only the server's requeue of a dead one does.
TerminalStays ==
  [][\A j \in Jobs :
       row[j].status \in Terminal /\ row'[j].status # row[j].status =>
         /\ j \in Revivable
         /\ row[j].status = "dead"
         /\ row'[j].status = "pending"]_vars

\* A row leaves 'processing' only as its own claim's outcome says, verbatim,
\* or because its lease lapsed and it goes back to pending, unless attempts
\* slipped.
OutcomeVerbatim ==
  [][\A j \in Jobs \ slipped :
       row[j].status = "processing" /\ row'[j].status # "processing" =>
         \/ row[j].lapsed /\ row'[j].status = "pending"
         \/ \E v \in verdicts :
              /\ v.job = j
              /\ v.clm = row[j].clm
              /\ row'[j].status = StatusOf(OutcomeOf(v.res, v.att))]_vars

\* At least once, to the end: with finitely many faults every queued job is
\* eventually settled, so no claim of one is stranded, whether its worker failed
\* to write, forgot it in a crash or died.
EventuallySettled ==
  \A j \in Jobs : row[j].status = "pending" ~> row[j].status \in Terminal

(***************************************************************************)
(* The queue implements AtLeastOnce: a row in 'processing' is a job handed *)
(* out, and a run has earned the outcome its verdict computes to.          *)
(***************************************************************************)
StateOf(status) ==
  CASE status = "pending"    -> "waiting"
    [] status = "processing" -> "taken"
    [] OTHER                 -> status

States == [j \in Jobs |-> StateOf(row[j].status)]

Earned ==
  [j \in Jobs |->
     {o \in Terminal :
        \E v \in verdicts : v.job = j /\ OutcomeOf(v.res, v.att) = o}]

ALO == INSTANCE AtLeastOnce WITH state <- States, earned <- Earned

\* Every claim, replay, late statement, sweep and crash of the queue is one of
\* the steps AtLeastOnce allows, or is invisible to the inserting code.
ImplementsAtLeastOnce == ALO!Spec

=============================================================================
