--------------------------- MODULE JobQueueProofs ---------------------------
(***************************************************************************)
(* Theorems about JobQueue, for every set of jobs, workers and pollers and *)
(* every bound.                                                            *)
(***************************************************************************)
EXTENDS JobQueue, TLAPS

-----------------------------------------------------------------------------
(* Type correctness *)

\* The outcome of every kind of ending is an outcome.
LEMMA OutcomeType ==
  ASSUME NEW res \in Result, NEW att \in Nat
  PROVE  OutcomeOf(res, att) \in Outcome
BY DEF OutcomeOf, Result, Outcome

\* The edits of one row that the statements make.
LEMMA RowEdits ==
  ASSUME NEW x \in Row, NEW s \in Status, NEW n \in Nat, NEW b \in BOOLEAN
  PROVE  /\ [x EXCEPT !.lapsed = b] \in Row
         /\ [x EXCEPT !.status = s] \in Row
         /\ [x EXCEPT !.status = s, !.lapsed = b] \in Row
         /\ [x EXCEPT !.status = s, !.attempts = n] \in Row
         /\ [x EXCEPT !.status = s, !.attempts = n, !.lapsed = b] \in Row
         /\ [x EXCEPT !.status = s, !.clm = n] \in Row
BY DEF Row

\* Executing a guarded statement keeps the table well formed: a matched
\* statement carries a claimed attempt, so a deferral has one to give back.
LEMMA ApplyType ==
  ASSUME row \in [Jobs -> Row],
         NEW r, r.job \in Jobs, r.att \in Nat \ {0}, r.out \in Outcome,
         Apply(r)
  PROVE  row' \in [Jobs -> Row]
<1>1. CASE ~ Matches(r)
  BY <1>1 DEF Apply
<1>2. CASE Matches(r)
  <2>1. Written(r) \in Row
    <3>1. row[r.job] \in Row /\ row[r.job].attempts = r.att
      BY <1>2 DEF Matches
    <3>2. CASE r.out = "deferred"
      <4>1. Written(r) = [row[r.job] EXCEPT !.status = "pending",
                                            !.attempts = r.att - 1,
                                            !.lapsed = FALSE]
        BY <3>1, <3>2 DEF Written, StatusOf
      <4>2. r.att - 1 \in Nat
        OBVIOUS
      <4>3. [row[r.job] EXCEPT !.status = "pending",
                               !.attempts = r.att - 1,
                               !.lapsed = FALSE] \in Row
        BY ONLY row[r.job] \in Row, <3>1, <4>2 DEF Row, Status
      <4> QED
        BY <4>1, <4>3
    <3>3. CASE r.out # "deferred"
      <4>1. Written(r) = [row[r.job] EXCEPT !.status = r.out,
                                            !.attempts = r.att,
                                            !.lapsed = FALSE]
        BY <3>1, <3>3 DEF Written, StatusOf
      <4>2. r.out \in Status /\ r.att \in Nat
        BY <3>3 DEF Status, Outcome
      <4>3. [row[r.job] EXCEPT !.status = r.out,
                               !.attempts = r.att,
                               !.lapsed = FALSE] \in Row
        BY ONLY row[r.job] \in Row, <3>1, <4>2 DEF Row
      <4> QED
        BY <4>1, <4>3
    <3> QED
      BY <3>2, <3>3
  <2> QED
    BY <1>2, <2>1 DEF Apply
<1> QED
  BY <1>1, <1>2

\* A delivery carries a well-formed write.
LEMMA WriteOfType ==
  ASSUME NEW d \in Delivery
  PROVE  /\ WriteOf(d) \in Write
         /\ WriteOf(d).job = d.job
         /\ WriteOf(d).att = d.att
         /\ WriteOf(d).clm = d.clm
         /\ WriteOf(d).out = d.out
BY DEF WriteOf, Write, Delivery

\* The claim transaction writes well-formed rows.
LEMMA ClaimedType ==
  ASSUME row \in [Jobs -> Row], NEW j \in Jobs, NEW n \in Nat
  PROVE  Claimed(j, n) \in Row
<1>1. row[j] \in Row
  OBVIOUS
<1>2. CASE j \in Unregistered
  <2>1. Claimed(j, n) = [row[j] EXCEPT !.status = "dead", !.clm = n]
    BY <1>2 DEF Claimed
  <2> QED
    BY <1>1, <2>1 DEF Row, Status
<1>3. CASE j \notin Unregistered
  BY <1>1, <1>3 DEF Claimed, Row, Status
<1> QED
  BY <1>2, <1>3

\* A new delivery is well formed.
LEMMA NewDeliveryType ==
  ASSUME TypeOK, NEW w \in Workers, NEW j \in Jobs,
         NEW ph \in {"run", "write"}, NEW out \in Outcome
  PROVE  NewDelivery(w, j, ph, out) \in Delivery
<1>1. row[j].attempts \in Nat /\ claims[j] \in Nat
  BY DEF TypeOK, Row
<1> QED
  BY <1>1 DEF NewDelivery, Delivery

\* What a worker's step on its intents can leave in the map.
LEMMA IntentsType ==
  ASSUME TypeOK, NEW w \in Workers, NEW r
  PROVE  /\ Retire(w, r) \in SUBSET Write
         /\ r \in Write => Store(w, r) \in SUBSET Write
BY DEF TypeOK, Retire, Store

\* Only jobs slip.
LEMMA SlipsType ==
  ASSUME TypeOK, Slips
  PROVE  slipped' \subseteq Jobs
BY DEF TypeOK, Slips

\* Every step keeps the shapes of the state.
LEMMA TypeStep == TypeOK /\ [Next]_vars => TypeOK'
<1> SUFFICES ASSUME TypeOK, [Next]_vars
             PROVE  TypeOK'
  OBVIOUS
<1> USE ConstantsAssumption
<1>1. ASSUME NEW w \in Workers, BeginTick(w)
      PROVE  TypeOK'
  BY <1>1 DEF TypeOK, BeginTick
<1>2. ASSUME NEW w \in Workers, EmptyClaim(w)
      PROVE  TypeOK'
  BY <1>2 DEF TypeOK, EmptyClaim
<1>3. ASSUME NEW w \in Workers, NEW r \in snapshot[w], FlushLands(w, r)
      PROVE  TypeOK'
  <2>1. r \in Write
    BY DEF TypeOK
  <2>2. row' \in [Jobs -> Row]
    BY <1>3, <2>1, ApplyType DEF TypeOK, FlushLands, Write
  <2>3. pendingRecoveries' \in [Workers -> SUBSET Write]
    BY <1>3, <2>1, IntentsType DEF TypeOK, FlushLands
  <2> QED
    BY <1>3, <2>2, <2>3, SlipsType DEF TypeOK, FlushLands
<1>4. ASSUME NEW w \in Workers, NEW r \in snapshot[w], FlushFails(w, r)
      PROVE  TypeOK'
  BY <1>4 DEF TypeOK, FlushFails, Fault
<1>5. ASSUME NEW w \in Workers, NEW p \in Pollers, NEW S \in SUBSET Jobs,
             Claim(w, p, S)
      PROVE  TypeOK'
  <2>1. row' \in [Jobs -> Row]
    BY <1>5, ClaimedType DEF TypeOK, Claim
  <2>2. deliveries' \subseteq Delivery
    <3>1. \A j \in Jobs : NewDelivery(w, j, "run", "completed") \in Delivery
      BY NewDeliveryType DEF Outcome
    <3> QED
      BY <1>5, <3>1 DEF TypeOK, Claim
  <2>3. claims' \in [Jobs -> Nat] /\ ticking' \in [Workers -> BOOLEAN]
    BY <1>5 DEF TypeOK, Claim, ClaimBatch
  <2> QED
    BY <1>5, <2>1, <2>2, <2>3 DEF TypeOK, Claim
<1>6. ASSUME NEW w \in Workers, NEW p \in Pollers, NEW S \in SUBSET Jobs,
             ClaimFails(w, p, S)
      PROVE  TypeOK'
  <2>1. deliveries' \subseteq Delivery
    <3>1. \A j \in Jobs :
            NewDelivery(w, j, "write", OutcomeOf("unsure", row[j].attempts + 1))
              \in Delivery
      <4> TAKE j \in Jobs
      <4>1. row[j].attempts + 1 \in Nat
        BY DEF TypeOK, Row
      <4>2. OutcomeOf("unsure", row[j].attempts + 1) \in Outcome
        BY <4>1, OutcomeType DEF Result
      <4> QED
        BY <4>2, NewDeliveryType
    <3> QED
      BY <1>6, <3>1 DEF TypeOK, ClaimFails
  <2>2. verdicts' \subseteq Verdict
    <3>1. \A j \in Jobs :
            [worker |-> w, job |-> j, att |-> row[j].attempts + 1,
             clm |-> claims[j] + 1, res |-> "unsure"] \in Verdict
      BY DEF TypeOK, Row, Verdict, Result
    <3> QED
      BY <1>6, <3>1 DEF TypeOK, ClaimFails
  <2>3. /\ claims' \in [Jobs -> Nat]
        /\ ticking' \in [Workers -> BOOLEAN]
        /\ doubt' \subseteq SUBSET Jobs
        /\ faults' \in Nat
    BY <1>6 DEF TypeOK, ClaimFails, ClaimBatch, Fault
  <2> QED
    BY <1>6, <2>1, <2>2, <2>3 DEF TypeOK, ClaimFails
<1>7. ASSUME NEW w \in Workers, Crash(w)
      PROVE  TypeOK'
  <2>1. verdicts' \subseteq Verdict
    <3>1. \A v \in Verdict : [v EXCEPT !.worker = NoWorker] \in Verdict
      BY DEF Verdict
    <3> QED
      BY <1>7, <3>1 DEF TypeOK, Crash
  <2> QED
    BY <1>7, <2>1 DEF TypeOK, Crash, Fault
<1>8. ASSUME NEW d \in deliveries, NEW res \in Result, Decide(d, res),
             faults' \in Nat
      PROVE  TypeOK'
  <2>1. d \in Delivery /\ d.att \in Nat
    BY DEF TypeOK, Delivery
  <2>2. [d EXCEPT !.phase = "write", !.out = OutcomeOf(res, d.att)] \in Delivery
    BY <2>1, OutcomeType DEF Delivery
  <2>3. [worker |-> d.worker, job |-> d.job, att |-> d.att, clm |-> d.clm,
         res |-> res] \in Verdict
    BY <2>1 DEF Delivery, Verdict
  <2> QED
    BY <1>8, <2>2, <2>3 DEF TypeOK, Decide
<1>9. ASSUME NEW d \in deliveries, OutcomeLands(d)
      PROVE  TypeOK'
  <2>1. d \in Delivery
    BY DEF TypeOK
  <2>2. row' \in [Jobs -> Row]
    <3>1. WriteOf(d) \in Write
      BY <2>1, WriteOfType
    <3> QED
      BY <1>9, <3>1, ApplyType DEF TypeOK, OutcomeLands, Write
  <2>3. pendingRecoveries' \in [Workers -> SUBSET Write]
    BY <1>9, <2>1, IntentsType DEF TypeOK, OutcomeLands, Delivery
  <2> QED
    BY <1>9, <2>2, <2>3, SlipsType DEF TypeOK, OutcomeLands
<1>10. ASSUME NEW d \in deliveries, OutcomeFails(d)
       PROVE  TypeOK'
  <2>1. d \in Delivery /\ WriteOf(d) \in Write
    BY WriteOfType DEF TypeOK
  <2>2. pendingRecoveries' \in [Workers -> SUBSET Write]
    BY <1>10, <2>1, IntentsType DEF TypeOK, OutcomeFails, Delivery
  <2> QED
    BY <1>10, <2>1, <2>2 DEF TypeOK, OutcomeFails, Fault
<1>11. ASSUME NEW r \in Write, Renewed(r), strays' \subseteq Write, faults' \in Nat
       PROVE  TypeOK'
  <2>1. row' \in [Jobs -> Row]
    <3>1. r.job \in Jobs /\ row[r.job] \in Row
      BY DEF TypeOK, Write
    <3>2. [row[r.job] EXCEPT !.lapsed = FALSE] \in Row
      BY <3>1 DEF Row
    <3>3. \/ row' = [row EXCEPT ![r.job] = [row[r.job] EXCEPT !.lapsed = FALSE]]
          \/ row' = row
      BY <1>11 DEF Renewed
    <3> QED
      BY <3>2, <3>3 DEF TypeOK
  <2> QED
    BY <1>11, <2>1 DEF TypeOK, Renewed
<1>12. ASSUME NEW S \in doubt, DoubtCommits(S) \/ DoubtRollsBack(S)
       PROVE  TypeOK'
  <2>1. row' \in [Jobs -> Row]
    BY <1>12, ClaimedType DEF TypeOK, DoubtCommits, DoubtRollsBack
  <2> QED
    BY <1>12, <2>1, SlipsType DEF TypeOK, DoubtCommits, DoubtRollsBack
<1>13. ASSUME NEW r \in limbo, LimboLands(r)
       PROVE  TypeOK'
  <2>1. row' \in [Jobs -> Row]
    BY <1>13, ApplyType DEF TypeOK, LimboLands, Write
  <2> QED
    BY <1>13, <2>1, SlipsType DEF TypeOK, LimboLands
<1>14. ASSUME NEW j \in Jobs, LeaseLapses(j)
       PROVE  TypeOK'
  <2>1. row' \in [Jobs -> Row]
    <3>1. [row[j] EXCEPT !.lapsed = TRUE] \in Row
      <4>1. row[j] \in Row
        BY DEF TypeOK
      <4> QED
        BY <4>1, RowEdits DEF Status
    <3>2. row' = [row EXCEPT ![j] = [row[j] EXCEPT !.lapsed = TRUE]]
      BY <1>14 DEF LeaseLapses
    <3> QED
      BY <3>1, <3>2 DEF TypeOK
  <2>2. deliveries' \subseteq Delivery
    <3>1. \A d \in Delivery : [d EXCEPT !.lapsed = TRUE] \in Delivery
      BY DEF Delivery
    <3> QED
      BY <1>14, <3>1 DEF TypeOK, LeaseLapses
  <2>3. faults' \in Nat
    BY <1>14 DEF TypeOK, LeaseLapses, Fault
  <2> QED
    BY <1>14, <2>1, <2>2, <2>3 DEF TypeOK, LeaseLapses
<1>15. CASE Sweep
  <2>1. row' \in [Jobs -> Row]
    <3>1. \A j \in Jobs :
            [row[j] EXCEPT !.status = "pending", !.lapsed = FALSE] \in Row
      <4>1. \A j \in Jobs : row[j] \in Row
        BY DEF TypeOK
      <4> QED
        BY <4>1, RowEdits DEF Status
    <3> QED
      BY <1>15, <3>1 DEF TypeOK, Sweep
  <2> QED
    BY <1>15, <2>1 DEF TypeOK, Sweep
<1>16. ASSUME NEW j \in Jobs, Revive(j)
       PROVE  TypeOK'
  <2>1. row' \in [Jobs -> Row]
    <3>1. [row[j] EXCEPT !.status = "pending", !.attempts = 0] \in Row
      <4>1. row[j] \in Row
        BY DEF TypeOK
      <4> QED
        BY <4>1, RowEdits DEF Status
    <3>2. row' = [row EXCEPT ![j] = [row[j] EXCEPT !.status = "pending",
                                                   !.attempts = 0]]
      BY <1>16 DEF Revive, TypeOK
    <3> QED
      BY <3>1, <3>2 DEF TypeOK
  <2> QED
    BY <1>16, <2>1, SlipsType DEF TypeOK, Revive, Fault
<1>17. ASSUME NEW j \in Jobs, NEW s \in Terminal, Withdraw(j, s)
       PROVE  TypeOK'
  <2>1. row' \in [Jobs -> Row]
    <3>1. [row[j] EXCEPT !.status = s] \in Row
      BY DEF TypeOK, Row, Status, Terminal
    <3>2. row' = [row EXCEPT ![j] = [row[j] EXCEPT !.status = s]]
      BY <1>17 DEF Withdraw
    <3> QED
      BY <3>1, <3>2 DEF TypeOK
  <2> QED
    BY <1>17, <2>1 DEF TypeOK, Withdraw
<1>18. CASE UNCHANGED vars
  BY <1>18 DEF TypeOK, vars
<1>19. ASSUME NEW d \in deliveries, DeliveryStep(d)
       PROVE  TypeOK'
  <2>1. CASE \/ HandlerReturns(d)
             \/ HandlerRejects(d)
             \/ HandlerThrows(d)
             \/ HandlerDefers(d)
    <3>1. faults' \in Nat
      BY <2>1 DEF TypeOK, HandlerReturns, HandlerRejects, HandlerThrows,
                  HandlerDefers, Fault
    <3> QED
      BY <1>8, <2>1, <3>1 DEF HandlerReturns, HandlerRejects, HandlerThrows,
                              HandlerDefers, Result
  <2>2. ASSUME Renew(d)
        PROVE  TypeOK'
    <3>1. WriteOf(d) \in Write
      BY WriteOfType DEF TypeOK
    <3> QED
      BY <1>11, <2>2, <3>1 DEF Renew, TypeOK
  <2>3. ASSUME RenewStalls(d)
        PROVE  TypeOK'
    <3>1. WriteOf(d) \in Write
      BY WriteOfType DEF TypeOK
    <3> QED
      BY <2>3, <3>1 DEF RenewStalls, Fault, TypeOK
  <2> QED
    BY <1>9, <1>10, <1>19, <2>1, <2>2, <2>3 DEF DeliveryStep
<1>20. ASSUME NEW r \in strays, StrayLands(r)
       PROVE  TypeOK'
  BY <1>11, <1>20 DEF StrayLands, Fault, TypeOK
<1> QED
  BY <1>1, <1>2, <1>3, <1>4, <1>5, <1>6, <1>7, <1>12, <1>13, <1>14, <1>15,
     <1>16, <1>17, <1>18, <1>19, <1>20
     DEF Next, WorkerStep, DatabaseStep, ServerStep

\* The queue's state always has its shapes (TypeOK).
THEOREM TypeCorrect == Spec => []TypeOK
<1>1. Init => TypeOK
  BY ConstantsAssumption DEF Init, TypeOK, Row, Status
<1> QED
  BY <1>1, TypeStep, PTL DEF Spec


-----------------------------------------------------------------------------
(* A settled row stays settled *)

\* A claim in doubt has not touched its rows, and holds them alone.
DoubtInv ==
  /\ \A j \in InDoubt : row[j].status = "pending"
  /\ \A S \in doubt, T \in doubt : S # T => S \cap T = {}

\* A guarded statement only ever changes a row in 'processing'.
LEMMA ApplySpares ==
  ASSUME row \in [Jobs -> Row], NEW r, r.job \in Jobs, Apply(r),
         NEW j \in Jobs, row[j].status # "processing"
  PROVE  row'[j] = row[j]
<1>1. CASE ~ Matches(r)
  BY <1>1 DEF Apply
<1>2. CASE Matches(r)
  <2>1. r.job # j
    BY <1>2 DEF Matches
  <2> QED
    BY <1>2, <2>1 DEF Apply
<1> QED
  BY <1>1, <1>2

\* Membership in the outstanding statements, now and after a step.
LEMMA OutcomesMember ==
  ASSUME NEW r
  PROVE  /\ r \in Outcomes <=>
              \/ \E d \in deliveries : d.phase = "write" /\ r = WriteOf(d)
              \/ r \in limbo
              \/ \E w \in Workers : r \in pendingRecoveries[w]
              \/ \E w \in Workers : r \in snapshot[w]
         /\ r \in Outcomes' <=>
              \/ \E d \in deliveries' : d.phase = "write" /\ r = WriteOf(d)
              \/ r \in limbo'
              \/ \E w \in Workers : r \in pendingRecoveries'[w]
              \/ \E w \in Workers : r \in snapshot'[w]
<1>1. /\ r \in Attempted <=>
            \E d \in deliveries : d.phase = "write" /\ r = WriteOf(d)
      /\ r \in Intents <=> \E w \in Workers : r \in pendingRecoveries[w]
      /\ r \in Flushing <=> \E w \in Workers : r \in snapshot[w]
  <2>1. r \in Attempted <=>
          \E d \in deliveries : d.phase = "write" /\ r = WriteOf(d)
    BY DEF Attempted
  <2>2. r \in Intents <=> \E w \in Workers : r \in pendingRecoveries[w]
    BY DEF Intents
  <2>3. r \in Flushing <=> \E w \in Workers : r \in snapshot[w]
    BY DEF Flushing
  <2> QED
    BY <2>1, <2>2, <2>3
<1>2. /\ r \in Attempted' <=>
            \E d \in deliveries' : d.phase = "write" /\ r = WriteOf(d)
      /\ r \in Intents' <=> \E w \in Workers : r \in pendingRecoveries'[w]
      /\ r \in Flushing' <=> \E w \in Workers : r \in snapshot'[w]
  <2>1. r \in Attempted' <=>
          \E d \in deliveries' : d.phase = "write" /\ r = WriteOf(d)
    BY DEF Attempted, WriteOf
  <2>2. r \in Intents' <=> \E w \in Workers : r \in pendingRecoveries'[w]
    BY DEF Intents
  <2>3. r \in Flushing' <=> \E w \in Workers : r \in snapshot'[w]
    BY DEF Flushing
  <2> QED
    BY <2>1, <2>2, <2>3
<1> QED
  BY <1>1, <1>2 DEF Outcomes

LEMMA RenewalsMember ==
  ASSUME NEW r
  PROVE  /\ r \in Renewals <=>
              \/ \E d \in deliveries : d.phase = "run" /\ r = WriteOf(d)
              \/ r \in strays
         /\ r \in Renewals' <=>
              \/ \E d \in deliveries' : d.phase = "run" /\ r = WriteOf(d)
              \/ r \in strays'
BY DEF Renewals, WriteOf

\* Outstanding statements are well formed.
LEMMA OutcomesType ==
  ASSUME TypeOK
  PROVE  Outcomes \subseteq Write /\ Renewals \subseteq Write
<1>1. \A d \in deliveries : WriteOf(d) \in Write
  BY WriteOfType DEF TypeOK
<1> QED
  BY <1>1, OutcomesMember, RenewalsMember DEF TypeOK

\* The steps that execute an outcome statement.
StatementStep ==
  \/ \E w \in Workers : \E r \in snapshot[w] : FlushLands(w, r)
  \/ \E d \in deliveries : OutcomeLands(d)
  \/ \E r \in limbo : LimboLands(r)

LEMMA StatementApplies ==
  ASSUME StatementStep
  PROVE  \E r \in Outcomes : Apply(r)
<1>1. ASSUME NEW w \in Workers, NEW r \in snapshot[w], FlushLands(w, r)
      PROVE  r \in Outcomes /\ Apply(r)
  BY <1>1, OutcomesMember DEF FlushLands
<1>2. ASSUME NEW d \in deliveries, OutcomeLands(d)
      PROVE  WriteOf(d) \in Outcomes /\ Apply(WriteOf(d))
  BY <1>2, OutcomesMember DEF OutcomeLands
<1>3. ASSUME NEW r \in limbo, LimboLands(r)
      PROVE  r \in Outcomes /\ Apply(r)
  BY <1>3, OutcomesMember DEF LimboLands
<1> QED
  BY <1>1, <1>2, <1>3 DEF StatementStep

\* The other steps, in groups: a handler ends, a claim starts, a claim in
\* doubt is resolved, and the rest, which only edit rows or memory.
DecideStep ==
  \E d \in deliveries, res \in Result :
    /\ Decide(d, res)
    /\ res = "deferred" => d.job \in Deferring

ClaimStep ==
  \E w \in Workers, p \in Pollers, S \in SUBSET Jobs :
    Claim(w, p, S) \/ ClaimFails(w, p, S)

DoubtStep == \E S \in doubt : DoubtCommits(S) \/ DoubtRollsBack(S)

MemoryStep ==
  \/ \E w \in Workers :
       \/ BeginTick(w)
       \/ EmptyClaim(w)
       \/ Crash(w)
       \/ \E r \in snapshot[w] : FlushFails(w, r)
  \/ \E d \in deliveries : OutcomeFails(d)

\* A renewal, at once or late, refreshes the lease or does nothing; one that only
\* stalls does nothing yet.
RenewalStep ==
  \E r \in Renewals :
    /\ \/ row' = row
       \/ Matches(r) /\ row' = [row EXCEPT ![r.job].lapsed = FALSE]
    /\ UNCHANGED <<doubt, deliveries, pendingRecoveries, limbo, ticking, snapshot,
                   claims, verdicts, slipped>>

RowStep ==
  \/ RenewalStep
  \/ \E j \in Jobs :
       \/ LeaseLapses(j)
       \/ Revive(j)
       \/ \E s \in Terminal : Withdraw(j, s)
  \/ Sweep

\* A renewal that is under way when its run ends was that run's.
LEMMA StraysFrom ==
  ASSUME [Next]_vars, NEW r \in strays'
  PROVE  r \in Renewals
<1>1. CASE UNCHANGED strays
  BY <1>1, RenewalsMember
<1>2. ASSUME NEW d \in deliveries, RenewStalls(d)
      PROVE  r \in Renewals
  BY <1>2, RenewalsMember DEF RenewStalls
<1>3. ASSUME NEW q \in strays, StrayLands(q)
      PROVE  r \in Renewals
  BY <1>3, RenewalsMember DEF StrayLands
<1>4. ASSUME NEW d \in deliveries, DeliveryStep(d), ~ RenewStalls(d)
      PROVE  UNCHANGED strays
  BY <1>4 DEF DeliveryStep, HandlerReturns, HandlerRejects, HandlerThrows,
              HandlerDefers, Decide, OutcomeLands, OutcomeFails, Renew
<1>5. ASSUME NEW w \in Workers, WorkerStep(w)
      PROVE  UNCHANGED strays
  BY <1>5 DEF WorkerStep, BeginTick, EmptyClaim, FlushLands, FlushFails, Claim,
              ClaimFails, Crash
<1>6. ASSUME DatabaseStep \/ ServerStep, ~ \E q \in strays : StrayLands(q)
      PROVE  UNCHANGED strays
  BY <1>6 DEF DatabaseStep, ServerStep, DoubtCommits, DoubtRollsBack, LimboLands,
              LeaseLapses, Sweep, Revive, Withdraw
<1> QED
  BY <1>1, <1>2, <1>3, <1>4, <1>5, <1>6 DEF Next, vars

LEMMA NextSplit ==
  ASSUME [Next]_vars
  PROVE  \/ StatementStep \/ DecideStep \/ ClaimStep \/ DoubtStep
         \/ MemoryStep \/ RowStep \/ UNCHANGED vars
<1>1. ASSUME NEW d \in deliveries, DeliveryStep(d)
      PROVE  StatementStep \/ DecideStep \/ MemoryStep \/ RowStep
  <2>1. ASSUME Renew(d) \/ RenewStalls(d)
        PROVE  RenewalStep
    <3>1. /\ WriteOf(d) \in Renewals
          /\ Matches(d) => Matches(WriteOf(d))
      BY <2>1, RenewalsMember DEF Renew, RenewStalls, Matches, WriteOf
    <3> QED
      BY <2>1, <3>1 DEF Renew, RenewStalls, Renewed, RenewalStep
  <2> QED
    BY <1>1, <2>1 DEF DeliveryStep, StatementStep, DecideStep, MemoryStep, RowStep,
                HandlerReturns, HandlerRejects, HandlerThrows, HandlerDefers,
                Result
<1>2. ASSUME NEW w \in Workers, WorkerStep(w)
      PROVE  StatementStep \/ ClaimStep \/ MemoryStep
  BY <1>2 DEF WorkerStep, StatementStep, ClaimStep, MemoryStep
<1>3. ASSUME DatabaseStep \/ ServerStep
      PROVE  StatementStep \/ DoubtStep \/ RowStep
  <2>1. ASSUME NEW r \in strays, StrayLands(r)
        PROVE  RenewalStep
    BY <2>1, RenewalsMember DEF StrayLands, Renewed, RenewalStep
  <2> QED
    BY <1>3, <2>1 DEF DatabaseStep, ServerStep, StatementStep, DoubtStep, RowStep
<1> QED
  BY <1>1, <1>2, <1>3 DEF Next

\* A claim takes pending rows no other claim transaction holds.
LEMMA ClaimTakes ==
  ASSUME NEW w \in Workers, NEW p \in Pollers, NEW S \in SUBSET Jobs,
         ClaimBatch(w, p, S)
  PROVE  /\ \A j \in S : row[j].status = "pending"
         /\ S \cap InDoubt = {}
BY DEF ClaimBatch, Claimable

\* The set of rows in doubt only changes with a claim or its resolution.
LEMMA DoubtInvStep == TypeOK /\ DoubtInv /\ [Next]_vars => DoubtInv'
<1> SUFFICES ASSUME TypeOK, DoubtInv, [Next]_vars
             PROVE  DoubtInv'
  OBVIOUS
<1>0. row \in [Jobs -> Row] /\ doubt \subseteq SUBSET Jobs
  BY DEF TypeOK
<1>1. CASE StatementStep
  <2>1. PICK r \in Outcomes : Apply(r)
    BY <1>1, StatementApplies
  <2>2. r.job \in Jobs
    BY <2>1, OutcomesType DEF Write
  <2>3. \A j \in InDoubt : row'[j] = row[j]
    BY <1>0, <2>1, <2>2, ApplySpares DEF DoubtInv, InDoubt
  <2>4. doubt' = doubt
    BY <1>1 DEF StatementStep, FlushLands, OutcomeLands, LimboLands
  <2> QED
    BY <2>3, <2>4 DEF DoubtInv, InDoubt
<1>2. CASE DecideStep \/ MemoryStep \/ UNCHANGED vars
  BY <1>2 DEF DecideStep, MemoryStep, Decide, BeginTick, EmptyClaim, Crash,
              FlushFails, OutcomeFails, DoubtInv, InDoubt, vars
<1>3. ASSUME NEW w \in Workers, NEW p \in Pollers, NEW S \in SUBSET Jobs,
             Claim(w, p, S)
      PROVE  DoubtInv'
  <2>1. S \cap InDoubt = {} /\ doubt' = doubt
    BY <1>3, ClaimTakes DEF Claim
  <2>2. \A j \in InDoubt : row'[j] = row[j]
    BY <1>0, <1>3, <2>1 DEF Claim, InDoubt
  <2> QED
    BY <2>1, <2>2 DEF DoubtInv, InDoubt
<1>4. ASSUME NEW w \in Workers, NEW p \in Pollers, NEW S \in SUBSET Jobs,
             ClaimFails(w, p, S)
      PROVE  DoubtInv'
  <2>1. /\ \A j \in S : row[j].status = "pending"
        /\ S \cap InDoubt = {}
        /\ doubt' = doubt \cup {S}
        /\ row' = row
    BY <1>4, ClaimTakes DEF ClaimFails
  <2>2. \A T \in doubt : S \cap T = {}
    BY <2>1 DEF InDoubt
  <2> QED
    BY <2>1, <2>2 DEF DoubtInv, InDoubt
<1>5. ASSUME NEW S \in doubt, DoubtCommits(S) \/ DoubtRollsBack(S)
      PROVE  DoubtInv'
  <2>1. doubt' = doubt \ {S}
    BY <1>5 DEF DoubtCommits, DoubtRollsBack
  <2>2. ASSUME NEW T \in doubt', NEW j \in T
        PROVE  row'[j] = row[j] /\ row[j].status = "pending"
    <3>1. j \in Jobs /\ j \notin S /\ j \in InDoubt
      BY <1>0, <2>1, <2>2 DEF DoubtInv, InDoubt
    <3> QED
      BY <1>5, <3>1 DEF DoubtCommits, DoubtRollsBack, DoubtInv
  <2> QED
    BY <2>1, <2>2 DEF DoubtInv, InDoubt
<1>6. CASE RowStep
  <2>1. doubt' = doubt
    BY <1>6 DEF RowStep, RenewalStep, LeaseLapses, Revive, Withdraw, Sweep
  <2>2. ASSUME NEW j \in InDoubt
        PROVE  row'[j] = row[j]
    <3>1. j \in Jobs /\ row[j].status = "pending"
      BY <1>0 DEF DoubtInv, InDoubt
    <3>2. CASE RenewalStep
      BY <1>0, <3>1, <3>2 DEF RenewalStep, Matches
    <3>3. CASE \E i \in Jobs : LeaseLapses(i)
      BY <1>0, <3>1, <3>3 DEF LeaseLapses
    <3>4. CASE \E i \in Jobs : Revive(i)
      BY <1>0, <3>1, <3>4 DEF Revive
    <3>5. CASE \E i \in Jobs, s \in Terminal : Withdraw(i, s)
      BY <1>0, <2>2, <3>5 DEF Withdraw
    <3>6. CASE Sweep
      BY <1>0, <3>1, <3>6 DEF Sweep, Stale
    <3> QED
      BY <1>6, <3>2, <3>3, <3>4, <3>5, <3>6 DEF RowStep
  <2> QED
    BY <2>1, <2>2 DEF DoubtInv, InDoubt
<1> QED
  BY <1>1, <1>2, <1>3, <1>4, <1>5, <1>6, NextSplit DEF ClaimStep, DoubtStep

\* The rows in doubt are pending and each belongs to one claim transaction.
LEMMA DoubtCorrect == Spec => []DoubtInv
<1>1. Init => DoubtInv
  BY DEF Init, DoubtInv, InDoubt
<1> QED
  BY <1>1, DoubtInvStep, TypeCorrect, PTL DEF Spec

\* The property TerminalStays, step by step.
SettledStays ==
  \A j \in Jobs :
    row[j].status \in Terminal /\ row'[j].status # row[j].status =>
      /\ j \in Revivable
      /\ row[j].status = "dead"
      /\ row'[j].status = "pending"

\* No step but the server's requeue changes the status of a settled row.
LEMMA SettledStep == TypeOK /\ DoubtInv /\ [Next]_vars => SettledStays
<1> SUFFICES ASSUME TypeOK, DoubtInv, [Next]_vars,
                    NEW j \in Jobs, row[j].status \in Terminal,
                    row'[j].status # row[j].status
             PROVE  /\ j \in Revivable
                    /\ row[j].status = "dead"
                    /\ row'[j].status = "pending"
  BY DEF SettledStays
<1>0. /\ row \in [Jobs -> Row]
      /\ row[j].status # "processing"
      /\ row[j].status # "pending"
      /\ j \notin InDoubt
  BY DEF TypeOK, Terminal, DoubtInv
<1>1. CASE StatementStep
  <2>1. PICK r \in Outcomes : Apply(r)
    BY <1>1, StatementApplies
  <2>2. r.job \in Jobs
    BY <2>1, OutcomesType DEF Write
  <2> QED
    BY <1>0, <2>1, <2>2, ApplySpares
<1>2. CASE DecideStep \/ MemoryStep \/ UNCHANGED vars
  BY <1>2 DEF DecideStep, MemoryStep, Decide, BeginTick, EmptyClaim, Crash,
              FlushFails, OutcomeFails, vars
<1>3. ASSUME NEW w \in Workers, NEW p \in Pollers, NEW S \in SUBSET Jobs,
             Claim(w, p, S) \/ ClaimFails(w, p, S)
      PROVE  FALSE
  <2>1. \A i \in S : row[i].status = "pending"
    BY <1>3, ClaimTakes DEF Claim, ClaimFails
  <2> QED
    BY <1>0, <1>3, <2>1 DEF Claim, ClaimFails
<1>4. ASSUME NEW S \in doubt, DoubtCommits(S) \/ DoubtRollsBack(S)
      PROVE  FALSE
  <2>1. j \notin S
    BY <1>0 DEF InDoubt
  <2> QED
    BY <1>4, <2>1 DEF DoubtCommits, DoubtRollsBack
<1>5. CASE RowStep
  <2>1. ASSUME RenewalStep
        PROVE  FALSE
    BY <1>0, <2>1 DEF RenewalStep, Matches
  <2>2. ASSUME NEW i \in Jobs, LeaseLapses(i)
        PROVE  FALSE
    BY <1>0, <2>2 DEF LeaseLapses
  <2>3. ASSUME NEW i \in Jobs, NEW s \in Terminal, Withdraw(i, s)
        PROVE  FALSE
    BY <1>0, <2>3 DEF Withdraw
  <2>4. ASSUME Sweep
        PROVE  FALSE
    BY <1>0, <2>4 DEF Sweep, Stale
  <2>5. ASSUME NEW i \in Jobs, Revive(i)
        PROVE  /\ j \in Revivable
               /\ row[j].status = "dead"
               /\ row'[j].status = "pending"
    <3>1. i = j
      BY <1>0, <2>5 DEF Revive
    <3>2. row'[j].status = "pending"
      <4>1. row' = [row EXCEPT ![j] = [row[j] EXCEPT !.status = "pending",
                                                     !.attempts = 0]]
        BY <1>0, <2>5, <3>1 DEF Revive
      <4>2. row[j] \in Row
        BY <1>0
      <4> QED
        BY <1>0, <4>1, <4>2 DEF Row
    <3> QED
      BY <2>5, <3>1, <3>2 DEF Revive
  <2> QED
    BY <1>5, <2>1, <2>2, <2>3, <2>4, <2>5 DEF RowStep
<1> QED
  BY <1>1, <1>2, <1>3, <1>4, <1>5, NextSplit DEF ClaimStep, DoubtStep

\* A completed row is never touched again, and a dead one only by the
\* server's requeue, however late a worker's statement is executed.
THEOREM SettledRowsStay == Spec => TerminalStays
<1>1. TypeOK /\ DoubtInv /\ [Next]_vars => [SettledStays]_vars
  BY SettledStep
<1>2. Spec => [][SettledStays]_vars
  BY <1>1, TypeCorrect, DoubtCorrect, PTL DEF Spec
<1> QED
  BY <1>2 DEF TerminalStays, SettledStays

-----------------------------------------------------------------------------
(* A settled row earned it *)

\* Every outcome still to be written was decided by a delivery of that claim.
EarnedInv ==
  \A r \in Outcomes :
    \E v \in verdicts :
      /\ v.job = r.job
      /\ v.att = r.att
      /\ v.clm = r.clm
      /\ r.out = OutcomeOf(v.res, v.att)

\* Deciding an outcome and doubting a claim are the only ways a new outcome
\* statement appears.
LEMMA OutcomesShrink ==
  ASSUME TypeOK,
         \/ StatementStep \/ DoubtStep \/ MemoryStep \/ RowStep
         \/ UNCHANGED vars
         \/ \E w \in Workers, p \in Pollers, S \in SUBSET Jobs : Claim(w, p, S)
  PROVE  Outcomes' \subseteq Outcomes
<1> SUFFICES ASSUME NEW r \in Outcomes'
             PROVE  r \in Outcomes
  OBVIOUS
<1>0. /\ pendingRecoveries \in [Workers -> SUBSET Write]
      /\ snapshot \in [Workers -> SUBSET Write]
      /\ \A d \in deliveries : d.worker \in Workers
  BY DEF TypeOK, Delivery
<1>1. ASSUME NEW w \in Workers, NEW q \in snapshot[w], FlushLands(w, q)
      PROVE  r \in Outcomes
  BY <1>0, <1>1, OutcomesMember DEF FlushLands, Retire
<1>2. ASSUME NEW d \in deliveries, OutcomeLands(d)
      PROVE  r \in Outcomes
  BY <1>0, <1>2, OutcomesMember DEF OutcomeLands, Retire
<1>3. ASSUME NEW q \in limbo, LimboLands(q)
      PROVE  r \in Outcomes
  BY <1>3, OutcomesMember DEF LimboLands
<1>4. CASE DoubtStep
  BY <1>4, OutcomesMember DEF DoubtStep, DoubtCommits, DoubtRollsBack
<1>5. ASSUME NEW w \in Workers, BeginTick(w)
      PROVE  r \in Outcomes
  BY <1>0, <1>5, OutcomesMember DEF BeginTick
<1>6. ASSUME NEW w \in Workers, EmptyClaim(w)
      PROVE  r \in Outcomes
  BY <1>6, OutcomesMember DEF EmptyClaim
<1>7. ASSUME NEW w \in Workers, Crash(w)
      PROVE  r \in Outcomes
  BY <1>0, <1>7, OutcomesMember DEF Crash
<1>8. ASSUME NEW w \in Workers, NEW q \in snapshot[w], FlushFails(w, q)
      PROVE  r \in Outcomes
  BY <1>0, <1>8, OutcomesMember DEF FlushFails
<1>9. ASSUME NEW d \in deliveries, OutcomeFails(d)
      PROVE  r \in Outcomes
  <2>1. WriteOf(d) \in Outcomes
    BY <1>9, OutcomesMember DEF OutcomeFails
  <2>2. Store(d.worker, WriteOf(d)) \subseteq
          pendingRecoveries[d.worker] \cup {WriteOf(d)}
    BY DEF Store
  <2> QED
    BY <1>0, <1>9, <2>1, <2>2, OutcomesMember DEF OutcomeFails
<1>10. CASE RowStep
  <2>1. CASE \E j \in Jobs : LeaseLapses(j)
    <3>1. PICK j \in Jobs : LeaseLapses(j)
      BY <2>1
    <3>2. ASSUME NEW d \in deliveries
          PROVE  /\ [d EXCEPT !.lapsed = TRUE].phase = d.phase
                 /\ WriteOf([d EXCEPT !.lapsed = TRUE]) = WriteOf(d)
      <4>1. d \in Delivery
        BY DEF TypeOK
      <4> QED
        BY <4>1 DEF Delivery, WriteOf
    <3>3. ASSUME NEW e \in deliveries', e.phase = "write", r = WriteOf(e)
          PROVE  r \in Outcomes
      <4>1. PICK d \in deliveries :
              e = IF d \in Owner(j) THEN [d EXCEPT !.lapsed = TRUE] ELSE d
        BY <3>1, <3>3 DEF LeaseLapses
      <4>2. d.phase = "write" /\ r = WriteOf(d)
        BY <3>2, <3>3, <4>1
      <4> QED
        BY <4>2, OutcomesMember
    <3> QED
      BY <3>1, <3>3, OutcomesMember DEF LeaseLapses
  <2>2. CASE ~ \E j \in Jobs : LeaseLapses(j)
    <3>1. UNCHANGED <<deliveries, limbo, pendingRecoveries, snapshot>>
      BY <1>10, <2>2 DEF RowStep, RenewalStep, Revive, Withdraw, Sweep
    <3> QED
      BY <3>1, OutcomesMember
  <2> QED
    BY <2>1, <2>2
<1>11. CASE UNCHANGED vars
  BY <1>11, OutcomesMember DEF vars
<1>12. ASSUME NEW w \in Workers, NEW p \in Pollers, NEW S \in SUBSET Jobs,
              Claim(w, p, S)
       PROVE  r \in Outcomes
  <2>1. \A d \in deliveries' : d \in deliveries \/ d.phase = "run"
    BY <1>12 DEF Claim, NewDelivery
  <2> QED
    BY <1>12, <2>1, OutcomesMember DEF Claim
<1> QED
  BY <1>1, <1>2, <1>3, <1>4, <1>5, <1>6, <1>7, <1>8, <1>9, <1>10, <1>11, <1>12
     DEF StatementStep, MemoryStep

\* A verdict is never lost, though a crash forgets whose it was.
LEMMA VerdictsKept ==
  ASSUME TypeOK, [Next]_vars
  PROVE  \A v \in verdicts : \E u \in verdicts' :
           u.job = v.job /\ u.att = v.att /\ u.clm = v.clm /\ u.res = v.res
<1> TAKE v \in verdicts
<1>1. CASE \E w \in Workers : Crash(w)
  <2>1. PICK w \in Workers : Crash(w)
    BY <1>1
  <2>2. v \in Verdict
    BY DEF TypeOK
  <2> DEFINE u == IF v.worker = w THEN [v EXCEPT !.worker = NoWorker] ELSE v
  <2>3. u \in verdicts'
    BY <2>1 DEF Crash
  <2>4. u.job = v.job /\ u.att = v.att /\ u.clm = v.clm /\ u.res = v.res
    BY <2>2 DEF Verdict
  <2> QED
    BY <2>3, <2>4
<1>2. CASE ~ \E w \in Workers : Crash(w)
  <2>1. verdicts \subseteq verdicts'
    BY <1>2, NextSplit
       DEF StatementStep, DecideStep, ClaimStep, DoubtStep, MemoryStep, RowStep,
           vars, FlushLands, OutcomeLands, LimboLands, Decide, Claim,
           ClaimFails, DoubtCommits, DoubtRollsBack, BeginTick, EmptyClaim,
           FlushFails, OutcomeFails, RenewalStep, LeaseLapses, Revive, Withdraw, Sweep
  <2> QED
    BY <2>1
<1> QED
  BY <1>1, <1>2

\* Every outcome still to be written keeps the verdict it comes from.
LEMMA EarnedStep == TypeOK /\ EarnedInv /\ [Next]_vars => EarnedInv'
<1> SUFFICES ASSUME TypeOK, EarnedInv, [Next]_vars, NEW r \in Outcomes'
             PROVE  \E v \in verdicts' :
                      /\ v.job = r.job
                      /\ v.att = r.att
                      /\ v.clm = r.clm
                      /\ r.out = OutcomeOf(v.res, v.att)
  BY DEF EarnedInv, OutcomeOf
<1>1. CASE r \in Outcomes
  <2>1. PICK v \in verdicts : /\ v.job = r.job
                              /\ v.att = r.att
                              /\ v.clm = r.clm
                              /\ r.out = OutcomeOf(v.res, v.att)
    BY <1>1 DEF EarnedInv
  <2>2. PICK u \in verdicts' : /\ u.job = v.job
                               /\ u.att = v.att
                               /\ u.clm = v.clm
                               /\ u.res = v.res
    BY VerdictsKept
  <2> QED
    BY <2>1, <2>2
<1>2. CASE r \notin Outcomes
  <2>1. DecideStep \/ \E w \in Workers, p \in Pollers, S \in SUBSET Jobs :
                        ClaimFails(w, p, S)
    BY <1>2, OutcomesShrink, NextSplit DEF ClaimStep
  <2>2. ASSUME NEW d \in deliveries, NEW res \in Result, Decide(d, res)
        PROVE  \E v \in verdicts' :
                 /\ v.job = r.job
                 /\ v.att = r.att
                 /\ v.clm = r.clm
                 /\ r.out = OutcomeOf(v.res, v.att)
    <3> DEFINE e == [d EXCEPT !.phase = "write", !.out = OutcomeOf(res, d.att)]
               v == [worker |-> d.worker, job |-> d.job, att |-> d.att,
                     clm |-> d.clm, res |-> res]
    <3>1. r = WriteOf(e)
      BY <1>2, <2>2, OutcomesMember DEF Decide
    <3>2. /\ e.job = d.job
          /\ e.att = d.att
          /\ e.clm = d.clm
          /\ e.out = OutcomeOf(res, d.att)
      <4>1. d \in Delivery
        BY DEF TypeOK
      <4> QED
        BY <4>1 DEF Delivery
    <3>3. v \in verdicts'
      BY <2>2 DEF Decide
    <3> QED
      BY <3>1, <3>2, <3>3 DEF WriteOf
  <2>3. ASSUME NEW w \in Workers, NEW p \in Pollers, NEW S \in SUBSET Jobs,
               ClaimFails(w, p, S)
        PROVE  \E v \in verdicts' :
                 /\ v.job = r.job
                 /\ v.att = r.att
                 /\ v.clm = r.clm
                 /\ r.out = OutcomeOf(v.res, v.att)
    <3>1. PICK j \in S \ Unregistered :
            r = WriteOf(NewDelivery(w, j, "write",
                                    OutcomeOf("unsure", row[j].attempts + 1)))
      BY <1>2, <2>3, OutcomesMember DEF ClaimFails
    <3> DEFINE v == [worker |-> w, job |-> j, att |-> row[j].attempts + 1,
                     clm |-> claims[j] + 1, res |-> "unsure"]
    <3>2. v \in verdicts'
      BY <2>3 DEF ClaimFails
    <3>3. /\ r.job = j
          /\ r.att = row[j].attempts + 1
          /\ r.clm = claims[j] + 1
          /\ r.out = OutcomeOf("unsure", row[j].attempts + 1)
      BY <3>1 DEF WriteOf, NewDelivery
    <3> QED
      BY <3>2, <3>3
  <2> QED
    BY <2>1, <2>2, <2>3 DEF DecideStep
<1> QED
  BY <1>1, <1>2

\* Every outcome still to be written was decided by its own claim.
LEMMA EarnedCorrect == Spec => []EarnedInv
<1>1. Init => EarnedInv
  BY OutcomesMember DEF Init, EarnedInv
<1> QED
  BY <1>1, EarnedStep, TypeCorrect, PTL DEF Spec

\* What a decided outcome says of the ending it comes from.
LEMMA OutcomeMeans ==
  ASSUME NEW res \in Result, NEW att \in Nat
  PROVE  /\ OutcomeOf(res, att) = "completed" => res = "returned"
         /\ OutcomeOf(res, att) = "dead" =>
              res = "rejected" \/ (res = "threw" /\ att >= MaxAttempts)
BY DEF OutcomeOf, Result

\* A claim settles a row only when nobody handles its type.
LEMMA ClaimedStatus ==
  ASSUME row \in [Jobs -> Row], NEW j \in Jobs, NEW n
  PROVE  Claimed(j, n).status =
           IF j \in Unregistered THEN "dead" ELSE "processing"
<1>1. row[j] \in Row
  OBVIOUS
<1> QED
  BY <1>1 DEF Claimed, Row

\* A row that settles in a step does so by a decided outcome, or is excepted.
LEMMA SettlesBy ==
  ASSUME TypeOK, DoubtInv, [Next]_vars,
         NEW j \in Jobs \ Withdrawable,
         row'[j].status \in Terminal, row'[j].status # row[j].status,
         row'[j].status = "dead" => j \notin Unregistered
  PROVE  \E r \in Outcomes : r.job = j /\ row'[j].status = r.out
<1>0. row \in [Jobs -> Row] /\ j \in Jobs
  BY DEF TypeOK
<1> USE DEF Terminal
<1>1. CASE StatementStep
  <2>1. PICK r \in Outcomes : Apply(r)
    BY <1>1, StatementApplies
  <2>2. Matches(r) /\ r.job = j /\ r.job \in Jobs
    BY <1>0, <2>1, OutcomesType DEF Apply, Write
  <2>3. row'[j] = Written(r) /\ row[j] \in Row
    BY <1>0, <2>1, <2>2 DEF Apply
  <2>4. row'[j].status = IF r.out = "deferred" THEN "pending" ELSE r.out
    BY <2>2, <2>3 DEF Written, StatusOf, Row
  <2> QED
    BY <2>1, <2>2, <2>4 DEF Terminal
<1>2. CASE DecideStep \/ MemoryStep \/ UNCHANGED vars
  BY <1>2 DEF DecideStep, MemoryStep, Decide, BeginTick, EmptyClaim, Crash,
              FlushFails, OutcomeFails, vars
<1>3. ASSUME NEW w \in Workers, NEW p \in Pollers, NEW S \in SUBSET Jobs,
             Claim(w, p, S) \/ ClaimFails(w, p, S)
      PROVE  FALSE
  <2>1. row'[j] = row[j] \/ row'[j] = Claimed(j, claims[j] + 1)
    BY <1>0, <1>3 DEF Claim, ClaimFails
  <2> QED
    BY <1>0, <2>1, ClaimedStatus
<1>4. ASSUME NEW S \in doubt, DoubtCommits(S) \/ DoubtRollsBack(S)
      PROVE  FALSE
  <2>1. row'[j] = row[j] \/ row'[j] = Claimed(j, claims[j])
    BY <1>0, <1>4 DEF DoubtCommits, DoubtRollsBack
  <2> QED
    BY <1>0, <2>1, ClaimedStatus
<1>5. CASE RowStep
  <2>1. ASSUME RenewalStep
        PROVE  row'[j].status = row[j].status
    <3>1. PICK r : \/ row' = row
                   \/ row' = [row EXCEPT ![r.job] = [row[r.job] EXCEPT !.lapsed = FALSE]]
      BY <2>1 DEF RenewalStep
    <3>2. row[j] \in Row
      BY <1>0
    <3>3. [row[j] EXCEPT !.lapsed = FALSE].status = row[j].status
      BY <3>2 DEF Row
    <3> QED
      BY <1>0, <3>1, <3>3
  <2>2. ASSUME NEW i \in Jobs, LeaseLapses(i)
        PROVE  row'[j].status = row[j].status
    <3>1. row' = [row EXCEPT ![i] = [row[i] EXCEPT !.lapsed = TRUE]]
      BY <2>2 DEF LeaseLapses
    <3>2. row[j] \in Row
      BY <1>0
    <3>3. [row[j] EXCEPT !.lapsed = TRUE].status = row[j].status
      BY <3>2 DEF Row
    <3> QED
      BY <1>0, <3>1, <3>3
  <2>3. ASSUME NEW i \in Jobs, NEW s \in Terminal, Withdraw(i, s)
        PROVE  FALSE
    BY <1>0, <2>3 DEF Withdraw
  <2>4. ASSUME Sweep
        PROVE  FALSE
    <3>1. row'[j] = IF Stale(j) THEN [row[j] EXCEPT !.status = "pending",
                                                    !.lapsed = FALSE]
                    ELSE row[j]
      BY <1>0, <2>4 DEF Sweep
    <3>2. row[j] \in Row
      BY <1>0
    <3>3. [row[j] EXCEPT !.status = "pending", !.lapsed = FALSE].status = "pending"
      BY <3>2 DEF Row
    <3> QED
      BY <3>1, <3>3 DEF Terminal
  <2>5. ASSUME NEW i \in Jobs, Revive(i)
        PROVE  FALSE
    <3>1. row' = [row EXCEPT ![i] = [row[i] EXCEPT !.status = "pending",
                                                   !.attempts = 0]]
      BY <1>0, <2>5 DEF Revive
    <3>2. row[j] \in Row
      BY <1>0
    <3>3. [row[j] EXCEPT !.status = "pending", !.attempts = 0].status = "pending"
      BY <3>2 DEF Row
    <3> QED
      BY <1>0, <3>1, <3>3 DEF Terminal
  <2> QED
    BY <1>5, <2>1, <2>2, <2>3, <2>4, <2>5 DEF RowStep
<1> QED
  BY <1>1, <1>2, <1>3, <1>4, <1>5, NextSplit DEF ClaimStep, DoubtStep

\* A step keeps every settled row earned.
LEMMA VerdictEarnedStep ==
  TypeOK /\ DoubtInv /\ EarnedInv /\ VerdictEarned /\ [Next]_vars
    => VerdictEarned'
<1> SUFFICES ASSUME TypeOK, DoubtInv, EarnedInv, VerdictEarned, [Next]_vars,
                    NEW j \in Jobs \ Withdrawable
             PROVE  /\ row'[j].status = "completed" =>
                         \E v \in verdicts' : v.job = j /\ v.res = "returned"
                    /\ row'[j].status = "dead" /\ j \notin Unregistered =>
                         \E v \in verdicts' :
                           /\ v.job = j
                           /\ \/ v.res = "rejected"
                              \/ v.res = "threw" /\ v.att >= MaxAttempts
  BY DEF VerdictEarned
<1>1. CASE row'[j].status = row[j].status
  BY <1>1, VerdictsKept DEF VerdictEarned
<1>2. CASE /\ row'[j].status # row[j].status
           /\ row'[j].status = "dead" => j \notin Unregistered
  <2> SUFFICES ASSUME row'[j].status \in Terminal
               PROVE  \E v \in verdicts' :
                        /\ v.job = j
                        /\ row'[j].status = "completed" => v.res = "returned"
                        /\ row'[j].status = "dead" =>
                             \/ v.res = "rejected"
                             \/ v.res = "threw" /\ v.att >= MaxAttempts
    BY DEF Terminal
  <2>1. PICK r \in Outcomes : r.job = j /\ row'[j].status = r.out
    BY <1>2, SettlesBy
  <2>2. PICK v \in verdicts : /\ v.job = r.job
                              /\ r.out = OutcomeOf(v.res, v.att)
    BY <2>1 DEF EarnedInv
  <2>3. v.res \in Result /\ v.att \in Nat
    BY DEF TypeOK, Verdict
  <2>4. PICK u \in verdicts' : /\ u.job = v.job
                               /\ u.att = v.att
                               /\ u.res = v.res
    BY VerdictsKept
  <2> QED
    BY <2>1, <2>2, <2>3, <2>4, OutcomeMeans
<1> QED
  BY <1>1, <1>2

\* Whatever writes are lost, replayed or landed late, a row is completed only
\* after a handler of that job returned, and dead only after one was rejected
\* or failed on its last attempt (VerdictEarned): at-least-once execution.
THEOREM SettledWorkWasDone == Spec => []VerdictEarned
<1>1. Init => VerdictEarned
  BY DEF Init, VerdictEarned
<1> QED
  BY <1>1, VerdictEarnedStep, TypeCorrect, DoubtCorrect, EarnedCorrect, PTL
     DEF Spec

-----------------------------------------------------------------------------
(* Fencing.  The attempts value names a claim as long as no value that is   *)
(* still on a statement is given back.                                      *)

\* A row is held by a claim that committed, or by one in doubt.
Held(j) == row[j].status = "processing" \/ j \in InDoubt

\* Statements carry values up to that of the last claim, and while that claim
\* holds the row the value is its alone.
TokenInv ==
  \A r \in Tokens :
    /\ r.job \notin Unregistered
    /\ r.clm <= claims[r.job]
    /\ r.job \notin slipped =>
         /\ r.att <= Top(r.job)
         /\ Held(r.job) /\ r.att = Top(r.job) => r.clm = claims[r.job]

\* A row in 'processing' is held by its last claim.
HolderInv ==
  \A j \in Jobs \ InDoubt :
    row[j].status = "processing" => row[j].clm = claims[j]

FenceInv == TokenInv /\ HolderInv

\* The invariant gives the property.
LEMMA FenceInvFences == TypeOK /\ DoubtInv /\ FenceInv => Fenced
<1> SUFFICES ASSUME TypeOK, DoubtInv, FenceInv,
                    NEW r \in Tokens,
                    r.job \notin slipped,
                    Matches(r)
             PROVE  row[r.job].clm = r.clm
  BY DEF Fenced
<1>1. r.job \in Jobs
  BY OutcomesType DEF Write, Tokens
<1>2. r.job \notin InDoubt /\ Held(r.job)
  BY DEF Matches, DoubtInv, Held
<1>3. r.att = Top(r.job)
  BY <1>2 DEF Top, Matches
<1> QED
  BY <1>1, <1>2, <1>3 DEF FenceInv, TokenInv, HolderInv, Matches

\* A job that slipped stays on record.
LEMMA SlippedGrows ==
  ASSUME [Next]_vars
  PROVE  slipped \subseteq slipped'
BY NextSplit
   DEF StatementStep, DecideStep, ClaimStep, DoubtStep, MemoryStep, RowStep,
       vars, FlushLands, OutcomeLands, LimboLands, Decide, Claim, ClaimFails,
       DoubtCommits, DoubtRollsBack, BeginTick, EmptyClaim, Crash, FlushFails,
       OutcomeFails, RenewalStep, LeaseLapses, Revive, Withdraw, Sweep, Slips

\* Only a claim puts a new token into circulation.
LEMMA TokensKept ==
  ASSUME TypeOK, [Next]_vars, ~ ClaimStep, NEW r \in Tokens'
  PROVE  \E q \in Tokens : q.job = r.job /\ q.att = r.att /\ q.clm = r.clm
<1>1. CASE r \in Outcomes
  BY <1>1 DEF Tokens
<1>2. CASE DecideStep
  <2>1. PICK d \in deliveries, res \in Result : Decide(d, res)
    BY <1>2 DEF DecideStep
  <2> DEFINE e == [d EXCEPT !.phase = "write", !.out = OutcomeOf(res, d.att)]
  <2>2. /\ e.job = d.job
        /\ e.att = d.att
        /\ e.clm = d.clm
        /\ e.phase = "write"
    <3>1. d \in Delivery
      BY DEF TypeOK
    <3> QED
      BY <3>1 DEF Delivery
  <2>3. WriteOf(d) \in Tokens
    BY <2>1, RenewalsMember DEF Tokens, Decide
  <2>4. r \in Tokens \/ r = WriteOf(e)
    <3>1. CASE r \in Outcomes'
      BY <2>1, <3>1, OutcomesMember DEF Decide, Tokens
    <3>2. CASE r \in Renewals'
      BY <2>1, <2>2, <3>2, RenewalsMember DEF Decide, Tokens
    <3> QED
      BY <3>1, <3>2 DEF Tokens
  <2> QED
    BY <2>2, <2>3, <2>4 DEF WriteOf
<1>3. CASE r \notin Outcomes /\ ~ DecideStep
  <2>1. r \in Renewals'
    BY <1>3, OutcomesShrink, NextSplit DEF Tokens
  <2> SUFFICES ASSUME r \notin strays'
               PROVE  \E q \in Tokens : q.job = r.job /\ q.att = r.att /\ q.clm = r.clm
    BY StraysFrom DEF Tokens
  <2>2. PICK e \in deliveries' : e.phase = "run" /\ r = WriteOf(e)
    BY <2>1, RenewalsMember
  <2>3. CASE e \in deliveries
    BY <2>2, <2>3, RenewalsMember DEF Tokens
  <2>4. CASE e \notin deliveries
    <3>1. PICK j \in Jobs : LeaseLapses(j)
      BY <1>3, <2>4, NextSplit
         DEF StatementStep, DoubtStep, MemoryStep, RowStep, vars, FlushLands,
             OutcomeLands, LimboLands, DoubtCommits, DoubtRollsBack, BeginTick,
             EmptyClaim, Crash, FlushFails, OutcomeFails, RenewalStep, Revive,
             Withdraw, Sweep
    <3>2. PICK d \in deliveries : e = [d EXCEPT !.lapsed = TRUE]
      BY <2>4, <3>1 DEF LeaseLapses
    <3>3. d.phase = "run" /\ WriteOf(e) = WriteOf(d)
      <4>1. d \in Delivery
        BY DEF TypeOK
      <4> QED
        BY <2>2, <3>2, <4>1 DEF Delivery, WriteOf
    <3> QED
      BY <2>2, <3>3, RenewalsMember DEF Tokens
  <2> QED
    BY <2>3, <2>4
<1> QED
  BY <1>1, <1>2, <1>3

\* What the statements and the row edits leave of a row: whose claim it is on,
\* and its attempts, unless a deferral or a requeue moves them back.
LEMMA RowKept ==
  ASSUME TypeOK, StatementStep \/ RowStep, NEW j \in Jobs
  PROVE  /\ row'[j].clm = row[j].clm
         /\ row'[j].status = "processing" => row[j].status = "processing"
         /\ \/ row'[j].attempts = row[j].attempts
            \/ /\ row'[j].attempts < row[j].attempts
               /\ row[j].status # "pending"
               /\ row'[j].status = "pending"
               /\ Slips
<1>0. row \in [Jobs -> Row] /\ row[j] \in Row
  BY DEF TypeOK
<1>1. CASE row'[j] = row[j]
  BY <1>1
<1>2. CASE StatementStep /\ row'[j] # row[j]
  <2>1. PICK r \in Outcomes : Apply(r)
    BY <1>2, StatementApplies
  <2>2. Matches(r) /\ r.job = j /\ r.out \in Outcome
    BY <1>0, <1>2, <2>1, OutcomesType DEF Apply, Write
  <2>3. row'[j] = Written(r)
    BY <1>0, <2>1, <2>2 DEF Apply
  <2>4. CASE r.out = "deferred"
    <3>1. row'[j] = [row[j] EXCEPT !.status = "pending",
                                   !.attempts = row[j].attempts - 1,
                                   !.lapsed = FALSE]
      BY <2>2, <2>3, <2>4 DEF Written, StatusOf
    <3>2. Slips
      BY <1>2 DEF StatementStep, FlushLands, OutcomeLands, LimboLands
    <3>3. row[j].attempts \in Nat /\ row[j].status = "processing"
      BY <1>0, <2>2 DEF Row, Matches
    <3>4. /\ row'[j].status = "pending"
          /\ row'[j].attempts = row[j].attempts - 1
          /\ row'[j].clm = row[j].clm
      BY <1>0, <3>1 DEF Row
    <3> QED
      BY <3>2, <3>3, <3>4
  <2>5. CASE r.out # "deferred"
    <3>1. row'[j] = [row[j] EXCEPT !.status = r.out,
                                   !.attempts = row[j].attempts,
                                   !.lapsed = FALSE]
      BY <2>2, <2>3, <2>5 DEF Written, StatusOf
    <3>2. r.out # "processing"
      BY <2>2 DEF Outcome
    <3> QED
      BY <1>0, <3>1, <3>2 DEF Row
  <2> QED
    BY <2>4, <2>5
<1>3. CASE RowStep /\ row'[j] # row[j]
  <2>1. ASSUME RenewalStep
        PROVE  row'[j] = [row[j] EXCEPT !.lapsed = FALSE]
    <3>1. PICK r : \/ row' = row
                   \/ row' = [row EXCEPT ![r.job] = [row[r.job] EXCEPT !.lapsed = FALSE]]
      BY <2>1 DEF RenewalStep
    <3> QED
      BY <1>0, <1>3, <3>1
  <2>2. ASSUME NEW i \in Jobs, LeaseLapses(i)
        PROVE  row'[j] = [row[j] EXCEPT !.lapsed = TRUE]
    <3>1. row' = [row EXCEPT ![i] = [row[i] EXCEPT !.lapsed = TRUE]]
      BY <2>2 DEF LeaseLapses
    <3> QED
      BY <1>0, <1>3, <3>1
  <2>3. ASSUME NEW i \in Jobs, NEW s \in Terminal, Withdraw(i, s)
        PROVE  row'[j] = [row[j] EXCEPT !.status = s]
    <3>1. row' = [row EXCEPT ![i] = [row[i] EXCEPT !.status = s]]
      BY <2>3 DEF Withdraw
    <3> QED
      BY <1>0, <1>3, <3>1
  <2>4. ASSUME Sweep
        PROVE  row'[j] = [row[j] EXCEPT !.status = "pending", !.lapsed = FALSE]
    BY <1>0, <1>3, <2>4 DEF Sweep
  <2>5. ASSUME NEW i \in Jobs, Revive(i)
        PROVE  /\ row'[j] = [row[j] EXCEPT !.status = "pending", !.attempts = 0]
               /\ row[j].status = "dead"
               /\ Slips
    <3>1. row' = [row EXCEPT ![i] = [row[i] EXCEPT !.status = "pending",
                                                   !.attempts = 0]]
      BY <1>0, <2>5 DEF Revive
    <3>2. i = j
      BY <1>0, <1>3, <3>1
    <3> QED
      BY <1>0, <2>5, <3>1, <3>2 DEF Revive
  <2>6. /\ [row[j] EXCEPT !.lapsed = FALSE].clm = row[j].clm
        /\ [row[j] EXCEPT !.lapsed = FALSE].status = row[j].status
        /\ [row[j] EXCEPT !.lapsed = FALSE].attempts = row[j].attempts
        /\ [row[j] EXCEPT !.lapsed = TRUE].clm = row[j].clm
        /\ [row[j] EXCEPT !.lapsed = TRUE].status = row[j].status
        /\ [row[j] EXCEPT !.lapsed = TRUE].attempts = row[j].attempts
    BY <1>0 DEF Row
  <2>7. ASSUME NEW s \in Terminal
        PROVE  /\ [row[j] EXCEPT !.status = s].clm = row[j].clm
               /\ [row[j] EXCEPT !.status = s].status # "processing"
               /\ [row[j] EXCEPT !.status = s].attempts = row[j].attempts
    BY <1>0 DEF Row, Terminal
  <2>8. LET swept == [row[j] EXCEPT !.status = "pending", !.lapsed = FALSE]
        IN  /\ swept.clm = row[j].clm
            /\ swept.status # "processing"
            /\ swept.attempts = row[j].attempts
    BY <1>0 DEF Row
  <2>9. LET revived == [row[j] EXCEPT !.status = "pending", !.attempts = 0]
        IN  /\ revived.clm = row[j].clm
            /\ revived.status = "pending"
            /\ revived.attempts = 0
    BY <1>0 DEF Row
  <2>10. row[j].attempts = 0 \/ 0 < row[j].attempts
    BY <1>0 DEF Row
  <2> QED
    BY <1>3, <2>1, <2>2, <2>3, <2>4, <2>5, <2>6, <2>7, <2>8, <2>9, <2>10 DEF RowStep
<1> QED
  BY <1>1, <1>2, <1>3

\* What a claim does to the highest attempts value of each job.
LEMMA ClaimTop ==
  ASSUME TypeOK, DoubtInv,
         NEW w \in Workers, NEW p \in Pollers, NEW S \in SUBSET Jobs,
         Claim(w, p, S) \/ ClaimFails(w, p, S), NEW j \in Jobs
  PROVE  /\ j \in S => claims'[j] = claims[j] + 1
         /\ j \in S \ Unregistered =>
              /\ Top(j) = row[j].attempts
              /\ Top(j)' = row[j].attempts + 1
         /\ j \notin S => Top(j)' = Top(j) /\ claims'[j] = claims[j]
<1>0. S \cap InDoubt = {}
  BY ClaimTakes DEF Claim, ClaimFails
<1>1. /\ j \in S => claims'[j] = claims[j] + 1
      /\ j \notin S => claims'[j] = claims[j]
  BY DEF Claim, ClaimFails, ClaimBatch
<1>2. CASE Claim(w, p, S)
  <2>1. InDoubt' = InDoubt
    BY <1>2 DEF Claim, InDoubt
  <2>2. j \notin S => row'[j] = row[j]
    BY <1>2 DEF Claim
  <2>3. j \in S \ Unregistered => row'[j].attempts = row[j].attempts + 1
    BY <1>2 DEF Claim, Claimed
  <2> QED
    BY <1>0, <1>1, <2>1, <2>2, <2>3 DEF Top
<1>3. CASE ClaimFails(w, p, S)
  <2>1. InDoubt' = InDoubt \cup S
    BY <1>3 DEF ClaimFails, InDoubt
  <2>2. row' = row
    BY <1>3 DEF ClaimFails
  <2> QED
    BY <1>0, <1>1, <2>1, <2>2 DEF Top
<1> QED
  BY <1>2, <1>3

\* Nothing else takes hold of a row or raises the value of its last claim; what
\* lowers it lets go of the row and minds the statements that carry it.
LEMMA TopFalls ==
  ASSUME TypeOK, DoubtInv, [Next]_vars, ~ ClaimStep
  PROVE  /\ claims' = claims
         /\ \A j \in Jobs : Held(j)' => Held(j)
         /\ \A j \in Jobs \ Unregistered :
              \/ Top(j)' = Top(j)
              \/ Top(j)' < Top(j) /\ Slips /\ ~ Held(j)'
<1>0. /\ row \in [Jobs -> Row]
      /\ doubt \subseteq SUBSET Jobs
  BY DEF TypeOK
<1>1. CASE StatementStep \/ RowStep
  <2>1. claims' = claims /\ InDoubt' = InDoubt
    BY <1>1 DEF StatementStep, RowStep, FlushLands, OutcomeLands, LimboLands,
                RenewalStep, LeaseLapses, Revive, Withdraw, Sweep, InDoubt
  <2>2. \A j \in Jobs : row'[j].status = "processing" => row[j].status = "processing"
    BY <1>1, RowKept
  <2>3. ASSUME NEW j \in Jobs, row'[j].attempts # row[j].attempts
        PROVE  Top(j)' < Top(j) /\ Slips /\ ~ Held(j)'
    <3>1. /\ row'[j].attempts < row[j].attempts
          /\ row[j].status # "pending"
          /\ row'[j].status = "pending"
          /\ Slips
      BY <1>1, <2>3, RowKept
    <3>2. j \notin InDoubt
      BY <3>1 DEF DoubtInv
    <3> QED
      BY <2>1, <3>1, <3>2 DEF Top, Held
  <2> QED
    BY <2>1, <2>2, <2>3 DEF Top, Held
<1>2. CASE DecideStep \/ MemoryStep \/ UNCHANGED vars
  <2>1. claims' = claims /\ row' = row /\ InDoubt' = InDoubt
    BY <1>2 DEF DecideStep, MemoryStep, Decide, BeginTick, EmptyClaim, Crash,
                FlushFails, OutcomeFails, vars, InDoubt
  <2> QED
    BY <2>1 DEF Top, Held
<1>3. ASSUME NEW S \in doubt, DoubtCommits(S) \/ DoubtRollsBack(S)
      PROVE  /\ claims' = claims
             /\ \A j \in Jobs : Held(j)' => Held(j)
             /\ \A j \in Jobs \ Unregistered :
                  \/ Top(j)' = Top(j)
                  \/ Top(j)' < Top(j) /\ Slips /\ ~ Held(j)'
  <2>1. claims' = claims
    BY <1>3 DEF DoubtCommits, DoubtRollsBack
  <2>2. \A j \in Jobs : j \in InDoubt' <=> j \in InDoubt /\ j \notin S
    BY <1>0, <1>3 DEF DoubtCommits, DoubtRollsBack, InDoubt, DoubtInv
  <2>3. /\ S \subseteq InDoubt
        /\ \A j \in S : row[j].status = "pending"
    BY DEF InDoubt, DoubtInv
  <2>4. \A j \in Jobs \ S : row'[j] = row[j]
    BY <1>3 DEF DoubtCommits, DoubtRollsBack
  <2>5. \A j \in Jobs : Held(j)' => Held(j)
    BY <2>2, <2>3, <2>4 DEF Held
  <2>6. \A j \in Jobs \ S : Top(j)' = Top(j)
    BY <2>2, <2>4 DEF Top
  <2>7. ASSUME NEW j \in S, j \in Jobs \ Unregistered, DoubtCommits(S)
        PROVE  Top(j)' = Top(j)
    <3>1. row'[j].attempts = row[j].attempts + 1
      BY <1>0, <2>7 DEF DoubtCommits, Claimed
    <3> QED
      BY <2>2, <2>3, <2>7, <3>1 DEF Top
  <2>8. ASSUME NEW j \in S, j \in Jobs, DoubtRollsBack(S)
        PROVE  Top(j)' < Top(j) /\ Slips /\ ~ Held(j)'
    <3>1. row' = row /\ Slips
      BY <2>8 DEF DoubtRollsBack
    <3>2. row[j].attempts \in Nat
      BY <1>0, <2>8 DEF Row
    <3> QED
      BY <2>2, <2>3, <2>8, <3>1, <3>2 DEF Top, Held
  <2> QED
    BY <1>3, <2>1, <2>5, <2>6, <2>7, <2>8
<1> QED
  BY <1>1, <1>2, <1>3, NextSplit DEF DoubtStep

\* Of a job that does not slip, no statement carries a value given back.
LEMMA GivenBack ==
  ASSUME TypeOK, TypeOK', Slips, NEW r \in Tokens',
         r.job \notin slipped', Top(r.job)' < Top(r.job)
  PROVE  r.att <= Top(r.job)'
<1>1. /\ r.job \in Jobs
      /\ r.att \in Nat
  <2>1. r \in Write
    <3>1. \A d \in deliveries' : WriteOf(d) \in Write
      BY WriteOfType DEF TypeOK
    <3> QED
      BY <3>1, OutcomesMember, RenewalsMember DEF TypeOK, Tokens
  <2> QED
    BY <2>1 DEF Write
<1>2. Top(r.job)' \in Nat
  BY <1>1 DEF TypeOK, Top, Row
<1>3. ~ (r.att > Top(r.job)')
  BY <1>1 DEF Slips
<1> QED
  BY <1>1, <1>2, <1>3

\* What a claim puts into circulation.
LEMMA ClaimTokens ==
  ASSUME TypeOK,
         NEW w \in Workers, NEW p \in Pollers, NEW S \in SUBSET Jobs,
         Claim(w, p, S) \/ ClaimFails(w, p, S),
         NEW r \in Tokens', r \notin Tokens
  PROVE  /\ r.job \in S \ Unregistered
         /\ r.att = row[r.job].attempts + 1
         /\ r.clm = claims[r.job] + 1
<1>1. PICK d \in deliveries' : r = WriteOf(d) /\ d \notin deliveries
  <2>1. UNCHANGED <<limbo, strays, pendingRecoveries, snapshot>>
    BY DEF Claim, ClaimFails
  <2> QED
    BY <2>1, OutcomesMember, RenewalsMember DEF Tokens
<1>2. PICK j \in S \ Unregistered :
            \E ph, out : d = NewDelivery(w, j, ph, out)
  BY <1>1 DEF Claim, ClaimFails
<1> QED
  BY <1>1, <1>2 DEF NewDelivery, WriteOf

LEMMA TokenStep ==
  ASSUME TypeOK, TypeOK', DoubtInv, FenceInv, [Next]_vars
  PROVE  TokenInv'
<1> SUFFICES ASSUME NEW r \in Tokens'
             PROVE  /\ r.job \notin Unregistered
                    /\ r.clm <= claims'[r.job]
                    /\ r.job \notin slipped' =>
                         /\ r.att <= Top(r.job)'
                         /\ Held(r.job)' /\ r.att = Top(r.job)' =>
                              r.clm = claims'[r.job]
  BY DEF TokenInv
<1>0. ASSUME NEW q \in Tokens
      PROVE  /\ q.job \in Jobs
             /\ q.att \in Nat
             /\ q.clm \in Nat
             /\ row[q.job].attempts \in Nat
             /\ claims[q.job] \in Nat
             /\ q.job \notin Unregistered
             /\ q.clm <= claims[q.job]
             /\ q.job \notin slipped =>
                  /\ q.att <= Top(q.job)
                  /\ Held(q.job) /\ q.att = Top(q.job) => q.clm = claims[q.job]
  <2>1. q \in Write
    BY OutcomesType DEF Tokens
  <2>2. q.job \in Jobs /\ q.att \in Nat /\ q.clm \in Nat
    BY <2>1 DEF Write
  <2>3. row[q.job].attempts \in Nat /\ claims[q.job] \in Nat
    BY <2>2 DEF TypeOK, Row
  <2> QED
    BY <2>2, <2>3 DEF FenceInv, TokenInv
<1>1. CASE ~ ClaimStep
  <2>1. PICK q \in Tokens : q.job = r.job /\ q.att = r.att /\ q.clm = r.clm
    BY <1>1, TokensKept
  <2>2. /\ claims' = claims
        /\ Held(r.job)' => Held(r.job)
        /\ \/ Top(r.job)' = Top(r.job)
           \/ Top(r.job)' < Top(r.job) /\ Slips /\ ~ Held(r.job)'
    BY <1>0, <1>1, <2>1, TopFalls
  <2>3. r.job \notin slipped' => r.job \notin slipped
    BY SlippedGrows
  <2>4. CASE Top(r.job)' = Top(r.job)
    BY <1>0, <2>1, <2>2, <2>3, <2>4
  <2>5. CASE Top(r.job)' < Top(r.job) /\ Slips /\ ~ Held(r.job)'
    BY <1>0, <2>1, <2>2, <2>5, GivenBack
  <2> QED
    BY <2>2, <2>4, <2>5
<1>2. ASSUME NEW w \in Workers, NEW p \in Pollers, NEW S \in SUBSET Jobs,
             Claim(w, p, S) \/ ClaimFails(w, p, S)
      PROVE  /\ r.job \notin Unregistered
             /\ r.clm <= claims'[r.job]
             /\ r.job \notin slipped' =>
                  /\ r.att <= Top(r.job)'
                  /\ Held(r.job)' /\ r.att = Top(r.job)' =>
                       r.clm = claims'[r.job]
  <2>0. slipped' = slipped
    BY <1>2 DEF Claim, ClaimFails
  <2>1. CASE r \in Tokens
    <3>1. /\ r.job \in S => claims'[r.job] = claims[r.job] + 1
          /\ r.job \in S \ Unregistered =>
               /\ Top(r.job) = row[r.job].attempts
               /\ Top(r.job)' = row[r.job].attempts + 1
          /\ r.job \notin S =>
               Top(r.job)' = Top(r.job) /\ claims'[r.job] = claims[r.job]
      BY <1>0, <1>2, <2>1, ClaimTop
    <3>2. r.job \notin S => (Held(r.job)' => Held(r.job))
      BY <1>0, <1>2, <2>1 DEF Claim, ClaimFails, Held, InDoubt
    <3> QED
      BY <1>0, <2>0, <2>1, <3>1, <3>2
  <2>2. CASE r \notin Tokens
    <3>1. /\ r.job \in S \ Unregistered
          /\ r.att = row[r.job].attempts + 1
          /\ r.clm = claims[r.job] + 1
      BY <1>2, <2>2, ClaimTokens
    <3>2. /\ claims'[r.job] = claims[r.job] + 1
          /\ Top(r.job)' = row[r.job].attempts + 1
      BY <1>2, <3>1, ClaimTop
    <3>3. row[r.job].attempts \in Nat /\ claims[r.job] \in Nat
      BY <3>1 DEF TypeOK, Row
    <3> QED
      BY <3>1, <3>2, <3>3
  <2> QED
    BY <2>1, <2>2
<1> QED
  BY <1>1, <1>2 DEF ClaimStep

LEMMA HolderStep ==
  ASSUME TypeOK, DoubtInv, FenceInv, [Next]_vars
  PROVE  HolderInv'
<1> SUFFICES ASSUME NEW j \in Jobs, j \notin InDoubt',
                    row'[j].status = "processing"
             PROVE  row'[j].clm = claims'[j]
  BY DEF HolderInv
<1>0. /\ row \in [Jobs -> Row]
      /\ j \notin InDoubt /\ row[j].status = "processing" =>
           row[j].clm = claims[j]
  BY DEF TypeOK, FenceInv, HolderInv
<1>1. CASE StatementStep \/ RowStep
  <2>1. claims' = claims /\ InDoubt' = InDoubt
    BY <1>1 DEF StatementStep, RowStep, FlushLands, OutcomeLands, LimboLands,
                RenewalStep, LeaseLapses, Revive, Withdraw, Sweep, InDoubt
  <2> QED
    BY <1>0, <1>1, <2>1, RowKept
<1>2. CASE DecideStep \/ MemoryStep \/ UNCHANGED vars
  <2>1. claims' = claims /\ row' = row /\ InDoubt' = InDoubt
    BY <1>2 DEF DecideStep, MemoryStep, Decide, BeginTick, EmptyClaim, Crash,
                FlushFails, OutcomeFails, vars, InDoubt
  <2> QED
    BY <1>0, <2>1
<1>3. ASSUME NEW w \in Workers, NEW p \in Pollers, NEW S \in SUBSET Jobs,
             Claim(w, p, S)
      PROVE  row'[j].clm = claims'[j]
  <2>1. InDoubt' = InDoubt
    BY <1>3 DEF Claim, InDoubt
  <2>2. CASE j \in S
    <3>1. claims'[j] = claims[j] + 1 /\ row'[j] = Claimed(j, claims[j] + 1)
      BY <1>3, <2>2 DEF Claim, ClaimBatch
    <3>2. Claimed(j, claims[j] + 1).clm = claims[j] + 1
      BY <1>0 DEF Claimed, Row
    <3> QED
      BY <3>1, <3>2
  <2>3. CASE j \notin S
    <3>1. claims'[j] = claims[j] /\ row'[j] = row[j]
      BY <1>3, <2>3 DEF Claim, ClaimBatch
    <3> QED
      BY <1>0, <2>1, <3>1
  <2> QED
    BY <2>2, <2>3
<1>4. ASSUME NEW w \in Workers, NEW p \in Pollers, NEW S \in SUBSET Jobs,
             ClaimFails(w, p, S)
      PROVE  row'[j].clm = claims'[j]
  <2>1. InDoubt' = InDoubt \cup S /\ row' = row
    BY <1>4 DEF ClaimFails, InDoubt
  <2>2. claims'[j] = claims[j]
    BY <1>4, <2>1 DEF ClaimFails, ClaimBatch
  <2> QED
    BY <1>0, <2>1, <2>2
<1>5. ASSUME NEW S \in doubt, DoubtCommits(S) \/ DoubtRollsBack(S)
      PROVE  row'[j].clm = claims'[j]
  <2>1. claims' = claims
    BY <1>5 DEF DoubtCommits, DoubtRollsBack
  <2>2. CASE j \in S
    <3>1. row[j].status = "pending"
      BY <2>2 DEF DoubtInv, InDoubt
    <3>2. row'[j] = Claimed(j, claims[j])
      BY <1>5, <2>2, <3>1 DEF DoubtCommits, DoubtRollsBack
    <3>3. Claimed(j, claims[j]).clm = claims[j]
      BY <1>0 DEF Claimed, Row
    <3> QED
      BY <2>1, <3>2, <3>3
  <2>3. CASE j \notin S
    <3>1. row'[j] = row[j] /\ j \notin InDoubt
      BY <1>5, <2>3 DEF DoubtCommits, DoubtRollsBack, InDoubt
    <3> QED
      BY <1>0, <2>1, <3>1
  <2> QED
    BY <2>2, <2>3
<1> QED
  BY <1>1, <1>2, <1>3, <1>4, <1>5, NextSplit DEF ClaimStep, DoubtStep

\* The fencing invariant is inductive.
LEMMA FenceCorrect == Spec => []FenceInv
<1>1. Init => FenceInv
  BY OutcomesMember, RenewalsMember
     DEF Init, FenceInv, TokenInv, HolderInv, Tokens
<1>2. TypeOK /\ TypeOK' /\ DoubtInv /\ FenceInv /\ [Next]_vars => FenceInv'
  BY TokenStep, HolderStep DEF FenceInv
<1> QED
  BY <1>1, <1>2, TypeCorrect, DoubtCorrect, PTL DEF Spec

\* Fencing: no statement about a claim - however long it was kept or given up on -
\* can take effect on a later claim of the same row, unless attempts slipped
\* (Fenced).
THEOREM ClaimsAreFenced == Spec => []Fenced
BY FenceCorrect, FenceInvFences, TypeCorrect, DoubtCorrect, PTL

-----------------------------------------------------------------------------
(* Leases exclude *)

\* The statements that outlived their delivery: given up on, to be replayed, or
\* being replayed.
Kept == limbo \cup Intents \cup Flushing

\* A claim has one delivery, which ends before a statement about it is kept; no
\* statement names a claim that was never made.
RunInv ==
  /\ \A r \in Tokens : r.clm <= claims[r.job]
  /\ \A d \in deliveries, e \in deliveries : d.job = e.job /\ d.clm = e.clm => e = d
  /\ \A d \in deliveries, r \in Kept : r.job = d.job => r.clm # d.clm

\* A running delivery whose lease never lapsed, of a job that did not slip, holds
\* its row.
LeaseInv ==
  \A d \in deliveries :
    d.job \notin slipped /\ d.phase = "run" /\ ~ d.lapsed =>
      /\ row[d.job].status = "processing"
      /\ row[d.job].clm = d.clm
      /\ ~ row[d.job].lapsed

LEMMA KeptMember ==
  ASSUME NEW r
  PROVE  /\ r \in Kept <=> (\/ r \in limbo
                            \/ \E w \in Workers : r \in pendingRecoveries[w]
                            \/ \E w \in Workers : r \in snapshot[w])
         /\ r \in Kept' <=> (\/ r \in limbo'
                             \/ \E w \in Workers : r \in pendingRecoveries'[w]
                             \/ \E w \in Workers : r \in snapshot'[w])
<1>1. /\ r \in Intents <=> \E w \in Workers : r \in pendingRecoveries[w]
      /\ r \in Flushing <=> \E w \in Workers : r \in snapshot[w]
  BY DEF Intents, Flushing
<1>2. /\ r \in Intents' <=> \E w \in Workers : r \in pendingRecoveries'[w]
      /\ r \in Flushing' <=> \E w \in Workers : r \in snapshot'[w]
  BY DEF Intents, Flushing
<1> QED
  BY <1>1, <1>2 DEF Kept

\* An outcome statement is kept, or being attempted.
LEMMA OutcomesSplit ==
  ASSUME NEW r \in Outcomes
  PROVE  r \in Kept \/ \E d \in deliveries : d.phase = "write" /\ r = WriteOf(d)
BY OutcomesMember, KeptMember

\* What the invariant says of a delivery that runs: nothing has been decided yet.
LEMMA RunsAlone ==
  ASSUME RunInv, NEW d \in deliveries, d.phase = "run", NEW r \in Outcomes,
         r.job = d.job
  PROVE  r.clm # d.clm
<1>1. CASE r \in Kept
  BY <1>1 DEF RunInv
<1>2. ASSUME NEW e \in deliveries, e.phase = "write", r = WriteOf(e)
      PROVE  r.clm # d.clm
  <2>1. e.job = r.job /\ e.clm = r.clm
    BY <1>2 DEF WriteOf
  <2> QED
    BY <1>2, <2>1 DEF RunInv
<1> QED
  BY <1>1, <1>2, OutcomesSplit

\* Only a write that fails makes a statement one that is kept.
LEMMA KeptFrom ==
  ASSUME TypeOK, [Next]_vars, NEW r \in Kept', r \notin Kept
  PROVE  \E e \in deliveries : OutcomeFails(e) /\ r = WriteOf(e)
<1>0. /\ pendingRecoveries \in [Workers -> SUBSET Write]
      /\ snapshot \in [Workers -> SUBSET Write]
      /\ \A d \in deliveries : d.worker \in Workers
  BY DEF TypeOK, Delivery
<1>1. ASSUME NEW w \in Workers, NEW q \in snapshot[w], FlushLands(w, q)
      PROVE  FALSE
  BY <1>0, <1>1, KeptMember DEF FlushLands, Retire
<1>2. ASSUME NEW d \in deliveries, OutcomeLands(d)
      PROVE  FALSE
  BY <1>0, <1>2, KeptMember DEF OutcomeLands, Retire
<1>3. ASSUME NEW q \in limbo, LimboLands(q)
      PROVE  FALSE
  BY <1>3, KeptMember DEF LimboLands
<1>4. ASSUME NEW w \in Workers, BeginTick(w)
      PROVE  FALSE
  BY <1>0, <1>4, KeptMember DEF BeginTick
<1>5. ASSUME NEW w \in Workers, Crash(w)
      PROVE  FALSE
  BY <1>0, <1>5, KeptMember DEF Crash
<1>6. ASSUME NEW w \in Workers, NEW q \in snapshot[w], FlushFails(w, q)
      PROVE  FALSE
  BY <1>0, <1>6, KeptMember DEF FlushFails
<1>7. ASSUME NEW e \in deliveries, OutcomeFails(e)
      PROVE  r = WriteOf(e)
  <2>1. Store(e.worker, WriteOf(e)) \subseteq
          pendingRecoveries[e.worker] \cup {WriteOf(e)}
    BY DEF Store
  <2> QED
    BY <1>0, <1>7, <2>1, KeptMember DEF OutcomeFails
<1>8. ASSUME UNCHANGED <<limbo, pendingRecoveries, snapshot>>
      PROVE  FALSE
  BY <1>8, KeptMember
<1>9. \/ StatementStep \/ MemoryStep
      \/ UNCHANGED <<limbo, pendingRecoveries, snapshot>>
  BY NextSplit
     DEF DecideStep, ClaimStep, DoubtStep, RowStep, vars, Decide, Claim, ClaimFails,
         DoubtCommits, DoubtRollsBack, RenewalStep, LeaseLapses, Revive, Withdraw, Sweep
<1>10. ASSUME NEW w \in Workers, EmptyClaim(w)
       PROVE  FALSE
  BY <1>8, <1>10 DEF EmptyClaim
<1> QED
  BY <1>1, <1>2, <1>3, <1>4, <1>5, <1>6, <1>7, <1>8, <1>9, <1>10
     DEF StatementStep, MemoryStep

LEMMA RunStep ==
  ASSUME TypeOK, DoubtInv, RunInv, [Next]_vars
  PROVE  RunInv'
<1>0. /\ \A d \in deliveries : d \in Delivery /\ d.job \in Jobs /\ d.clm \in Nat
      /\ \A d \in deliveries : d.clm <= claims[d.job]
      /\ \A j \in Jobs : claims[j] \in Nat
      /\ \A r \in Tokens : r.job \in Jobs /\ r.clm \in Nat
  <2>1. \A d \in deliveries : d \in Delivery /\ d.phase \in {"run", "write"}
    BY DEF TypeOK, Delivery
  <2>2. \A d \in deliveries : WriteOf(d).job = d.job /\ WriteOf(d).clm = d.clm
    BY DEF WriteOf
  <2>3. \A d \in deliveries : WriteOf(d) \in Tokens
    BY <2>1, OutcomesMember, RenewalsMember DEF Tokens
  <2>4. \A d \in deliveries : d.job \in Jobs /\ d.clm \in Nat
    BY <2>1 DEF Delivery
  <2>5. \A r \in Tokens : r.job \in Jobs /\ r.clm \in Nat
    BY OutcomesType DEF Tokens, Write
  <2> QED
    BY <2>1, <2>2, <2>3, <2>4, <2>5 DEF RunInv, TypeOK
<1>1. CASE ~ ClaimStep
  <2>1. claims' = claims
    BY <1>1, NextSplit
       DEF StatementStep, DecideStep, DoubtStep, MemoryStep, RowStep, vars, Decide,
           FlushLands, OutcomeLands, LimboLands, DoubtCommits, DoubtRollsBack,
           BeginTick, EmptyClaim, Crash, FlushFails, OutcomeFails, RenewalStep,
           LeaseLapses, Revive, Withdraw, Sweep
  <2>2. \A r \in Tokens' : r.clm <= claims'[r.job]
    BY <1>1, <2>1, TokensKept DEF RunInv
  <2>3. CASE DecideStep
    <3>1. PICK d \in deliveries, res \in Result : Decide(d, res)
      BY <2>3 DEF DecideStep
    <3>2. PICK e : e = [d EXCEPT !.phase = "write", !.out = OutcomeOf(res, d.att)]
      OBVIOUS
    <3>3. e.job = d.job /\ e.clm = d.clm
      BY <1>0, <3>2 DEF Delivery
    <3>4. deliveries' = (deliveries \ {d}) \cup {e} /\ \A r \in Kept' : r \in Kept
      BY <3>1, <3>2, KeptMember DEF Decide
    <3> QED
      BY <2>2, <3>1, <3>3, <3>4 DEF RunInv
  <2>4. CASE \E j \in Jobs : LeaseLapses(j)
    <3>1. PICK j \in Jobs : LeaseLapses(j)
      BY <2>4
    <3> DEFINE f(d) == IF d \in Owner(j) THEN [d EXCEPT !.lapsed = TRUE] ELSE d
    <3>2. deliveries' = {f(d) : d \in deliveries}
      BY <3>1 DEF LeaseLapses
    <3>3. \A d \in deliveries : f(d).job = d.job /\ f(d).clm = d.clm
      BY <1>0 DEF Delivery
    <3>4. \A r \in Kept' : r \in Kept
      BY <3>1, KeptMember DEF LeaseLapses
    <3> HIDE DEF f
    <3> QED
      BY <2>2, <3>2, <3>3, <3>4 DEF RunInv
  <2>5. ASSUME NEW e \in deliveries, OutcomeFails(e)
        PROVE  RunInv'
    <3>1. deliveries' = deliveries \ {e}
      BY <2>5 DEF OutcomeFails
    <3>2. ASSUME NEW r \in Kept', r \notin Kept
          PROVE  r = WriteOf(e)
      <4>1. PICK x \in deliveries : OutcomeFails(x) /\ r = WriteOf(x)
        BY <3>2, KeptFrom
      <4>2. x = e
        BY <3>1, <4>1 DEF OutcomeFails
      <4> QED
        BY <4>1, <4>2
    <3>3. WriteOf(e).job = e.job /\ WriteOf(e).clm = e.clm
      BY DEF WriteOf
    <3> QED
      BY <2>2, <2>5, <3>1, <3>2, <3>3 DEF RunInv
  <2>6. CASE /\ ~ DecideStep
             /\ ~ \E j \in Jobs : LeaseLapses(j)
             /\ ~ \E e \in deliveries : OutcomeFails(e)
    <3>1. deliveries' \subseteq deliveries
      BY <1>1, <2>6, NextSplit
         DEF StatementStep, DoubtStep, MemoryStep, RowStep, vars, FlushLands,
             OutcomeLands, LimboLands, DoubtCommits, DoubtRollsBack, BeginTick,
             EmptyClaim, Crash, FlushFails, RenewalStep, Revive, Withdraw, Sweep
    <3>2. \A r \in Kept' : r \in Kept
      BY <2>6, KeptFrom
    <3> QED
      BY <2>2, <3>1, <3>2 DEF RunInv
  <2> QED
    BY <2>3, <2>4, <2>5, <2>6
<1>2. ASSUME NEW w \in Workers, NEW p \in Pollers, NEW S \in SUBSET Jobs,
             Claim(w, p, S) \/ ClaimFails(w, p, S)
      PROVE  RunInv'
  <2>1. \A j \in Jobs :
          claims'[j] = IF j \in S THEN claims[j] + 1 ELSE claims[j]
    BY <1>2 DEF Claim, ClaimFails, ClaimBatch
  <2>2. \A r \in Kept' : r \in Kept /\ r \in Tokens
    <3>1. \A r \in Kept' : r \in Kept
      BY <1>2, KeptMember DEF Claim, ClaimFails
    <3> QED
      BY <3>1, OutcomesMember, KeptMember DEF Tokens
  <2>3. \A r \in Tokens' : r.clm <= claims'[r.job]
    <3> TAKE r \in Tokens'
    <3>1. CASE r \in Tokens
      BY <1>0, <2>1, <3>1 DEF RunInv
    <3>2. CASE r \notin Tokens
      <4>1. r.job \in S /\ r.clm = claims[r.job] + 1
        BY <1>2, <3>2, ClaimTokens
      <4> QED
        BY <1>0, <2>1, <4>1
    <3> QED
      BY <3>1, <3>2
  <2>4. ASSUME NEW d \in deliveries', d \notin deliveries
        PROVE  d.job \in S /\ d.clm = claims[d.job] + 1
    BY <1>2, <2>4 DEF Claim, ClaimFails, NewDelivery
  <2>5. ASSUME NEW d \in deliveries', d \notin deliveries,
               NEW e \in deliveries', e \notin deliveries, e.job = d.job
        PROVE  e = d
    <3>1. CASE Claim(w, p, S)
      <4> DEFINE N(j) == NewDelivery(w, j, "run", "completed")
      <4>1. deliveries' = deliveries \cup {N(j) : j \in S \ Unregistered}
        BY <3>1 DEF Claim
      <4>2. \A j \in Jobs : N(j).job = j
        BY DEF NewDelivery
      <4> HIDE DEF N
      <4> QED
        BY <2>5, <4>1, <4>2
    <3>2. CASE ClaimFails(w, p, S)
      <4> DEFINE N(j) ==
            NewDelivery(w, j, "write", OutcomeOf("unsure", row[j].attempts + 1))
      <4>1. deliveries' = deliveries \cup {N(j) : j \in S \ Unregistered}
        BY <3>2 DEF ClaimFails
      <4>2. \A j \in Jobs : N(j).job = j
        BY DEF NewDelivery
      <4> HIDE DEF N
      <4> QED
        BY <2>5, <4>1, <4>2
    <3> QED
      BY <1>2, <3>1, <3>2
  <2>6. \A d \in deliveries', e \in deliveries' :
          d.job = e.job /\ d.clm = e.clm => e = d
    BY <1>0, <2>1, <2>4, <2>5 DEF RunInv
  <2>7. \A d \in deliveries', r \in Kept' : r.job = d.job => r.clm # d.clm
    BY <1>0, <2>1, <2>2, <2>4 DEF RunInv
  <2> QED
    BY <2>3, <2>6, <2>7 DEF RunInv
<1> QED
  BY <1>1, <1>2 DEF ClaimStep

\* Every delivery runs a claim that was made, alone.
LEMMA RunCorrect == Spec => []RunInv
<1>1. Init => RunInv
  BY OutcomesMember, RenewalsMember, KeptMember DEF Init, RunInv, Tokens
<1>2. TypeOK /\ DoubtInv /\ RunInv /\ [Next]_vars => RunInv'
  BY RunStep
<1> QED
  BY <1>1, <1>2, TypeCorrect, DoubtCorrect, PTL DEF Spec

\* Where statements are fenced, a step takes the row from a running delivery
\* only after its lease lapsed.
LEMMA LeaseStep ==
  ASSUME TypeOK, DoubtInv, RunInv, LeaseInv, Fenced, [Next]_vars
  PROVE  LeaseInv'
<1> SUFFICES ASSUME NEW d \in deliveries', d.job \notin slipped, d.phase = "run",
                    ~ d.lapsed
             PROVE  /\ row'[d.job].status = "processing"
                    /\ row'[d.job].clm = d.clm
                    /\ ~ row'[d.job].lapsed
  BY SlippedGrows DEF LeaseInv
<1>0. row \in [Jobs -> Row]
  BY DEF TypeOK
<1>1. CASE d \notin deliveries
  <2>1. ASSUME NEW w \in Workers, NEW p \in Pollers, NEW S \in SUBSET Jobs,
               Claim(w, p, S)
        PROVE  /\ row'[d.job].status = "processing"
               /\ row'[d.job].clm = d.clm
               /\ ~ row'[d.job].lapsed
    <3>1. PICK j \in S \ Unregistered : d = NewDelivery(w, j, "run", "completed")
      BY <1>1, <2>1 DEF Claim
    <3>2. d.job = j /\ d.clm = claims[j] + 1
      BY <3>1 DEF NewDelivery
    <3>3. row'[j] = [status |-> "processing", attempts |-> row[j].attempts + 1,
                     lapsed |-> FALSE, clm |-> claims[j] + 1]
      BY <2>1, <3>1 DEF Claim, Claimed
    <3> QED
      BY <3>2, <3>3
  <2>2. ASSUME NEW w \in Workers, NEW p \in Pollers, NEW S \in SUBSET Jobs,
               ClaimFails(w, p, S)
        PROVE  FALSE
    BY <1>1, <2>2 DEF ClaimFails, NewDelivery
  <2>3. ASSUME DecideStep
        PROVE  FALSE
    <3>1. PICK e \in deliveries, res \in Result : Decide(e, res)
      BY <2>3 DEF DecideStep
    <3>2. d = [e EXCEPT !.phase = "write", !.out = OutcomeOf(res, e.att)]
      BY <1>1, <3>1 DEF Decide
    <3>3. e \in Delivery
      BY DEF TypeOK
    <3> QED
      BY <3>2, <3>3 DEF Delivery
  <2>4. ASSUME NEW j \in Jobs, LeaseLapses(j)
        PROVE  FALSE
    <3>1. PICK e \in deliveries : d = [e EXCEPT !.lapsed = TRUE]
      BY <1>1, <2>4 DEF LeaseLapses
    <3>2. e \in Delivery
      BY DEF TypeOK
    <3> QED
      BY <3>1, <3>2 DEF Delivery
  <2>5. ClaimStep \/ DecideStep \/ \E j \in Jobs : LeaseLapses(j)
    BY <1>1, NextSplit
       DEF StatementStep, DoubtStep, MemoryStep, RowStep, vars, FlushLands,
           OutcomeLands, LimboLands, DoubtCommits, DoubtRollsBack, BeginTick,
           EmptyClaim, Crash, FlushFails, OutcomeFails, RenewalStep, Revive,
           Withdraw, Sweep
  <2> QED
    BY <2>1, <2>2, <2>3, <2>4, <2>5 DEF ClaimStep
<1>2. CASE d \in deliveries
  <2>0. /\ row[d.job].status = "processing"
        /\ row[d.job].clm = d.clm
        /\ ~ row[d.job].lapsed
        /\ d.job \in Jobs
        /\ d.job \notin InDoubt
    BY <1>2 DEF LeaseInv, TypeOK, Delivery, DoubtInv
  <2> SUFFICES row'[d.job] = row[d.job]
    BY <2>0
  <2>1. CASE StatementStep
    <3>1. PICK r \in Outcomes : Apply(r)
      BY <2>1, StatementApplies
    <3>2. ASSUME Matches(r), r.job = d.job
          PROVE  FALSE
      <4>1. r.clm = row[r.job].clm
        BY <3>2 DEF Fenced, Tokens
      <4> QED
        BY <1>2, <2>0, <3>2, <4>1, RunsAlone
    <3>3. r.job \in Jobs
      BY OutcomesType DEF Write
    <3> QED
      BY <1>0, <2>0, <3>1, <3>2, <3>3 DEF Apply
  <2>2. CASE DecideStep \/ MemoryStep \/ UNCHANGED vars
    BY <2>2 DEF DecideStep, MemoryStep, Decide, BeginTick, EmptyClaim, Crash,
                FlushFails, OutcomeFails, vars
  <2>3. ASSUME NEW w \in Workers, NEW p \in Pollers, NEW S \in SUBSET Jobs,
               Claim(w, p, S) \/ ClaimFails(w, p, S)
        PROVE  row'[d.job] = row[d.job]
    <3>1. d.job \notin S
      BY <2>0, <2>3, ClaimTakes DEF Claim, ClaimFails
    <3> QED
      BY <2>0, <2>3, <3>1 DEF Claim, ClaimFails
  <2>4. ASSUME NEW S \in doubt, DoubtCommits(S) \/ DoubtRollsBack(S)
        PROVE  row'[d.job] = row[d.job]
    <3>1. d.job \notin S
      BY <2>0 DEF InDoubt
    <3> QED
      BY <2>0, <2>4, <3>1 DEF DoubtCommits, DoubtRollsBack
  <2>5. CASE RowStep
    <3>1. ASSUME RenewalStep
          PROVE  row'[d.job] = row[d.job]
      <4>1. PICK r : \/ row' = row
                     \/ row' = [row EXCEPT ![r.job] = [row[r.job] EXCEPT !.lapsed = FALSE]]
        BY <3>1 DEF RenewalStep
      <4>2. [row[d.job] EXCEPT !.lapsed = FALSE] = row[d.job]
        BY <1>0, <2>0 DEF Row
      <4> QED
        BY <1>0, <2>0, <4>1, <4>2
    <3>2. ASSUME NEW j \in Jobs, LeaseLapses(j)
          PROVE  row'[d.job] = row[d.job]
      <4>1. CASE j = d.job
        <5>1. d \in Owner(j)
          BY <1>2, <2>0, <4>1 DEF Owner
        <5>2. PICK e \in deliveries :
                d = IF e \in Owner(j) THEN [e EXCEPT !.lapsed = TRUE] ELSE e
          BY <3>2 DEF LeaseLapses
        <5>3. e \in Owner(j)
          BY <5>1, <5>2
        <5>4. e \in Delivery
          BY DEF TypeOK
        <5> QED
          BY <5>2, <5>3, <5>4 DEF Delivery
      <4>2. CASE j # d.job
        BY <3>2, <4>2 DEF LeaseLapses
      <4> QED
        BY <4>1, <4>2
    <3>3. ASSUME NEW j \in Jobs, NEW s \in Terminal, Withdraw(j, s)
          PROVE  row'[d.job] = row[d.job]
      BY <2>0, <3>3 DEF Withdraw
    <3>4. CASE Sweep
      BY <2>0, <3>4 DEF Sweep, Stale
    <3>5. ASSUME NEW j \in Jobs, Revive(j)
          PROVE  row'[d.job] = row[d.job]
      BY <1>0, <2>0, <3>5 DEF Revive
    <3> QED
      BY <2>5, <3>1, <3>2, <3>3, <3>4, <3>5 DEF RowStep
  <2> QED
    BY <2>1, <2>2, <2>3, <2>4, <2>5, NextSplit DEF ClaimStep, DoubtStep
<1> QED
  BY <1>1, <1>2

\* Leases exclude: a handler that is running under a lease that never lapsed, of a
\* job whose attempts did not slip, holds its row, so no other worker can be running
\* the same job (LeaseHolderOwnsRow).
THEOREM LeasesExclude == Spec => []LeaseHolderOwnsRow
<1>1. Init => LeaseInv
  BY DEF Init, LeaseInv
<1>2. TypeOK /\ DoubtInv /\ RunInv /\ LeaseInv /\ Fenced /\ [Next]_vars => LeaseInv'
  BY LeaseStep
<1>3. LeaseInv => LeaseHolderOwnsRow
  BY DEF LeaseInv, LeaseHolderOwnsRow
<1> QED
  BY <1>1, <1>2, <1>3, TypeCorrect, DoubtCorrect, RunCorrect, ClaimsAreFenced, PTL
     DEF Spec

\* What leases are for: of the handlers that run one job at most one has a lease
\* that never lapsed, unless attempts slipped.
THEOREM OneHandlerPerLease ==
  Spec => [](\A d, e \in deliveries :
               /\ d.job = e.job /\ d.job \notin slipped
               /\ d.phase = "run" /\ ~ d.lapsed
               /\ e.phase = "run" /\ ~ e.lapsed
               => d = e)
<1> DEFINE Exclusive == \A d, e \in deliveries :
                          /\ d.job = e.job /\ d.job \notin slipped
                          /\ d.phase = "run" /\ ~ d.lapsed
                          /\ e.phase = "run" /\ ~ e.lapsed
                          => d = e
<1>1. LeaseHolderOwnsRow /\ RunInv => Exclusive
  <2> SUFFICES ASSUME LeaseHolderOwnsRow, RunInv,
                      NEW d \in deliveries, NEW e \in deliveries,
                      d.job = e.job, d.job \notin slipped,
                      d.phase = "run", ~ d.lapsed, e.phase = "run", ~ e.lapsed
               PROVE  d = e
    OBVIOUS
  <2>1. row[d.job].clm = d.clm /\ row[e.job].clm = e.clm
    BY DEF LeaseHolderOwnsRow
  <2> QED
    BY <2>1 DEF RunInv
<1> QED
  BY <1>1, LeasesExclude, RunCorrect, PTL

-----------------------------------------------------------------------------
(* Outcomes are written verbatim *)

\* A row leaves 'processing' as a statement says that matches it, or swept.
LEMMA LeavesBy ==
  ASSUME TypeOK, DoubtInv, [Next]_vars, NEW j \in Jobs,
         row[j].status = "processing", row'[j].status # "processing"
  PROVE  \/ row[j].lapsed /\ row'[j].status = "pending"
         \/ \E r \in Outcomes : /\ r.job = j
                                /\ Matches(r)
                                /\ row'[j].status = StatusOf(r.out)
<1>0. row \in [Jobs -> Row] /\ row[j] \in Row
  BY DEF TypeOK
<1>1. CASE StatementStep
  <2>1. PICK r \in Outcomes : Apply(r)
    BY <1>1, StatementApplies
  <2>2. Matches(r) /\ r.job = j /\ r.job \in Jobs
    BY <1>0, <2>1, OutcomesType DEF Apply, Write
  <2>3. row'[j] = Written(r)
    BY <1>0, <2>1, <2>2 DEF Apply
  <2>4. row'[j].status = StatusOf(r.out)
    BY <1>0, <2>2, <2>3 DEF Written, Row
  <2> QED
    BY <2>1, <2>2, <2>4
<1>2. CASE DecideStep \/ MemoryStep \/ UNCHANGED vars
  BY <1>2 DEF DecideStep, MemoryStep, Decide, BeginTick, EmptyClaim, Crash,
              FlushFails, OutcomeFails, vars
<1>3. ASSUME NEW w \in Workers, NEW p \in Pollers, NEW S \in SUBSET Jobs,
             Claim(w, p, S) \/ ClaimFails(w, p, S)
      PROVE  FALSE
  <2>1. j \notin S
    BY <1>3, ClaimTakes DEF Claim, ClaimFails
  <2> QED
    BY <1>0, <1>3, <2>1 DEF Claim, ClaimFails
<1>4. ASSUME NEW S \in doubt, DoubtCommits(S) \/ DoubtRollsBack(S)
      PROVE  FALSE
  <2>1. j \notin S
    BY DEF DoubtInv, InDoubt
  <2> QED
    BY <1>0, <1>4, <2>1 DEF DoubtCommits, DoubtRollsBack
<1>5. CASE RowStep
  <2>1. ASSUME RenewalStep
        PROVE  FALSE
    <3>1. PICK r : \/ row' = row
                   \/ row' = [row EXCEPT ![r.job] = [row[r.job] EXCEPT !.lapsed = FALSE]]
      BY <2>1 DEF RenewalStep
    <3>2. [row[j] EXCEPT !.lapsed = FALSE].status = row[j].status
      BY <1>0 DEF Row
    <3> QED
      BY <1>0, <3>1, <3>2
  <2>2. ASSUME NEW i \in Jobs, LeaseLapses(i)
        PROVE  FALSE
    <3>1. row' = [row EXCEPT ![i] = [row[i] EXCEPT !.lapsed = TRUE]]
      BY <2>2 DEF LeaseLapses
    <3>2. [row[j] EXCEPT !.lapsed = TRUE].status = row[j].status
      BY <1>0 DEF Row
    <3> QED
      BY <1>0, <3>1, <3>2
  <2>3. ASSUME NEW i \in Jobs, NEW s \in Terminal, Withdraw(i, s)
        PROVE  FALSE
    BY <1>0, <2>3 DEF Withdraw
  <2>4. ASSUME Sweep
        PROVE  row[j].lapsed /\ row'[j].status = "pending"
    <3>1. row'[j] = IF Stale(j) THEN [row[j] EXCEPT !.status = "pending",
                                                    !.lapsed = FALSE]
                    ELSE row[j]
      BY <1>0, <2>4 DEF Sweep
    <3>2. [row[j] EXCEPT !.status = "pending", !.lapsed = FALSE].status = "pending"
      BY <1>0 DEF Row
    <3> QED
      BY <3>1, <3>2 DEF Stale
  <2>5. ASSUME NEW i \in Jobs, Revive(i)
        PROVE  FALSE
    BY <1>0, <2>5 DEF Revive
  <2> QED
    BY <1>5, <2>1, <2>2, <2>3, <2>4, <2>5 DEF RowStep
<1> QED
  BY <1>1, <1>2, <1>3, <1>4, <1>5, NextSplit DEF ClaimStep, DoubtStep

\* A row leaves 'processing' as the outcome of its own claim says, unchanged by
\* whatever wait, replay or late execution lay in between, or because its lease
\* lapsed, unless attempts slipped (OutcomeVerbatim).
THEOREM OutcomesAreVerbatim == Spec => OutcomeVerbatim
<1> DEFINE Verbatim ==
      \A j \in Jobs \ slipped :
        row[j].status = "processing" /\ row'[j].status # "processing" =>
          \/ row[j].lapsed /\ row'[j].status = "pending"
          \/ \E v \in verdicts :
               /\ v.job = j
               /\ v.clm = row[j].clm
               /\ row'[j].status = StatusOf(OutcomeOf(v.res, v.att))
<1>1. TypeOK /\ DoubtInv /\ EarnedInv /\ Fenced /\ [Next]_vars => Verbatim
  <2> SUFFICES ASSUME TypeOK, DoubtInv, EarnedInv, Fenced, [Next]_vars,
                      NEW j \in Jobs \ slipped,
                      row[j].status = "processing", row'[j].status # "processing",
                      ~ (row[j].lapsed /\ row'[j].status = "pending")
               PROVE  \E v \in verdicts :
                        /\ v.job = j
                        /\ v.clm = row[j].clm
                        /\ row'[j].status = StatusOf(OutcomeOf(v.res, v.att))
    OBVIOUS
  <2>1. PICK r \in Outcomes : /\ r.job = j
                              /\ Matches(r)
                              /\ row'[j].status = StatusOf(r.out)
    BY LeavesBy
  <2>2. row[j].clm = r.clm
    BY <2>1 DEF Fenced, Tokens
  <2>3. PICK v \in verdicts : /\ v.job = r.job
                              /\ v.att = r.att
                              /\ v.clm = r.clm
                              /\ r.out = OutcomeOf(v.res, v.att)
    BY <2>1 DEF EarnedInv
  <2> QED
    BY <2>1, <2>2, <2>3
<1>2. Spec => [][Verbatim]_vars
  BY <1>1, TypeCorrect, DoubtCorrect, EarnedCorrect, ClaimsAreFenced, PTL DEF Spec
<1> QED
  BY <1>2 DEF OutcomeVerbatim

-----------------------------------------------------------------------------
(* How attempts slip *)

\* A statement moves the attempts of a row only as a deferral of its claim.
LEMMA StatementSlips ==
  ASSUME TypeOK, DoubtInv, FenceInv, NEW r \in Outcomes, Apply(r),
         InDoubt' = InDoubt, NEW j \in Jobs \ slipped, Top(j)' < Top(j)
  PROVE  /\ Matches(r) /\ r.job = j
         /\ r.out = "deferred"
         /\ r.clm = row[j].clm
         /\ Top(j) = r.att /\ Top(j)' = r.att - 1
         /\ j \notin InDoubt
<1>0. row \in [Jobs -> Row] /\ row[j] \in Row /\ row[j].attempts \in Nat
  BY DEF TypeOK, Row
<1>1. row'[j].attempts # row[j].attempts
  BY <1>0 DEF Top
<1>2. Matches(r) /\ r.job = j
  BY <1>0, <1>1, OutcomesType DEF Apply, Write
<1>3. row'[j] = Written(r)
  BY <1>0, <1>2 DEF Apply
<1>4. r.out = "deferred" /\ row'[j].attempts = row[j].attempts - 1
  BY <1>0, <1>1, <1>2, <1>3 DEF Written, Row
<1>5. j \notin InDoubt
  BY <1>2 DEF DoubtInv, Matches
<1>6. row[j].attempts = r.att
  BY <1>2 DEF Matches
<1>7. r.clm = row[j].clm
  BY <1>2, FenceInvFences DEF Fenced, Tokens
<1> QED
  BY <1>2, <1>4, <1>5, <1>6, <1>7 DEF Top

\* A deferral of j's current claim is being written while a renewal of it is
\* under way.
DeferredAtOnce(j) ==
  \E r \in Attempted, q \in strays :
    /\ r.job = j /\ r.clm = row[j].clm /\ r.out = "deferred"
    /\ q.job = j /\ q.clm = r.clm

\* A deferral written at once leaves nothing of its claim but renewals under way.
LEMMA WrittenAtOnce ==
  ASSUME TypeOK, TypeOK', DoubtInv, FenceInv, RunInv, [Next]_vars,
         NEW d \in deliveries, OutcomeLands(d),
         NEW j \in slipped' \ slipped
  PROVE  DeferredAtOnce(j)
<1>1. /\ j \in Jobs
      /\ Top(j)' < Top(j)
  BY DEF OutcomeLands, Slips
<1>2. PICK q \in Tokens' : q.job = j /\ q.att > Top(j)'
  BY DEF OutcomeLands, Slips
<1>3. /\ WriteOf(d) \in Outcomes
      /\ Apply(WriteOf(d))
      /\ InDoubt' = InDoubt
  BY OutcomesMember DEF OutcomeLands, InDoubt
<1>4. /\ Matches(WriteOf(d)) /\ WriteOf(d).job = j
      /\ Top(j) = WriteOf(d).att /\ Top(j)' = WriteOf(d).att - 1
      /\ WriteOf(d).out = "deferred" /\ WriteOf(d).clm = row[j].clm
  BY <1>1, <1>3, StatementSlips
<1>5. d.job = j /\ WriteOf(d).clm = d.clm /\ WriteOf(d).att \in Nat
  BY <1>4, WriteOfType DEF TypeOK, WriteOf, Delivery
<1>6. deliveries' = deliveries \ {d}
  BY DEF OutcomeLands
<1>7. \/ q \in Kept
      \/ \E e \in deliveries \ {d} : q = WriteOf(e)
      \/ q \in strays
  <2>0. strays' = strays
    BY DEF OutcomeLands
  <2>1. \/ q \in Kept'
        \/ \E e \in deliveries' : q = WriteOf(e)
        \/ q \in strays'
    BY OutcomesMember, RenewalsMember, KeptMember DEF Tokens
  <2>2. q \in Kept' => q \in Kept
    <3>1. UNCHANGED <<limbo, snapshot>>
      BY DEF OutcomeLands
    <3>2. \A w \in Workers : pendingRecoveries'[w] \subseteq pendingRecoveries[w]
      BY DEF OutcomeLands, Retire, TypeOK, Delivery
    <3> QED
      BY <3>1, <3>2, KeptMember
  <2> QED
    BY <1>6, <2>0, <2>1, <2>2
<1>8. q \in Tokens
  BY <1>7, OutcomesMember, RenewalsMember, KeptMember DEF Tokens, TypeOK, Delivery
<1>9. q.clm = claims[j] /\ d.clm = claims[j]
  <2>1. Held(j)
    BY <1>4 DEF Matches, Held
  <2>2. q.att \in Nat /\ q.att <= Top(j)
    BY <1>2, <1>8, OutcomesType DEF FenceInv, TokenInv, Tokens, Write
  <2>3. q.att = Top(j)
    BY <1>2, <1>4, <1>5, <2>2
  <2> QED
    BY <1>2, <1>3, <1>4, <1>5, <1>8, <2>1, <2>3 DEF FenceInv, TokenInv, Tokens
<1>10. ASSUME q \in Kept
       PROVE  FALSE
  BY <1>2, <1>5, <1>9, <1>10 DEF RunInv
<1>11. ASSUME NEW e \in deliveries \ {d}, q = WriteOf(e)
       PROVE  FALSE
  <2>1. e.job = j /\ e.clm = q.clm
    BY <1>2, <1>11 DEF WriteOf
  <2> QED
    BY <1>5, <1>9, <2>1 DEF RunInv
<1>12. CASE q \in strays
  <2>1. WriteOf(d) \in Attempted
    BY DEF OutcomeLands, Attempted
  <2> QED
    BY <1>2, <1>4, <1>5, <1>9, <1>12, <2>1 DEF DeferredAtOnce
<1> QED
  BY <1>7, <1>10, <1>11, <1>12

\* A deferral of j's current claim had been given up on or kept for replay.
DeferredLate(j) ==
  \E r \in limbo \cup Flushing :
    r.job = j /\ r.clm = row[j].clm /\ r.out = "deferred"

\* A claim of j in doubt rolls back.
RolledBack(j) == j \in InDoubt /\ \E S \in doubt : DoubtRollsBack(S)

\* The four ways attempts slip, step by step.
LEMMA SlipsFrom ==
  ASSUME TypeOK, TypeOK', DoubtInv, FenceInv, RunInv, [Next]_vars,
         NEW j \in slipped' \ slipped
  PROVE  \/ j \in Revivable /\ row[j].status = "dead"
         \/ RolledBack(j)
         \/ DeferredLate(j)
         \/ DeferredAtOnce(j)
<1>1. ASSUME NEW w \in Workers, NEW r \in snapshot[w], FlushLands(w, r)
      PROVE  DeferredLate(j)
  <2>1. /\ r \in Outcomes /\ r \in Flushing
        /\ Apply(r) /\ InDoubt' = InDoubt
    BY <1>1, OutcomesMember DEF FlushLands, Flushing, InDoubt
  <2>2. j \in Jobs /\ Top(j)' < Top(j)
    BY <1>1 DEF FlushLands, Slips
  <2> QED
    BY <2>1, <2>2, StatementSlips DEF DeferredLate
<1>2. ASSUME NEW r \in limbo, LimboLands(r)
      PROVE  DeferredLate(j)
  <2>1. r \in Outcomes /\ Apply(r) /\ InDoubt' = InDoubt
    BY <1>2, OutcomesMember DEF LimboLands, InDoubt
  <2>2. j \in Jobs /\ Top(j)' < Top(j)
    BY <1>2 DEF LimboLands, Slips
  <2> QED
    BY <2>1, <2>2, StatementSlips DEF DeferredLate
<1>3. ASSUME NEW d \in deliveries, OutcomeLands(d)
      PROVE  DeferredAtOnce(j)
  BY <1>3, WrittenAtOnce
<1>4. ASSUME NEW S \in doubt, DoubtRollsBack(S)
      PROVE  RolledBack(j)
  <2>1. Top(j)' < Top(j) /\ row' = row /\ j \in Jobs
    BY <1>4 DEF DoubtRollsBack, Slips
  <2>2. j \in InDoubt' => j \in InDoubt
    BY <1>4 DEF DoubtRollsBack, InDoubt
  <2>3. row[j].attempts \in Nat
    BY <2>1 DEF TypeOK, Row
  <2> QED
    BY <1>4, <2>1, <2>2, <2>3 DEF Top, RolledBack
<1>5. ASSUME NEW i \in Jobs, Revive(i)
      PROVE  j \in Revivable /\ row[j].status = "dead"
  <2>1. Top(j)' < Top(j) /\ InDoubt' = InDoubt /\ j \in Jobs
    BY <1>5 DEF Revive, Slips, InDoubt
  <2>2. row[j].attempts \in Nat
    BY <2>1 DEF TypeOK, Row
  <2>3. row'[j] # row[j]
    BY <2>1, <2>2 DEF Top
  <2>4. i = j
    BY <1>5, <2>1, <2>3 DEF Revive, TypeOK
  <2> QED
    BY <1>5, <2>4 DEF Revive
<1>6. \/ StatementStep
      \/ \E S \in doubt : DoubtRollsBack(S)
      \/ \E i \in Jobs : Revive(i)
  BY NextSplit
     DEF DecideStep, ClaimStep, DoubtStep, MemoryStep, RowStep, vars, Decide,
         Claim, ClaimFails, DoubtCommits, BeginTick, EmptyClaim, Crash,
         FlushFails, OutcomeFails, RenewalStep, LeaseLapses, Withdraw, Sweep
<1> QED
  BY <1>1, <1>2, <1>3, <1>4, <1>5, <1>6 DEF StatementStep

\* Attempts slip in no other way than by the requeue of a dead job, a claim that
\* rolls back, a deferral that had been given up on or kept for replay, or one
\* written at once beside a renewal of its claim that is still under way
\* (SlipsAreExplained).
THEOREM SlipsHaveACause == Spec => SlipsAreExplained
<1> DEFINE Explained ==
      \A j \in slipped' \ slipped :
        \/ j \in Revivable /\ row[j].status = "dead"
        \/ j \in InDoubt
        \/ \E r \in limbo \cup Flushing :
             r.job = j /\ r.clm = row[j].clm /\ r.out = "deferred"
        \/ \E r \in Attempted, q \in strays :
             /\ r.job = j /\ r.clm = row[j].clm /\ r.out = "deferred"
             /\ q.job = j /\ q.clm = r.clm
<1>1. TypeOK /\ TypeOK' /\ DoubtInv /\ FenceInv /\ RunInv /\ [Next]_vars => Explained
  BY SlipsFrom DEF RolledBack, DeferredLate, DeferredAtOnce
<1>2. Spec => [][Explained]_vars
  BY <1>1, TypeCorrect, DoubtCorrect, FenceCorrect, RunCorrect, PTL DEF Spec
<1> QED
  BY <1>2 DEF SlipsAreExplained

\* Only a handler that may defer has a deferral to write.
DeferralsInv ==
  \A v \in verdicts : v.res = "deferred" => v.job \in Deferring

LEMMA DeferralsStep == TypeOK /\ DeferralsInv /\ [Next]_vars => DeferralsInv'
<1> SUFFICES ASSUME TypeOK, DeferralsInv, [Next]_vars,
                    NEW v \in verdicts', v.res = "deferred"
             PROVE  v.job \in Deferring
  BY DEF DeferralsInv
<1>1. CASE DecideStep
  <2>1. PICK d \in deliveries, res \in Result :
          Decide(d, res) /\ (res = "deferred" => d.job \in Deferring)
    BY <1>1 DEF DecideStep
  <2> QED
    BY <2>1 DEF Decide, DeferralsInv
<1>2. CASE ClaimStep
  BY <1>2 DEF ClaimStep, Claim, ClaimFails, DeferralsInv
<1>3. CASE \E w \in Workers : Crash(w)
  <2>1. PICK w \in Workers : Crash(w)
    BY <1>3
  <2>2. PICK u \in verdicts :
          v = IF u.worker = w THEN [u EXCEPT !.worker = NoWorker] ELSE u
    BY <2>1 DEF Crash
  <2>3. u \in Verdict
    BY DEF TypeOK
  <2>4. v.job = u.job /\ v.res = u.res
    BY <2>2, <2>3 DEF Verdict
  <2> QED
    BY <2>4 DEF DeferralsInv
<1>4. CASE ~ (DecideStep \/ ClaimStep \/ \E w \in Workers : Crash(w))
  <2>1. verdicts' = verdicts
    BY <1>4, NextSplit
       DEF StatementStep, DoubtStep, MemoryStep, RowStep, vars, FlushLands,
           OutcomeLands, LimboLands, DoubtCommits, DoubtRollsBack, BeginTick,
           EmptyClaim, FlushFails, OutcomeFails, RenewalStep, LeaseLapses, Revive,
           Withdraw, Sweep
  <2> QED
    BY <2>1 DEF DeferralsInv
<1> QED
  BY <1>1, <1>2, <1>3, <1>4

LEMMA DeferralsCorrect == Spec => []DeferralsInv
<1>1. Init => DeferralsInv
  BY DEF Init, DeferralsInv
<1> QED
  BY <1>1, DeferralsStep, TypeCorrect, PTL DEF Spec

\* Where no claim transaction rolls back, the attempts of a job that neither
\* defers nor is requeued from dead never slip: what the other theorems say of
\* jobs outside slipped, they then say of every such job.
THEOREM SteadyJobsNeverSlip ==
  Spec /\ [][\A S \in doubt : ~ DoubtRollsBack(S)]_vars
  => [](slipped \subseteq Deferring \cup Revivable)
<1> DEFINE Steady == slipped \subseteq Deferring \cup Revivable
           Firm == \A S \in doubt : ~ DoubtRollsBack(S)
           Facts == TypeOK /\ DoubtInv /\ FenceInv /\ RunInv /\ EarnedInv
                    /\ DeferralsInv
<1>1. Init => Steady
  BY DEF Init
<1>2. Facts /\ TypeOK' /\ Steady /\ [Next]_vars /\ [Firm]_vars => Steady'
  <2> SUFFICES ASSUME Facts, TypeOK', Steady, [Next]_vars, [Firm]_vars,
                      NEW j \in slipped', j \notin slipped
               PROVE  j \in Deferring \cup Revivable
    OBVIOUS
  <2>1. Firm
    BY DEF vars
  <2>2. ASSUME NEW r \in limbo \cup Flushing \cup Attempted, r.job = j,
               r.out = "deferred"
        PROVE  j \in Deferring
    <3>1. r \in Outcomes
      BY DEF Outcomes
    <3>2. PICK v \in verdicts : v.job = r.job /\ r.out = OutcomeOf(v.res, v.att)
      BY <3>1 DEF EarnedInv
    <3>3. v.res \in Result
      BY DEF TypeOK, Verdict
    <3>4. v.res = "deferred"
      BY <2>2, <3>2, <3>3 DEF OutcomeOf, Result
    <3> QED
      BY <2>2, <3>2, <3>4 DEF DeferralsInv
  <2> QED
    BY <2>1, <2>2, SlipsFrom DEF RolledBack, DeferredLate, DeferredAtOnce
<1>3. Spec => []Facts
  BY TypeCorrect, DoubtCorrect, FenceCorrect, RunCorrect, EarnedCorrect,
     DeferralsCorrect, PTL
<1> QED
  BY <1>1, <1>2, <1>3, TypeCorrect, PTL DEF Spec

-----------------------------------------------------------------------------
(* Outcomes are remembered *)

\* The converse of TokenInv: every statement and renewal of a row's last claim
\* carries the highest attempts value, so it matches while the claim holds the row.
LastInv ==
  \A r \in Tokens :
    r.job \notin slipped /\ r.clm = claims[r.job] => r.att = Top(r.job)

\* Nothing runs, and nothing but the doubt was decided, under a claim in doubt.
AloneInv ==
  /\ \A v \in verdicts :
       /\ v.clm <= claims[v.job]
       /\ v.job \in InDoubt /\ v.clm = claims[v.job] => v.res = "unsure"
  /\ \A d \in deliveries :
       d.phase = "run" /\ d.job \in InDoubt => d.clm # claims[d.job]

LEMMA LastStep ==
  ASSUME TypeOK, TypeOK', DoubtInv, FenceInv, LastInv, [Next]_vars
  PROVE  LastInv'
<1> SUFFICES ASSUME NEW r \in Tokens', r.job \notin slipped', r.clm = claims'[r.job]
             PROVE  r.att = Top(r.job)'
  BY DEF LastInv
<1>0. /\ r.job \notin slipped
      /\ \A q \in Tokens : /\ q.job \in Jobs \ Unregistered
                           /\ q.att \in Nat
                           /\ q.clm \in Nat
                           /\ q.clm <= claims[q.job]
                           /\ claims[q.job] \in Nat
                           /\ row[q.job].attempts \in Nat
  <2>1. \A q \in Tokens : q \in Write
    BY OutcomesType DEF Tokens
  <2>2. \A q \in Tokens : q.job \in Jobs /\ q.att \in Nat /\ q.clm \in Nat
    BY <2>1 DEF Write
  <2>3. \A q \in Tokens : claims[q.job] \in Nat /\ row[q.job].attempts \in Nat
    BY <2>2 DEF TypeOK, Row
  <2> QED
    BY <2>2, <2>3, SlippedGrows DEF FenceInv, TokenInv
<1>1. CASE ~ ClaimStep
  <2>1. PICK q \in Tokens : q.job = r.job /\ q.att = r.att /\ q.clm = r.clm
    BY <1>1, TokensKept
  <2>2. /\ claims' = claims
        /\ \/ Top(r.job)' = Top(r.job)
           \/ Top(r.job)' < Top(r.job) /\ Slips
    BY <1>0, <1>1, <2>1, TopFalls
  <2>3. q.att = Top(r.job)
    BY <1>0, <2>1, <2>2 DEF LastInv
  <2>4. CASE Top(r.job)' < Top(r.job) /\ Slips
    <3>1. r.att <= Top(r.job)'
      BY <2>4, GivenBack
    <3>2. Top(r.job)' \in Nat
      BY <1>0, <2>1 DEF TypeOK, Top, Row
    <3> QED
      BY <1>0, <2>1, <2>3, <2>4, <3>1, <3>2
  <2> QED
    BY <2>1, <2>2, <2>3, <2>4
<1>2. ASSUME NEW w \in Workers, NEW p \in Pollers, NEW S \in SUBSET Jobs,
             Claim(w, p, S) \/ ClaimFails(w, p, S)
      PROVE  r.att = Top(r.job)'
  <2>1. CASE r \in Tokens
    <3>1. r.job \notin S
      BY <1>0, <1>2, <2>1, ClaimTop
    <3>2. Top(r.job)' = Top(r.job) /\ claims'[r.job] = claims[r.job]
      BY <1>0, <1>2, <2>1, <3>1, ClaimTop
    <3> QED
      BY <1>0, <2>1, <3>2 DEF LastInv
  <2>2. CASE r \notin Tokens
    <3>1. r.job \in S \ Unregistered /\ r.att = row[r.job].attempts + 1
      BY <1>2, <2>2, ClaimTokens
    <3> QED
      BY <1>2, <3>1, ClaimTop
  <2> QED
    BY <2>1, <2>2
<1> QED
  BY <1>1, <1>2 DEF ClaimStep

\* What a step that is no claim can do to the deliveries: one that runs ran.
LEMMA RunsKept ==
  ASSUME TypeOK, [Next]_vars, ~ ClaimStep, NEW d \in deliveries', d.phase = "run"
  PROVE  \E e \in deliveries : e.phase = "run" /\ e.job = d.job /\ e.clm = d.clm
<1>1. CASE d \in deliveries
  BY <1>1
<1>2. CASE DecideStep
  <2>1. PICK e \in deliveries, res \in Result : Decide(e, res)
    BY <1>2 DEF DecideStep
  <2>2. [e EXCEPT !.phase = "write", !.out = OutcomeOf(res, e.att)].phase = "write"
    <3>1. e \in Delivery
      BY DEF TypeOK
    <3> QED
      BY <3>1 DEF Delivery
  <2> QED
    BY <2>1, <2>2 DEF Decide
<1>3. CASE \E j \in Jobs : LeaseLapses(j)
  <2>1. PICK j \in Jobs : LeaseLapses(j)
    BY <1>3
  <2>2. PICK e \in deliveries :
          d = IF e \in Owner(j) THEN [e EXCEPT !.lapsed = TRUE] ELSE e
    BY <2>1 DEF LeaseLapses
  <2>3. e \in Delivery
    BY DEF TypeOK
  <2>4. d.phase = e.phase /\ d.job = e.job /\ d.clm = e.clm
    BY <2>2, <2>3 DEF Delivery
  <2> QED
    BY <2>4
<1>4. CASE d \notin deliveries
  <2>1. DecideStep \/ \E j \in Jobs : LeaseLapses(j)
    BY <1>4, NextSplit
       DEF StatementStep, DoubtStep, MemoryStep, RowStep, vars, FlushLands,
           OutcomeLands, LimboLands, DoubtCommits, DoubtRollsBack, BeginTick,
           EmptyClaim, Crash, FlushFails, OutcomeFails, RenewalStep, Revive,
           Withdraw, Sweep
  <2> QED
    BY <1>2, <1>3, <2>1
<1> QED
  BY <1>1, <1>4

\* Verdicts other than a handler's end come from a claim; the others name the
\* claim of a delivery that ran.
LEMMA VerdictsFrom ==
  ASSUME TypeOK, [Next]_vars, ~ ClaimStep, NEW v \in verdicts'
  PROVE  \/ \E u \in verdicts : u.job = v.job /\ u.clm = v.clm /\ u.res = v.res
         \/ \E d \in deliveries : /\ d.phase = "run"
                                  /\ v.job = d.job
                                  /\ v.clm = d.clm
                                  /\ Decide(d, v.res)
                                  /\ v.worker = d.worker
<1>1. CASE v \in verdicts
  BY <1>1
<1>2. CASE DecideStep /\ v \notin verdicts
  <2>1. PICK d \in deliveries, res \in Result : Decide(d, res)
    BY <1>2 DEF DecideStep
  <2>2. v = [worker |-> d.worker, job |-> d.job, att |-> d.att, clm |-> d.clm,
             res |-> res]
    BY <1>2, <2>1 DEF Decide
  <2>3. v.res = res /\ d.phase = "run"
    BY <2>1, <2>2 DEF Decide
  <2> QED
    BY <2>1, <2>2, <2>3
<1>3. CASE \E w \in Workers : Crash(w)
  <2>1. PICK w \in Workers : Crash(w)
    BY <1>3
  <2>2. PICK u \in verdicts :
          v = IF u.worker = w THEN [u EXCEPT !.worker = NoWorker] ELSE u
    BY <2>1 DEF Crash
  <2>3. u \in Verdict
    BY DEF TypeOK
  <2>4. u.job = v.job /\ u.clm = v.clm /\ u.res = v.res
    BY <2>2, <2>3 DEF Verdict
  <2> QED
    BY <2>4
<1>4. CASE v \notin verdicts
  <2>1. DecideStep \/ \E w \in Workers : Crash(w)
    BY <1>4, NextSplit
       DEF StatementStep, DoubtStep, MemoryStep, RowStep, vars, FlushLands,
           OutcomeLands, LimboLands, DoubtCommits, DoubtRollsBack, BeginTick,
           EmptyClaim, FlushFails, OutcomeFails, RenewalStep, LeaseLapses, Revive,
           Withdraw, Sweep
  <2> QED
    BY <1>2, <1>3, <1>4, <2>1
<1> QED
  BY <1>1, <1>4

LEMMA AloneStep ==
  ASSUME TypeOK, DoubtInv, RunInv, AloneInv, [Next]_vars
  PROVE  AloneInv'
<1>0. /\ \A d \in deliveries : /\ d \in Delivery
                               /\ d.job \in Jobs /\ d.clm \in Nat
                               /\ d.phase = "run" => d.clm <= claims[d.job]
      /\ \A v \in verdicts : v \in Verdict /\ v.job \in Jobs /\ v.clm \in Nat
      /\ \A j \in Jobs : claims[j] \in Nat
  <2>1. \A d \in deliveries : d \in Delivery /\ d.job \in Jobs /\ d.clm \in Nat
    BY DEF TypeOK, Delivery
  <2>2. \A d \in deliveries : d.phase = "run" => WriteOf(d) \in Tokens
    BY RenewalsMember DEF Tokens
  <2>3. \A d \in deliveries : WriteOf(d).job = d.job /\ WriteOf(d).clm = d.clm
    BY DEF WriteOf
  <2>4. \A d \in deliveries : d.phase = "run" => d.clm <= claims[d.job]
    BY <2>2, <2>3 DEF RunInv
  <2>5. \A v \in verdicts : v \in Verdict /\ v.job \in Jobs /\ v.clm \in Nat
    BY DEF TypeOK, Verdict
  <2> QED
    BY <2>1, <2>4, <2>5 DEF TypeOK
<1>1. CASE ~ ClaimStep
  <2>1. claims' = claims /\ InDoubt' \subseteq InDoubt
    BY <1>1, NextSplit
       DEF StatementStep, DecideStep, DoubtStep, MemoryStep, RowStep, vars,
           FlushLands, OutcomeLands, LimboLands, Decide, DoubtCommits,
           DoubtRollsBack, BeginTick, EmptyClaim, Crash, FlushFails,
           OutcomeFails, RenewalStep, LeaseLapses, Revive, Withdraw, Sweep, InDoubt
  <2>2. ASSUME NEW v \in verdicts'
        PROVE  /\ v.clm <= claims'[v.job]
               /\ v.job \in InDoubt' /\ v.clm = claims'[v.job] => v.res = "unsure"
    BY <1>0, <1>1, <2>1, VerdictsFrom DEF AloneInv
  <2>3. ASSUME NEW d \in deliveries', d.phase = "run", d.job \in InDoubt'
        PROVE  d.clm # claims'[d.job]
    BY <1>1, <2>1, <2>3, RunsKept DEF AloneInv
  <2> QED
    BY <2>2, <2>3 DEF AloneInv
<1>2. ASSUME NEW w \in Workers, NEW p \in Pollers, NEW S \in SUBSET Jobs,
             Claim(w, p, S)
      PROVE  AloneInv'
  <2>1. /\ S \cap InDoubt = {}
        /\ InDoubt' = InDoubt
        /\ verdicts' = verdicts
        /\ \A j \in Jobs : claims'[j] = IF j \in S THEN claims[j] + 1 ELSE claims[j]
    BY <1>2, ClaimTakes DEF Claim, ClaimBatch, InDoubt
  <2>2. \A d \in deliveries' : d \in deliveries \/ d.job \in S
    BY <1>2 DEF Claim, NewDelivery
  <2>3. ASSUME NEW v \in verdicts'
        PROVE  /\ v.clm <= claims'[v.job]
               /\ v.job \in InDoubt' /\ v.clm = claims'[v.job] => v.res = "unsure"
    BY <1>0, <2>1 DEF AloneInv
  <2>4. ASSUME NEW d \in deliveries', d.phase = "run", d.job \in InDoubt'
        PROVE  d.clm # claims'[d.job]
    BY <1>0, <2>1, <2>2, <2>4 DEF AloneInv
  <2> QED
    BY <2>3, <2>4 DEF AloneInv
<1>3. ASSUME NEW w \in Workers, NEW p \in Pollers, NEW S \in SUBSET Jobs,
             ClaimFails(w, p, S)
      PROVE  AloneInv'
  <2>1. /\ InDoubt' = InDoubt \cup S
        /\ \A j \in Jobs : claims'[j] = IF j \in S THEN claims[j] + 1 ELSE claims[j]
    BY <1>3 DEF ClaimFails, ClaimBatch, InDoubt
  <2>2. \A d \in deliveries' : d.phase = "run" => d \in deliveries
    BY <1>3 DEF ClaimFails, NewDelivery
  <2>3. \A v \in verdicts' :
          \/ v \in verdicts
          \/ v.job \in S /\ v.clm = claims[v.job] + 1 /\ v.res = "unsure"
    BY <1>3 DEF ClaimFails
  <2>4. ASSUME NEW v \in verdicts'
        PROVE  /\ v.clm <= claims'[v.job]
               /\ v.job \in InDoubt' /\ v.clm = claims'[v.job] => v.res = "unsure"
    BY <1>0, <2>1, <2>3 DEF AloneInv
  <2>5. ASSUME NEW d \in deliveries', d.phase = "run", d.job \in InDoubt'
        PROVE  d.clm # claims'[d.job]
    BY <1>0, <2>1, <2>2, <2>5 DEF AloneInv
  <2> QED
    BY <2>4, <2>5 DEF AloneInv
<1> QED
  BY <1>1, <1>2, <1>3 DEF ClaimStep

\* A worker remembers a verdict that it is about to write or keeps an intent of.
Remembers(v) ==
  \/ \E d \in deliveries : d.worker = v.worker /\ d.job = v.job /\ d.clm = v.clm
  \/ \E r \in pendingRecoveries[v.worker] : r.job = v.job /\ r.clm = v.clm

\* A verdict that is to be remembered.
Due(v) ==
  /\ v.worker # NoWorker
  /\ v.res # "unsure"
  /\ row[v.job].status = "processing"
  /\ row[v.job].clm = v.clm

\* The verdicts on jobs that did not slip are.
RememberInv ==
  \A v \in verdicts : v.job \notin slipped /\ Due(v) => Remembers(v)

\* A statement that matches ends the claim.
LEMMA ApplyEnds ==
  ASSUME TypeOK, NEW r \in Write, Apply(r), Matches(r)
  PROVE  row'[r.job].status # "processing"
<1>1. r.job \in Jobs /\ row[r.job] \in Row /\ r.out \in Outcome
  BY DEF TypeOK, Write
<1>2. row'[r.job] = Written(r)
  BY <1>1 DEF Apply, TypeOK
<1>3. Written(r).status = IF r.out = "deferred" THEN "pending" ELSE r.out
  BY <1>1 DEF Written, StatusOf, Row
<1> QED
  BY <1>1, <1>2, <1>3 DEF Outcome

\* What carries the claim that holds a row matches it.
LEMMA HolderMatches ==
  ASSUME TypeOK, DoubtInv, FenceInv, LastInv,
         NEW r \in Tokens, r.job \notin slipped,
         row[r.job].status = "processing", row[r.job].clm = r.clm
  PROVE  /\ r.job \in Jobs /\ row[r.job].attempts = r.att /\ Matches(r)
         /\ \A q \in Tokens : q.job = r.job =>
              /\ q.att <= r.att
              /\ q.att = r.att => q.clm = r.clm
<1>1. r.job \in Jobs
  BY OutcomesType DEF Tokens, Write
<1>2. r.job \notin InDoubt /\ Held(r.job) /\ r.clm = claims[r.job]
  BY <1>1 DEF DoubtInv, FenceInv, HolderInv, Held
<1>3. r.att = Top(r.job) /\ r.att = row[r.job].attempts
  BY <1>1, <1>2 DEF LastInv, Top
<1> QED
  BY <1>1, <1>2, <1>3 DEF FenceInv, TokenInv, Matches

LEMMA SupportTokens ==
  ASSUME TypeOK
  PROVE  /\ \A d \in deliveries : WriteOf(d) \in Tokens /\ WriteOf(d) \in Write
         /\ \A w \in Workers : \A r \in pendingRecoveries[w] : r \in Tokens /\ r \in Write
<1>1. \A d \in deliveries : d \in Delivery /\ d.phase \in {"run", "write"}
  BY DEF TypeOK, Delivery
<1>2. \A d \in deliveries : WriteOf(d) \in Tokens
  BY <1>1, OutcomesMember, RenewalsMember DEF Tokens
<1> QED
  BY <1>1, <1>2, WriteOfType, OutcomesMember DEF Tokens, TypeOK

LEMMA RememberLands ==
  ASSUME TypeOK, DoubtInv, FenceInv, LastInv, StatementStep,
         NEW v \in verdicts, v.job \notin slipped, Due(v), Remembers(v), row'[v.job].status = "processing"
  PROVE  Remembers(v)'
<1>0. v.worker \in Workers /\ v.job \in Jobs /\ pendingRecoveries \in [Workers -> SUBSET Write]
  BY DEF TypeOK, Verdict, Due
<1>1. ASSUME NEW w \in Workers, NEW q \in snapshot[w], FlushLands(w, q)
      PROVE  Remembers(v)'
  <2>1. CASE \E d \in deliveries : d.worker = v.worker /\ d.job = v.job /\ d.clm = v.clm
    BY <1>1, <2>1 DEF FlushLands, Remembers
  <2>2. ASSUME NEW r \in pendingRecoveries[v.worker], r.job = v.job, r.clm = v.clm
        PROVE  Remembers(v)'
    <3>1. q \in Write
      BY DEF TypeOK
    <3>2. r \in Tokens
      BY <1>0, SupportTokens
    <3>3. row[r.job].attempts = r.att
      BY <2>2, <3>2, HolderMatches DEF Due
    <3>4. ~ Matches(q) \/ q.job # v.job
      BY <1>1, <3>1, ApplyEnds DEF FlushLands
    <3>5. ~ (r.job = q.job /\ r.att = q.att)
      BY <2>2, <3>3, <3>4 DEF Matches, Due
    <3>6. r \in Retire(v.worker, q)
      BY <3>5 DEF Retire
    <3>7. r \in pendingRecoveries'[v.worker]
      BY <1>0, <1>1, <3>6 DEF FlushLands
    <3> QED
      BY <2>2, <3>7 DEF Remembers
  <2> QED
    BY <2>1, <2>2 DEF Remembers
<1>2. ASSUME NEW e \in deliveries, OutcomeLands(e)
      PROVE  Remembers(v)'
  <2>0. e \in Delivery /\ WriteOf(e) \in Write /\ WriteOf(e) \in Tokens
    BY SupportTokens DEF TypeOK
  <2>1. ~ Matches(e) \/ e.job # v.job
    <3>1. WriteOf(e).job = e.job /\ WriteOf(e).att = e.att
      BY DEF WriteOf
    <3> QED
      BY <1>2, <2>0, <3>1, ApplyEnds DEF OutcomeLands, Matches
  <2>2. ASSUME NEW d \in deliveries, d.worker = v.worker, d.job = v.job, d.clm = v.clm
        PROVE  Remembers(v)'
    <3>1. d # e
      <4>1. /\ WriteOf(e).job = e.job /\ WriteOf(e).att = e.att
            /\ WriteOf(e).clm = e.clm
        BY DEF WriteOf
      <4>2. d = e => Matches(e)
        BY <2>0, <2>2, <4>1, HolderMatches DEF Matches, Due
      <4> QED
        BY <2>1, <2>2, <4>2
    <3> QED
      BY <1>2, <2>2, <3>1 DEF OutcomeLands, Remembers
  <2>3. ASSUME NEW r \in pendingRecoveries[v.worker], r.job = v.job, r.clm = v.clm
        PROVE  Remembers(v)'
    <3>1. r \in Tokens
      BY <1>0, SupportTokens
    <3>2. row[r.job].attempts = r.att
      BY <2>3, <3>1, HolderMatches DEF Due
    <3>3. Matches(e) => r \in Retire(v.worker, e)
      BY <2>1, <2>3 DEF Retire
    <3>4. r \in pendingRecoveries'[v.worker]
      BY <1>0, <1>2, <3>3 DEF OutcomeLands
    <3> QED
      BY <2>3, <3>4 DEF Remembers
  <2> QED
    BY <2>2, <2>3 DEF Remembers
<1>3. ASSUME NEW q \in limbo, LimboLands(q)
      PROVE  Remembers(v)'
  BY <1>3 DEF LimboLands, Remembers
<1> QED
  BY <1>1, <1>2, <1>3 DEF StatementStep

\* A write that fails is stored: no later attempt's intent is in its way, as the
\* claim is the row's last, and what it evicts is another copy or of another claim.
LEMMA RememberFails ==
  ASSUME TypeOK, DoubtInv, FenceInv, LastInv,
         NEW v \in verdicts, v.job \notin slipped, Due(v), Remembers(v),
         NEW e \in deliveries, OutcomeFails(e)
  PROVE  Remembers(v)'
<1>0. v.worker \in Workers /\ v.job \in Jobs /\ pendingRecoveries \in [Workers -> SUBSET Write]
  BY DEF TypeOK, Verdict, Due
<1>1. /\ WriteOf(e).job = e.job /\ WriteOf(e).att = e.att /\ WriteOf(e).clm = e.clm
      /\ WriteOf(e) \in Tokens /\ e.att \in Nat
      /\ e.worker \in Workers
  BY SupportTokens DEF WriteOf, TypeOK, Delivery
<1>2. \A h \in pendingRecoveries[e.worker] : h \in Tokens /\ h.att \in Nat
  BY <1>0, <1>1, SupportTokens DEF Write
<1>3. CASE e.worker = v.worker /\ e.job = v.job /\ e.clm = v.clm
  <2>1. \A h \in pendingRecoveries[e.worker] : h.job = e.job => h.att <= e.att
    BY <1>1, <1>2, <1>3, HolderMatches DEF Due
  <2>2. WriteOf(e) \in Store(e.worker, WriteOf(e))
    BY <1>1, <1>2, <2>1 DEF Store
  <2>3. WriteOf(e) \in pendingRecoveries'[v.worker]
    BY <1>0, <1>3, <2>2 DEF OutcomeFails
  <2> QED
    BY <1>1, <1>3, <2>3 DEF Remembers
<1>4. ASSUME NEW d \in deliveries, d # e,
             d.worker = v.worker, d.job = v.job, d.clm = v.clm
      PROVE  Remembers(v)'
  BY <1>4 DEF OutcomeFails, Remembers
<1>5. ASSUME NEW r \in pendingRecoveries[v.worker], r.job = v.job, r.clm = v.clm
      PROVE  Remembers(v)'
  <2>1. CASE e.worker # v.worker
    <3>1. r \in pendingRecoveries'[v.worker]
      BY <1>0, <2>1 DEF OutcomeFails
    <3> QED
      BY <1>5, <3>1 DEF Remembers
  <2>2. CASE e.worker = v.worker /\ r \in Store(e.worker, WriteOf(e))
    <3>1. r \in pendingRecoveries'[v.worker]
      BY <1>0, <2>2 DEF OutcomeFails
    <3> QED
      BY <1>5, <3>1 DEF Remembers
  <2>3. CASE e.worker = v.worker /\ r \notin Store(e.worker, WriteOf(e))
    <3>1. e.job = r.job /\ e.att >= r.att
      BY <1>1, <2>3 DEF Store
    <3>2. r \in Tokens /\ r.att \in Nat
      BY <1>2, <2>3
    <3>3. e.clm = r.clm
      <4>1. /\ WriteOf(e).att <= r.att
            /\ WriteOf(e).att = r.att => WriteOf(e).clm = r.clm
        BY <1>1, <1>5, <3>1, <3>2, HolderMatches DEF Due
      <4> QED
        BY <1>1, <3>1, <3>2, <4>1
    <3> QED
      BY <1>3, <1>5, <2>3, <3>1, <3>3
  <2> QED
    BY <2>1, <2>2, <2>3
<1> QED
  BY <1>3, <1>4, <1>5 DEF Remembers

LEMMA RememberStep ==
  ASSUME TypeOK, DoubtInv, FenceInv, LastInv, AloneInv, RememberInv, [Next]_vars
  PROVE  RememberInv'
<1> SUFFICES ASSUME NEW v \in verdicts', v.job \notin slipped, Due(v)'
             PROVE  Remembers(v)'
  BY SlippedGrows DEF RememberInv, Due, Remembers
<1>0. /\ row \in [Jobs -> Row]
      /\ \A u \in verdicts : u \in Verdict /\ u.job \in Jobs /\ u.clm \in Nat
      /\ \A d \in deliveries : d \in Delivery
      /\ \A u \in verdicts : u.job \notin slipped /\ Due(u) => Remembers(u)
  BY DEF TypeOK, Verdict, RememberInv
<1>1. CASE StatementStep
  <2>1. v \in verdicts
    BY <1>1 DEF StatementStep, FlushLands, OutcomeLands, LimboLands
  <2>2. Due(v) /\ row'[v.job].status = "processing"
    BY <1>0, <1>1, <2>1, RowKept DEF Due
  <2> QED
    BY <1>0, <1>1, <2>1, <2>2, RememberLands
<1>2. CASE DecideStep
  <2>1. PICK d \in deliveries, res \in Result : Decide(d, res)
    BY <1>2 DEF DecideStep
  <2>2. PICK e : e = [d EXCEPT !.phase = "write", !.out = OutcomeOf(res, d.att)]
    OBVIOUS
  <2>3. e \in deliveries' /\ e.worker = d.worker /\ e.job = d.job /\ e.clm = d.clm
    BY <1>0, <2>1, <2>2 DEF Decide, Delivery
  <2>4. row' = row /\ pendingRecoveries' = pendingRecoveries
        /\ \A x \in deliveries : x = d \/ x \in deliveries'
    BY <2>1 DEF Decide
  <2>5. CASE v \in verdicts
    BY <1>0, <2>3, <2>4, <2>5 DEF Due, Remembers
  <2>6. CASE v \notin verdicts
    <3>1. v = [worker |-> d.worker, job |-> d.job, att |-> d.att, clm |-> d.clm,
               res |-> res]
      BY <2>1, <2>6 DEF Decide
    <3> QED
      BY <2>3, <3>1 DEF Remembers
  <2> QED
    BY <2>5, <2>6
<1>3. ASSUME NEW w \in Workers, NEW p \in Pollers, NEW S \in SUBSET Jobs,
             Claim(w, p, S)
      PROVE  Remembers(v)'
  <2>1. v \in verdicts /\ deliveries \subseteq deliveries'
        /\ pendingRecoveries' = pendingRecoveries
    BY <1>3 DEF Claim
  <2>2. v.job \notin S
    <3>1. Claimed(v.job, claims[v.job] + 1).clm = claims[v.job] + 1
      BY <1>0, <2>1 DEF Claimed, Row
    <3>2. claims[v.job] \in Nat /\ v.clm <= claims[v.job]
      BY <1>0, <2>1 DEF AloneInv, TypeOK
    <3> QED
      BY <1>0, <1>3, <2>1, <3>1, <3>2 DEF Claim, Due
  <2>3. row'[v.job] = row[v.job]
    BY <1>0, <1>3, <2>1, <2>2 DEF Claim
  <2> QED
    BY <1>0, <2>1, <2>3 DEF Due, Remembers
<1>4. ASSUME NEW w \in Workers, NEW p \in Pollers, NEW S \in SUBSET Jobs,
             ClaimFails(w, p, S)
      PROVE  Remembers(v)'
  <2>1. deliveries \subseteq deliveries' /\ pendingRecoveries' = pendingRecoveries
        /\ row' = row
    BY <1>4 DEF ClaimFails
  <2>2. v \in verdicts
    BY <1>4 DEF ClaimFails, Due
  <2> QED
    BY <1>0, <2>1, <2>2 DEF Due, Remembers
<1>5. ASSUME NEW S \in doubt, DoubtCommits(S) \/ DoubtRollsBack(S)
      PROVE  Remembers(v)'
  <2>1. UNCHANGED <<verdicts, deliveries, pendingRecoveries>>
    BY <1>5 DEF DoubtCommits, DoubtRollsBack
  <2>2. row'[v.job] = row[v.job]
    <3>1. CASE v.job \in S /\ DoubtCommits(S)
      <4>1. row'[v.job].clm = claims[v.job]
        BY <1>0, <2>1, <3>1 DEF DoubtCommits, Claimed, Row
      <4>2. v.res = "unsure"
        BY <2>1, <3>1, <4>1 DEF AloneInv, Due, InDoubt
      <4> QED
        BY <4>2 DEF Due
    <3>2. CASE v.job \notin S \/ DoubtRollsBack(S)
      BY <1>0, <1>5, <2>1, <3>2 DEF DoubtCommits, DoubtRollsBack
    <3> QED
      BY <1>5, <3>1, <3>2
  <2> QED
    BY <1>0, <2>1, <2>2 DEF Due, Remembers
<1>6. CASE MemoryStep
  <2>1. CASE \E w \in Workers :
               BeginTick(w) \/ EmptyClaim(w) \/ \E r \in snapshot[w] : FlushFails(w, r)
    <3>1. UNCHANGED <<row, verdicts, deliveries, pendingRecoveries>>
      BY <2>1 DEF BeginTick, EmptyClaim, FlushFails
    <3> QED
      BY <1>0, <3>1 DEF Due, Remembers
  <2>2. ASSUME NEW w \in Workers, Crash(w)
        PROVE  Remembers(v)'
    <3>1. PICK u \in verdicts :
            v = IF u.worker = w THEN [u EXCEPT !.worker = NoWorker] ELSE u
      BY <2>2 DEF Crash
    <3>2. v = u /\ u.worker # w
      <4>1. [u EXCEPT !.worker = NoWorker].worker = NoWorker
        BY <1>0 DEF Verdict
      <4> QED
        BY <3>1, <4>1 DEF Due
    <3>3. row' = row
      BY <2>2 DEF Crash
    <3>4. Due(v) /\ Remembers(v)
      BY <1>0, <3>2, <3>3 DEF Due
    <3>5. v.worker \in Workers
      BY <1>0, <3>2 DEF Verdict, Due
    <3>6. pendingRecoveries'[v.worker] = pendingRecoveries[v.worker]
      BY <2>2, <3>2, <3>5 DEF Crash, TypeOK
    <3>7. \A d \in deliveries : d.worker = v.worker => d \in deliveries'
      BY <2>2, <3>2 DEF Crash
    <3> QED
      BY <3>4, <3>6, <3>7 DEF Remembers
  <2>3. ASSUME NEW e \in deliveries, OutcomeFails(e)
        PROVE  Remembers(v)'
    <3>1. row' = row /\ verdicts' = verdicts
      BY <2>3 DEF OutcomeFails
    <3> QED
      BY <1>0, <2>3, <3>1, RememberFails DEF Due
  <2> QED
    BY <1>6, <2>1, <2>2, <2>3 DEF MemoryStep
<1>7. CASE RowStep
  <2>1. verdicts' = verdicts /\ pendingRecoveries' = pendingRecoveries
    BY <1>7 DEF RowStep, RenewalStep, LeaseLapses, Revive, Withdraw, Sweep
  <2>2. Due(v) /\ Remembers(v)
    BY <1>0, <1>7, <2>1, RowKept DEF Due
  <2>3. \A d \in deliveries : \E e \in deliveries' :
          e.worker = d.worker /\ e.job = d.job /\ e.clm = d.clm
    <3>1. CASE \E j \in Jobs : LeaseLapses(j)
      <4>1. PICK j \in Jobs : LeaseLapses(j)
        BY <3>1
      <4>2. ASSUME NEW d \in deliveries
            PROVE  \E e \in deliveries' :
                     e.worker = d.worker /\ e.job = d.job /\ e.clm = d.clm
        <5>1. PICK e : e = IF d \in Owner(j) THEN [d EXCEPT !.lapsed = TRUE] ELSE d
          OBVIOUS
        <5>2. e \in deliveries'
          BY <4>1, <5>1 DEF LeaseLapses
        <5>3. e.worker = d.worker /\ e.job = d.job /\ e.clm = d.clm
          BY <1>0, <5>1 DEF Delivery
        <5> QED
          BY <5>2, <5>3
      <4> QED
        BY <4>2
    <3>2. CASE ~ \E j \in Jobs : LeaseLapses(j)
      <4>1. deliveries' = deliveries
        BY <1>7, <3>2 DEF RowStep, RenewalStep, Revive, Withdraw, Sweep
      <4> QED
        BY <4>1
    <3> QED
      BY <3>1, <3>2
  <2> QED
    BY <2>1, <2>2, <2>3 DEF Remembers
<1>8. CASE UNCHANGED vars
  BY <1>0, <1>8 DEF vars, Due, Remembers
<1> QED
  BY <1>1, <1>2, <1>3, <1>4, <1>5, <1>6, <1>7, <1>8, NextSplit
     DEF ClaimStep, DoubtStep

\* No outcome is forgotten: a worker that lives and ended a claim its row still
\* carries is about to write the outcome or holds the intent to, which no flush,
\* replay, late answer or newer attempt has dropped, unless attempts slipped
\* (OutcomeRemembered).
THEOREM OutcomesAreRemembered == Spec => []OutcomeRemembered
<1>1. Init => LastInv /\ AloneInv /\ RememberInv
  BY OutcomesMember, RenewalsMember
     DEF Init, LastInv, AloneInv, RememberInv, Tokens
<1>2. TypeOK /\ TypeOK' /\ DoubtInv /\ FenceInv /\ LastInv /\ [Next]_vars => LastInv'
  BY LastStep
<1>3. TypeOK /\ DoubtInv /\ RunInv /\ AloneInv /\ [Next]_vars => AloneInv'
  BY AloneStep
<1>4. TypeOK /\ DoubtInv /\ FenceInv /\ LastInv /\ AloneInv /\ RememberInv /\ [Next]_vars
        => RememberInv'
  BY RememberStep
<1>5. RememberInv => OutcomeRemembered
  BY DEF RememberInv, Due, Remembers, OutcomeRemembered
<1> QED
  BY <1>1, <1>2, <1>3, <1>4, <1>5, TypeCorrect, DoubtCorrect, RunCorrect, FenceCorrect,
     PTL DEF Spec

=============================================================================
