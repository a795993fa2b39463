------------------------- MODULE JobQueueRefinement -------------------------
(***************************************************************************)
(* The job queue implements AtLeastOnce, for every set of jobs, workers    *)
(* and pollers and every bound.                                            *)
(***************************************************************************)
EXTENDS JobQueueProofs

-----------------------------------------------------------------------------
(* The refinement mapping *)

\* What the mapping shows of a job, now and after a step.
LEMMA Shown ==
  /\ \A j \in Jobs : States[j] = StateOf(row[j].status)
  /\ \A j \in Jobs : States'[j] = StateOf(row'[j].status)
BY DEF States, StateOf

\* The outcomes the mapping credits to a job, now and after a step.
LEMMA Credited ==
  ASSUME NEW j \in Jobs, NEW o
  PROVE  /\ o \in Earned[j] <=>
              /\ o \in Terminal
              /\ \E v \in verdicts : v.job = j /\ OutcomeOf(v.res, v.att) = o
         /\ o \in Earned'[j] <=>
              /\ o \in Terminal
              /\ \E v \in verdicts' : v.job = j /\ OutcomeOf(v.res, v.att) = o
<1>1. Earned[j] = {p \in Terminal :
                     \E v \in verdicts : v.job = j /\ OutcomeOf(v.res, v.att) = p}
  BY DEF Earned
<1>2. Earned'[j] = {p \in Terminal :
                      \E v \in verdicts' : v.job = j /\ OutcomeOf(v.res, v.att) = p}
  BY DEF Earned, OutcomeOf
<1> QED
  BY <1>1, <1>2

\* A step that keeps every status shows nothing.
LEMMA StatesKept ==
  ASSUME \A j \in Jobs : row'[j].status = row[j].status
  PROVE  States' = States
BY DEF States, StateOf

\* A step that keeps the verdicts credits nothing.
LEMMA EarnedKept ==
  ASSUME verdicts' = verdicts
  PROVE  Earned' = Earned
BY DEF Earned, OutcomeOf

\* Two mappings that agree on every job are the same.
LEMMA EarnedEqual ==
  ASSUME \A j \in Jobs : \A o : o \in Earned'[j] <=> o \in Earned[j]
  PROVE  Earned' = Earned
<1>1. \A j \in Jobs : Earned'[j] = Earned[j]
  OBVIOUS
<1>2. Earned = [j \in Jobs |-> Earned[j]]
  BY DEF Earned
<1>3. Earned' = [j \in Jobs |-> Earned'[j]]
  BY DEF Earned
<1> QED
  BY <1>1, <1>2, <1>3

\* What the abstract queue calls the statuses.
LEMMA StateNames ==
  /\ StateOf("pending") = "waiting"
  /\ StateOf("processing") = "taken"
  /\ StateOf("completed") = "completed"
  /\ StateOf("dead") = "dead"
BY DEF StateOf

-----------------------------------------------------------------------------
(* Every step is a step of the abstract queue or invisible *)

Invisible == States' = States /\ Earned' = Earned

AbstractStep == ALO!Next \/ Invisible

\* A statement about a claim records an outcome its run has earned, or gives
\* the job back, or matches no row.
LEMMA StatementRefines ==
  ASSUME TypeOK, EarnedInv, StatementStep
  PROVE  AbstractStep
<1>1. PICK r \in Outcomes : Apply(r)
  BY StatementApplies
<1>2. /\ row \in [Jobs -> Row]
      /\ r.job \in Jobs
      /\ r.out \in Outcome
  BY <1>1, OutcomesType DEF Write, TypeOK
<1>3. verdicts' = verdicts
  BY DEF StatementStep, FlushLands, OutcomeLands, LimboLands
<1>4. Earned' = Earned
  BY <1>3, EarnedKept
<1>5. CASE ~ Matches(r)
  <2>1. row' = row
    BY <1>1, <1>5 DEF Apply
  <2> QED
    BY <1>4, <2>1, StatesKept DEF AbstractStep, Invisible
<1>6. CASE Matches(r)
  <2> DEFINE s == StatusOf(r.out)
  <2>1. row' = [row EXCEPT ![r.job] = Written(r)]
    BY <1>1, <1>6 DEF Apply
  <2>2. row[r.job].status = "processing" /\ row[r.job] \in Row
    BY <1>2, <1>6 DEF Matches
  <2>3. Written(r).status = s
    BY <2>2 DEF Written, Row
  <2>4. /\ row'[r.job].status = s
        /\ \A j \in Jobs \ {r.job} : row'[j] = row[j]
    BY <1>2, <2>1, <2>3
  <2>5. States[r.job] = "taken"
    BY <1>2, <2>2, Shown, StateNames
  <2>6. States' = [j \in Jobs |-> IF j = r.job THEN StateOf(s) ELSE States[j]]
    BY <2>4 DEF States, StateOf
  <2>7. CASE r.out \in {"pending", "deferred"}
    <3>1. StateOf(s) = "waiting"
      BY <2>7, StateNames DEF StatusOf
    <3>2. States' = [j \in Jobs |-> IF j \in {r.job} THEN "waiting" ELSE States[j]]
      BY <2>6, <3>1
    <3>3. ALO!TakeBack({r.job})
      BY <1>4, <2>5, <3>2 DEF ALO!TakeBack
    <3> QED
      BY <1>2, <3>3 DEF AbstractStep, ALO!Next
  <2>8. CASE r.out \in Terminal
    <3>1. StateOf(s) = r.out
      BY <2>8, StateNames DEF Terminal, StatusOf
    <3>2. PICK v \in verdicts : v.job = r.job /\ r.out = OutcomeOf(v.res, v.att)
      BY <1>1 DEF EarnedInv
    <3>3. r.out \in Earned[r.job]
      BY <1>2, <2>8, <3>2, Credited
    <3>4. States' = [States EXCEPT ![r.job] = r.out]
      BY <2>6, <3>1 DEF States
    <3>5. ALO!Settle(r.job, r.out)
      BY <1>4, <2>5, <3>3, <3>4 DEF ALO!Settle
    <3> QED
      BY <1>2, <2>8, <3>5 DEF AbstractStep, ALO!Next, ALO!Settled, Terminal
  <2> QED
    BY <1>2, <2>7, <2>8 DEF Outcome, Terminal
<1> QED
  BY <1>5, <1>6

\* A handler that ends earns an outcome, or asks for another run.
LEMMA DecideRefines ==
  ASSUME TypeOK, NEW d \in deliveries, NEW res \in Result, Decide(d, res)
  PROVE  AbstractStep
<1> DEFINE o == OutcomeOf(res, d.att)
           v == [worker |-> d.worker, job |-> d.job, att |-> d.att,
                 clm |-> d.clm, res |-> res]
<1>1. d.job \in Jobs
  BY DEF TypeOK, Delivery
<1>2. row' = row /\ verdicts' = verdicts \cup {v}
  BY DEF Decide
<1>3. States' = States
  BY <1>2, StatesKept
<1>4. \A j \in Jobs : \A p :
        p \in Earned'[j] <=>
          p \in Earned[j] \/ (j = d.job /\ p = o /\ o \in Terminal)
  <2>1. v.job = d.job /\ OutcomeOf(v.res, v.att) = o
    OBVIOUS
  <2> HIDE DEF v, o
  <2> QED
    BY <1>2, <2>1, Credited
<1>5. CASE o \in Terminal
  <2>1. \A j \in Jobs : Earned'[j] = IF j = d.job THEN Earned[j] \cup {o} ELSE Earned[j]
    BY <1>4, <1>5
  <2>2. Earned' = [Earned EXCEPT ![d.job] = Earned[d.job] \cup {o}]
    <3>1. Earned = [j \in Jobs |-> Earned[j]]
      BY DEF Earned
    <3>2. Earned' = [j \in Jobs |-> Earned'[j]]
      BY DEF Earned
    <3> HIDE DEF o
    <3> QED
      BY <1>1, <2>1, <3>1, <3>2
  <2>3. ALO!Earn(d.job, o)
    BY <1>3, <2>2 DEF ALO!Earn
  <2> QED
    BY <1>1, <1>5, <2>3 DEF AbstractStep, ALO!Next, ALO!Settled, Terminal
<1>6. CASE o \notin Terminal
  BY <1>3, <1>4, <1>6, EarnedEqual DEF AbstractStep, Invisible
<1> QED
  BY <1>5, <1>6

\* The rows of a claim are handed out when its transaction commits.
LEMMA HandedOut ==
  ASSUME row \in [Jobs -> Row], NEW S \in SUBSET Jobs, NEW n \in [S -> Nat],
         \A j \in S : row[j].status = "pending",
         row' = [j \in Jobs |-> IF j \in S THEN Claimed(j, n[j]) ELSE row[j]],
         verdicts' = verdicts
  PROVE  AbstractStep
<1>1. Earned' = Earned
  BY EarnedKept
<1>2. \A j \in S : States[j] = "waiting"
  BY Shown, StateNames
<1>3. States' = [j \in Jobs |-> IF j \notin S THEN States[j]
                               ELSE IF j \in Unregistered THEN "dead"
                               ELSE "taken"]
  <2>1. \A j \in Jobs : States'[j] = IF j \notin S THEN States[j]
                                     ELSE IF j \in Unregistered THEN "dead"
                                     ELSE "taken"
    BY Shown, StateNames, ClaimedStatus
  <2>2. States' = [j \in Jobs |-> States'[j]]
    BY DEF States
  <2> QED
    BY <2>1, <2>2
<1>4. ALO!Hand(S)
  BY <1>1, <1>2, <1>3 DEF ALO!Hand
<1> QED
  BY <1>4 DEF AbstractStep, ALO!Next

LEMMA ClaimRefines ==
  ASSUME TypeOK, NEW w \in Workers, NEW p \in Pollers, NEW S \in SUBSET Jobs,
         Claim(w, p, S) \/ ClaimFails(w, p, S)
  PROVE  AbstractStep
<1>0. row \in [Jobs -> Row] /\ claims \in [Jobs -> Nat]
  BY DEF TypeOK
<1>1. CASE Claim(w, p, S)
  <2> DEFINE n == [j \in S |-> claims[j] + 1]
  <2>1. \A j \in S : row[j].status = "pending"
    BY <1>1, ClaimTakes DEF Claim
  <2>2. row' = [j \in Jobs |-> IF j \in S THEN Claimed(j, n[j]) ELSE row[j]]
    BY <1>1 DEF Claim
  <2>3. n \in [S -> Nat] /\ verdicts' = verdicts
    BY <1>0, <1>1 DEF Claim
  <2> HIDE DEF n
  <2> QED
    BY <1>0, <2>1, <2>2, <2>3, HandedOut
<1>2. CASE ClaimFails(w, p, S)
  <2>1. row' = row
    BY <1>2 DEF ClaimFails
  <2>2. ASSUME NEW v \in verdicts', v \notin verdicts
        PROVE  OutcomeOf(v.res, v.att) \notin Terminal
    <3>1. v.res = "unsure"
      BY <1>2, <2>2 DEF ClaimFails
    <3> QED
      BY <3>1 DEF OutcomeOf, Terminal
  <2>3. verdicts \subseteq verdicts'
    BY <1>2 DEF ClaimFails
  <2>4. Earned' = Earned
    BY <2>2, <2>3, Credited, EarnedEqual
  <2> QED
    BY <2>1, <2>4, StatesKept DEF AbstractStep, Invisible
<1> QED
  BY <1>1, <1>2

LEMMA DoubtRefines ==
  ASSUME TypeOK, DoubtInv, NEW S \in doubt, DoubtCommits(S) \/ DoubtRollsBack(S)
  PROVE  AbstractStep
<1>0. row \in [Jobs -> Row] /\ claims \in [Jobs -> Nat] /\ S \in SUBSET Jobs
  BY DEF TypeOK
<1>1. CASE DoubtCommits(S)
  <2> DEFINE n == [j \in S |-> claims[j]]
  <2>1. \A j \in S : row[j].status = "pending"
    BY DEF DoubtInv, InDoubt
  <2>2. row' = [j \in Jobs |-> IF j \in S THEN Claimed(j, n[j]) ELSE row[j]]
    BY <1>1 DEF DoubtCommits
  <2>3. n \in [S -> Nat] /\ verdicts' = verdicts
    BY <1>0, <1>1 DEF DoubtCommits
  <2> HIDE DEF n
  <2> QED
    BY <1>0, <2>1, <2>2, <2>3, HandedOut
<1>2. CASE DoubtRollsBack(S)
  BY <1>2, StatesKept, EarnedKept DEF DoubtRollsBack, AbstractStep, Invisible
<1> QED
  BY <1>1, <1>2

\* What only touches a worker's memory is invisible; a crash keeps what the
\* lost runs had earned.
LEMMA MemoryRefines ==
  ASSUME TypeOK, MemoryStep
  PROVE  Invisible
<1>1. States' = States
  BY StatesKept DEF MemoryStep, BeginTick, EmptyClaim, Crash, FlushFails, OutcomeFails
<1>2. ASSUME NEW w \in Workers, Crash(w)
      PROVE  Earned' = Earned
  <2> DEFINE Orphan(v) == IF v.worker = w THEN [v EXCEPT !.worker = NoWorker] ELSE v
  <2>1. verdicts' = {Orphan(v) : v \in verdicts}
    BY <1>2 DEF Crash
  <2>2. \A v \in verdicts :
          Orphan(v).job = v.job /\ Orphan(v).res = v.res /\ Orphan(v).att = v.att
    BY DEF TypeOK, Verdict
  <2> HIDE DEF Orphan
  <2>3. \A j \in Jobs : \A o : o \in Earned'[j] <=> o \in Earned[j]
    BY <2>1, <2>2, Credited
  <2> QED
    BY <2>3, EarnedEqual
<1>3. ASSUME ~ \E w \in Workers : Crash(w)
      PROVE  Earned' = Earned
  BY <1>3, EarnedKept DEF MemoryStep, BeginTick, EmptyClaim, FlushFails, OutcomeFails
<1> QED
  BY <1>1, <1>2, <1>3 DEF Invisible

\* The sweep takes lapsed jobs back; the server withdraws and revives.
LEMMA RowRefines ==
  ASSUME TypeOK, RowStep
  PROVE  AbstractStep
<1>0. row \in [Jobs -> Row]
  BY DEF TypeOK
<1>1. Earned' = Earned
  BY EarnedKept DEF RowStep, RenewalStep, LeaseLapses, Revive, Withdraw, Sweep
<1>2. ASSUME RenewalStep
      PROVE  AbstractStep
  <2>1. \A j \in Jobs : row'[j].status = row[j].status
    <3>1. PICK r : \/ row' = row
                   \/ row' = [row EXCEPT ![r.job] = [row[r.job] EXCEPT !.lapsed = FALSE]]
      BY <1>2 DEF RenewalStep
    <3>2. \A j \in Jobs : [row[j] EXCEPT !.lapsed = FALSE].status = row[j].status
      BY <1>0 DEF Row
    <3> QED
      BY <1>0, <3>1, <3>2
  <2> QED
    BY <1>1, <2>1, StatesKept DEF AbstractStep, Invisible
<1>3. ASSUME NEW i \in Jobs, LeaseLapses(i)
      PROVE  AbstractStep
  <2>1. \A j \in Jobs : row'[j].status = row[j].status
    <3>1. row' = [row EXCEPT ![i] = [row[i] EXCEPT !.lapsed = TRUE]]
      BY <1>3 DEF LeaseLapses
    <3>2. \A j \in Jobs : [row[j] EXCEPT !.lapsed = TRUE].status = row[j].status
      BY <1>0 DEF Row
    <3> QED
      BY <1>0, <3>1, <3>2
  <2> QED
    BY <1>1, <2>1, StatesKept DEF AbstractStep, Invisible
<1>4. ASSUME NEW i \in Jobs, Revive(i)
      PROVE  AbstractStep
  <2>1. /\ row'[i].status = "pending"
        /\ \A j \in Jobs \ {i} : row'[j] = row[j]
    <3>1. row' = [row EXCEPT ![i] = [row[i] EXCEPT !.status = "pending",
                                                   !.attempts = 0]]
      BY <1>0, <1>4 DEF Revive
    <3>2. [row[i] EXCEPT !.status = "pending", !.attempts = 0].status = "pending"
      BY <1>0 DEF Row
    <3> QED
      BY <1>0, <3>1, <3>2
  <2>2. States[i] = "dead"
    BY <1>4, Shown, StateNames DEF Revive
  <2>3. States' = [States EXCEPT ![i] = "waiting"]
    BY <2>1, StateNames DEF States
  <2>4. ALO!Revive(i)
    BY <1>1, <1>4, <2>2, <2>3 DEF ALO!Revive, Revive
  <2> QED
    BY <2>4 DEF AbstractStep, ALO!Next
<1>5. ASSUME NEW i \in Jobs, NEW s \in Terminal, Withdraw(i, s)
      PROVE  AbstractStep
  <2>1. /\ row'[i].status = s
        /\ \A j \in Jobs \ {i} : row'[j] = row[j]
    <3>1. row' = [row EXCEPT ![i] = [row[i] EXCEPT !.status = s]]
      BY <1>5 DEF Withdraw
    <3>2. [row[i] EXCEPT !.status = s].status = s
      BY <1>0 DEF Row
    <3> QED
      BY <1>0, <3>1, <3>2
  <2>2. States[i] = "waiting"
    BY <1>5, Shown, StateNames DEF Withdraw
  <2>3. StateOf(s) = s
    BY StateNames DEF Terminal
  <2>4. States' = [States EXCEPT ![i] = s]
    BY <2>1, <2>3 DEF States
  <2>5. ALO!Withdraw(i, s)
    BY <1>1, <1>5, <2>2, <2>4 DEF ALO!Withdraw, Withdraw
  <2> QED
    BY <2>5 DEF AbstractStep, ALO!Next, ALO!Settled, Terminal
<1>6. ASSUME Sweep
      PROVE  AbstractStep
  <2> DEFINE S == {j \in Jobs : Stale(j)}
  <2>1. \A j \in Jobs : row'[j].status = IF j \in S THEN "pending" ELSE row[j].status
    <3>1. \A j \in Jobs :
            [row[j] EXCEPT !.status = "pending", !.lapsed = FALSE].status = "pending"
      BY <1>0 DEF Row
    <3> QED
      BY <1>6, <3>1 DEF Sweep
  <2>2. \A j \in S : States[j] = "taken"
    BY Shown, StateNames DEF Stale
  <2>3. States' = [j \in Jobs |-> IF j \in S THEN "waiting" ELSE States[j]]
    <3>1. \A j \in Jobs : States'[j] = IF j \in S THEN "waiting" ELSE States[j]
      BY <2>1, Shown, StateNames
    <3>2. States' = [j \in Jobs |-> States'[j]]
      BY DEF States
    <3> QED
      BY <3>1, <3>2
  <2>4. ALO!TakeBack(S)
    BY <1>1, <2>2, <2>3 DEF ALO!TakeBack
  <2> QED
    BY <2>4 DEF AbstractStep, ALO!Next
<1> QED
  BY <1>2, <1>3, <1>4, <1>5, <1>6 DEF RowStep

-----------------------------------------------------------------------------
(* The queue implements the abstract queue *)

LEMMA StepRefines ==
  TypeOK /\ DoubtInv /\ EarnedInv /\ [Next]_vars => [ALO!Next]_<<States, Earned>>
<1> SUFFICES ASSUME TypeOK, DoubtInv, EarnedInv, [Next]_vars
             PROVE  AbstractStep
  BY DEF AbstractStep, Invisible
<1>1. CASE UNCHANGED vars
  BY <1>1, StatesKept, EarnedKept DEF vars, AbstractStep, Invisible
<1>2. CASE DecideStep
  BY <1>2, DecideRefines DEF DecideStep
<1>3. CASE ClaimStep
  BY <1>3, ClaimRefines DEF ClaimStep
<1>4. CASE DoubtStep
  BY <1>4, DoubtRefines DEF DoubtStep
<1>5. CASE MemoryStep
  BY <1>5, MemoryRefines DEF AbstractStep
<1> QED
  BY <1>1, <1>2, <1>3, <1>4, <1>5, StatementRefines, RowRefines, NextSplit

LEMMA InitRefines == Init => ALO!Init
<1> SUFFICES ASSUME Init
             PROVE  ALO!Init
  OBVIOUS
<1>1. \A j \in Jobs : row[j].status = "pending"
  BY DEF Init
<1>2. States = [j \in Jobs |-> "waiting"]
  BY <1>1, StateNames DEF States
<1>3. Earned = [j \in Jobs |-> {}]
  BY DEF Init, Earned
<1> QED
  BY <1>2, <1>3 DEF ALO!Init

\* Whatever is crashed, lost, replayed or late, the queue does to a job only
\* what AtLeastOnce allows: it is handed out again until a run has earned an
\* outcome, and only an earned outcome is recorded.
THEOREM QueueImplementsAtLeastOnce == Spec => ImplementsAtLeastOnce
<1>1. Spec => [][ALO!Next]_<<States, Earned>>
  BY StepRefines, TypeCorrect, DoubtCorrect, EarnedCorrect, PTL DEF Spec
<1>2. Spec => ALO!Init
  BY InitRefines DEF Spec
<1> QED
  BY <1>1, <1>2, PTL DEF ImplementsAtLeastOnce, ALO!Spec
=============================================================================
