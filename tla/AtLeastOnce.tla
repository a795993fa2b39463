---------------------------- MODULE AtLeastOnce -----------------------------
(***************************************************************************)
(* What the job queue (worker/src/queue.ts) promises to the code that      *)
(* inserts rows into it, and no more: a job is handed out again and again  *)
(* until one of its runs has earned an outcome and that outcome is         *)
(* recorded; a recorded outcome stays.  Nothing is said of leases, claims, *)
(* retries, intents or workers: that is module JobQueue, which implements  *)
(* this one.                                                               *)
(***************************************************************************)

CONSTANTS
  Jobs,
  Unregistered,  \* jobs of a type nobody handles
  Withdrawable,  \* jobs the server may settle itself while they wait
  Revivable      \* dead jobs the server may queue again

VARIABLES
  state,   \* what the queue shows of each job
  earned   \* the outcomes a job's runs have arrived at

Settled == {"completed", "dead"}

Init ==
  /\ state = [j \in Jobs |-> "waiting"]
  /\ earned = [j \in Jobs |-> {}]

\* Some waiting jobs are handed out; those nobody handles die at once.
Hand(S) ==
  /\ \A j \in S : state[j] = "waiting"
  /\ state' = [j \in Jobs |-> IF j \notin S THEN state[j]
                              ELSE IF j \in Unregistered THEN "dead"
                              ELSE "taken"]
  /\ UNCHANGED earned

\* A run of a job ends, however late, and with it the outcome is known.
Earn(j, outcome) ==
  /\ earned' = [earned EXCEPT ![j] = @ \cup {outcome}]
  /\ UNCHANGED state

\* Some jobs come back: a run failed, or was lost with its worker.
TakeBack(S) ==
  /\ \A j \in S : state[j] = "taken"
  /\ state' = [j \in Jobs |-> IF j \in S THEN "waiting" ELSE state[j]]
  /\ UNCHANGED earned

\* An earned outcome is recorded.
Settle(j, outcome) ==
  /\ state[j] = "taken"
  /\ outcome \in earned[j]
  /\ state' = [state EXCEPT ![j] = outcome]
  /\ UNCHANGED earned

\* The server settles a job nobody has taken.
Withdraw(j, outcome) ==
  /\ j \in Withdrawable
  /\ state[j] = "waiting"
  /\ state' = [state EXCEPT ![j] = outcome]
  /\ UNCHANGED earned

\* The server queues a dead job again.
Revive(j) ==
  /\ j \in Revivable
  /\ state[j] = "dead"
  /\ state' = [state EXCEPT ![j] = "waiting"]
  /\ UNCHANGED earned

Next ==
  \/ \E S \in SUBSET Jobs : Hand(S) \/ TakeBack(S)
  \/ \E j \in Jobs :
       \/ \E outcome \in Settled :
            Earn(j, outcome) \/ Settle(j, outcome) \/ Withdraw(j, outcome)
       \/ Revive(j)

Spec == Init /\ [][Next]_<<state, earned>>
=============================================================================
