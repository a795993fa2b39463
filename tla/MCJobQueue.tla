---------------------------- MODULE MCJobQueue ----------------------------
(* Small instances of the job queue for TLC. *)
EXTENDS JobQueue, TLC

CONSTANTS mail, import, ghost, w1, w2, main, dedicated

\* Two jobs, one per poller; "ghost" is of a type nobody registered.
MCPollerOf ==
  [j \in Jobs |-> IF j = import THEN dedicated ELSE main]

\* The main poller claims up to two rows here (three in the code), a
\* dedicated one a single row.
MCLimit == [p \in Pollers |-> IF p = main THEN 2 ELSE 1]

WorkerSymmetry == Permutations(Workers)
=============================================================================
