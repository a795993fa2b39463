--------------------------- MODULE GlassesForward ---------------------------
(***************************************************************************)
(* Forwarding one glasses walk of one deal to TROCK Scope: completions the *)
(* phone sends and repeats (server/src/modules/walkthrough-capture/        *)
(* glasses-walkthrough-service.ts, ingestGlassesWalkthrough) against the   *)
(* job that creates the remote walkthrough and uploads the clips           *)
(* (worker/src/jobs/glasses-walkthrough-forward.ts), its dead-letter       *)
(* alerts, and the person who repairs a dead row by hand.                  *)
(*                                                                         *)
(* A create is billed and its answer can be lost, so the job writes down   *)
(* that it is about to send one, and a row that finds this marker and no   *)
(* id stops.  (TROCK Scope has since learned to answer a repeated create   *)
(* with the walkthrough it has; the markers do not count on it, and an id  *)
(* is thus always the same one.)  A clip the phone was told is filed is    *)
(* deleted there, so it has to stay on some row until it is uploaded,      *)
(* while handlers work from the list they claimed and rows die and are     *)
(* replaced.                                                               *)
(*                                                                         *)
(* Left out: filing the artifacts as photos, the deal page's copy of the   *)
(* id, job types, the phone's uploads.  The queue is the at-least-once one *)
(* of module JobQueue, reduced to claim, settle and redeliver.             *)
(***************************************************************************)
EXTENDS Naturals, Sequences, FiniteSets

CONSTANTS
  Clips,        \* the artifacts of the walk
  MaxRows,      \* bound on the forward jobs ever queued
  MaxCalls,     \* bound on the completions ever sent
  MaxAttempts,  \* max_attempts of a job (10)
  MaxFaults,    \* bound on deaths, expired leases, missing configuration
  MaxRepairs    \* bound on rows a person requeues

ASSUME ForwardAssumption ==
  /\ {MaxRows, MaxAttempts} \subseteq Nat \ {0}
  /\ {MaxCalls, MaxFaults, MaxRepairs} \subseteq Nat

VARIABLES
  rows,       \* the glasses_walkthrough_forward rows of the walk and deal
  handlers,   \* executions of the handler
  calls,      \* completions between their reads and their write
  acked,      \* clips the phone was told are taken care of
  creates,    \* how many creates for the walk reached TROCK Scope
  delivered,  \* clips TROCK Scope has
  asked, faults, repairs,  \* how much of the bounds is used
  slips       \* history: which of the windows the code leaves open were hit

vars == <<rows, handlers, calls, acked, creates, delivered, asked, faults, repairs, slips>>

-----------------------------------------------------------------------------
(* Data *)

Rows == 1 .. Len(rows)
Attempts == 0 .. MaxAttempts + MaxFaults + MaxRepairs

Row ==
  [status : {"pending", "processing", "completed", "dead"},
   attempts : Attempts,
   artifacts : SUBSET Clips,
   extra : SUBSET Clips,  \* pendingArtifacts
   known : BOOLEAN,       \* scopeWalkthroughId is set
   marked : BOOLEAN,      \* scopeCreatePendingRef is set
   closed : BOOLEAN,      \* reconciliationClosed
   alerted : BOOLEAN,     \* alertSent
   superseded : BOOLEAN]  \* supersededByJobId is set

\* The payload as it was claimed.
Handler ==
  [row : 1 .. MaxRows, att : Attempts, todo : SUBSET Clips,
   known : BOOLEAN, marked : BOOLEAN,
   phase : {"start", "creating", "refused", "created", "uploading", "uploaded",
            "thrown", "buried", "finished"}]

\* What a completion has read: the row it takes for live, or what to inherit.
Call ==
  [clips : SUBSET Clips, row : 0 .. MaxRows, seen : SUBSET Clips,
   known : BOOLEAN, marked : BOOLEAN]

Fault == faults < MaxFaults /\ faults' = faults + 1

Live(row) == row.status # "dead"
LiveRows == {i \in Rows : Live(rows[i])}
DeadRows == Rows \ LiveRows

Become(h, fields) == handlers' = (handlers \ {h}) \cup {fields}
Enter(h, phase) == Become(h, [h EXCEPT !.phase = phase])

-----------------------------------------------------------------------------
(* The job: claims, and the handler's own writes *)

Claim(i) ==
  /\ rows[i].status = "pending"
  /\ rows' = [rows EXCEPT ![i].status = "processing", ![i].attempts = @ + 1]
  /\ handlers' = handlers \cup
       {[row |-> i, att |-> rows[i].attempts + 1, todo |-> rows[i].artifacts,
         known |-> rows[i].known, marked |-> rows[i].marked, phase |-> "start"]}
  /\ UNCHANGED <<calls, acked, creates, delivered, asked, faults, repairs, slips>>

\* The rows a write of the handler matches: by walk, deal, status and attempt,
\* and not by job.
Hits(h) == {i \in Rows : rows[i].status = "processing" /\ rows[i].attempts = h.att}

\* A write of the handler, which would make of the rows what "changed" says,
\* lands on what it matches.
Write(h, changed) ==
  /\ rows' = [i \in Rows |-> IF i \in Hits(h) THEN changed[i] ELSE rows[i]]
  /\ slips' = IF Hits(h) \subseteq {h.row} THEN slips ELSE slips \cup {"crossed"}

NoWrite == UNCHANGED <<rows, slips>>

Marked == [i \in Rows |-> [rows[i] EXCEPT !.marked = TRUE]]
Unmarked == [i \in Rows |-> [rows[i] EXCEPT !.marked = FALSE]]
Checkpointed == [i \in Rows |-> [rows[i] EXCEPT !.known = TRUE, !.marked = FALSE]]
Folded ==
  [i \in Rows |->
     IF rows[i].extra = {} THEN rows[i]
     ELSE [rows[i] EXCEPT !.artifacts = @ \cup rows[i].extra, !.extra = {}, !.closed = TRUE]]

\* An earlier attempt sent a create and nobody knows what became of it.
Unresolved(h) == ~ h.known /\ h.marked

\* The job is not configured, or it refuses to guess.
Bury(h) ==
  /\ h.phase = "start"
  /\ Enter(h, "buried")
  /\ \/ Unresolved(h) /\ UNCHANGED faults
     \/ Fault
  /\ NoWrite /\ UNCHANGED <<creates, delivered>>

Resume(h) ==
  /\ h.phase = "start" /\ h.known
  /\ Enter(h, "uploading")
  /\ NoWrite /\ UNCHANGED <<creates, delivered, faults>>

\* markScopeCreatePending: without the marker no create goes out.
Mark(h) ==
  /\ h.phase = "start" /\ ~ h.known /\ ~ h.marked
  /\ \/ Write(h, Marked) /\ Enter(h, IF Hits(h) = {} THEN "thrown" ELSE "creating")
     \/ (Write(h, Marked) \/ NoWrite) /\ Enter(h, "thrown")
  /\ UNCHANGED <<creates, delivered, faults>>

\* createScopeWalkthrough: it answers, provably creates nothing, or ends in a
\* way that says neither.
Create(h) ==
  /\ h.phase = "creating"
  /\ \/ creates' = creates + 1 /\ Enter(h, "created")
     \/ creates' = creates /\ Enter(h, "refused")
     \/ creates' \in {creates, creates + 1} /\ Enter(h, "thrown")
  /\ NoWrite /\ UNCHANGED <<delivered, faults>>

\* clearScopeCreatePending, whose failure is swallowed.
Retract(h) ==
  /\ h.phase = "refused"
  /\ Write(h, Unmarked) \/ NoWrite
  /\ Enter(h, "thrown")
  /\ UNCHANGED <<creates, delivered, faults>>

\* checkpointScopeWalkthroughId: matching no row is not an error here.
Checkpoint(h) ==
  /\ h.phase = "created"
  /\ \/ Write(h, Checkpointed) /\ Enter(h, "uploading")
     \/ (Write(h, Checkpointed) \/ NoWrite) /\ Enter(h, "thrown")
  /\ UNCHANGED <<creates, delivered, faults>>

\* uploadClip for each clip of the claimed list; bytes TROCK Scope already has
\* are no error, and any other error ends the attempt.
Upload(h) ==
  /\ h.phase = "uploading"
  /\ \/ delivered' = delivered \cup h.todo /\ Enter(h, "uploaded")
     \/ \E sent \in SUBSET h.todo : delivered' = delivered \cup sent /\ Enter(h, "thrown")
  /\ NoWrite /\ UNCHANGED <<creates, faults>>

\* supersedeSelfForPendingArtifacts: clips filed beside the running delivery
\* join the list, and the row dies so that somebody forwards them.
Fold(h) ==
  /\ h.phase = "uploaded"
  /\ \/ /\ Write(h, Folded)
        /\ Enter(h, IF \E i \in Hits(h) : rows[i].extra # {} THEN "buried" ELSE "finished")
     \/ (Write(h, Folded) \/ NoWrite) /\ Enter(h, "thrown")
  /\ UNCHANGED <<creates, delivered, faults>>

\* Mistake: a job that failed its last attempt is queued again.
OutcomeForever(h) ==
  CASE h.phase = "finished" -> "completed"
    [] h.phase = "buried" -> "dead"
    [] OTHER -> "pending"

\* What the queue writes for a handler that has ended.
Outcome(h) ==
  CASE h.phase = "finished" -> "completed"
    [] h.phase = "buried" -> "dead"
    [] OTHER -> IF h.att >= MaxAttempts THEN "dead" ELSE "pending"

\* History: a row that dies once more after its one alert.
Hushed(row) == IF row.alerted THEN {"hushed"} ELSE {}

\* processJob's write, which names the job as well as the attempt.
Settle(h) ==
  LET i == h.row IN
  /\ h.phase \in {"thrown", "buried", "finished"}
  /\ handlers' = handlers \ {h}
  /\ IF i \in Hits(h)
     THEN /\ rows' = [rows EXCEPT ![i].status = Outcome(h)]
          /\ slips' = IF Outcome(h) = "dead" THEN slips \cup Hushed(rows[i]) ELSE slips
     ELSE NoWrite
  /\ UNCHANGED <<creates, delivered, faults>>

HandlerStep(h) ==
  /\ \/ Bury(h) \/ Resume(h) \/ Mark(h) \/ Create(h) \/ Retract(h)
     \/ Checkpoint(h) \/ Upload(h) \/ Fold(h) \/ Settle(h)
  /\ UNCHANGED <<calls, acked, asked, repairs>>

\* The worker dies, or only looks dead: the lease expires and the row is queued
\* again, in the second case with its handler still running.
Redeliver(i, died) ==
  /\ rows[i].status = "processing"
  /\ Fault
  /\ rows' = [rows EXCEPT ![i].status = "pending"]
  /\ handlers' = IF died
                 THEN {h \in handlers : ~ (h.row = i /\ h.att = rows[i].attempts)}
                 ELSE handlers
  /\ UNCHANGED <<calls, acked, creates, delivered, asked, repairs, slips>>

-----------------------------------------------------------------------------
(* Completions *)

\* Mistake: a dead row's clips filed beside its delivery are not inherited.
InheritedArtifacts == UNION {rows[i].artifacts : i \in DeadRows}

\* loadDeadPredecessorArtifacts.
Inherited == UNION {rows[i].artifacts \cup rows[i].extra : i \in DeadRows}

\* The checkpoint findGlassesWalkthroughForwardJobState answers when no row is
\* live: a known id over a marker.
Known == \E i \in DeadRows : rows[i].known
MaybeCreated == ~ Known /\ \E i \in DeadRows : rows[i].marked

LookAt(S, i) ==
  [clips |-> S, row |-> i, seen |-> rows[i].artifacts, known |-> FALSE, marked |-> FALSE]

LookAtDead(S) ==
  [clips |-> S, row |-> 0, seen |-> Inherited, known |-> Known, marked |-> MaybeCreated]

\* A completion reads; one that brings nothing new is answered at once.
Look(S) ==
  /\ asked < MaxCalls
  /\ asked' = asked + 1
  /\ \/ \E i \in LiveRows :
          IF S \subseteq rows[i].artifacts
          THEN acked' = acked \cup S /\ UNCHANGED calls
          ELSE calls' = calls \cup {LookAt(S, i)} /\ UNCHANGED acked
     \/ /\ LiveRows = {}
        /\ calls' = calls \cup {LookAtDead(S)}
        /\ UNCHANGED acked
  /\ UNCHANGED <<rows, handlers, creates, delivered, faults, repairs, slips>>

CallFrame == UNCHANGED <<handlers, creates, delivered, asked, faults, repairs>>

Answer(call) == calls' = calls \ {call} /\ acked' = acked \cup call.clips

\* amendPendingGlassesWalkthroughForwardArtifacts
Amend(call) ==
  LET i == call.row IN
  /\ i # 0 /\ rows[i].status = "pending"
  /\ rows' = [rows EXCEPT ![i].artifacts = @ \cup call.seen \cup call.clips]
  /\ Answer(call)
  /\ UNCHANGED slips /\ CallFrame

\* supersedeUnamendableGlassesWalkthroughForwardJob: a finished row dies with
\* the list the call put together from its read.
Supersede(call) ==
  LET i == call.row IN
  /\ i # 0 /\ rows[i].status = "completed"
  /\ rows' = [rows EXCEPT ![i].artifacts = call.seen \cup call.clips, ![i].status = "dead"]
  /\ Answer(call)
  /\ slips' = slips \cup Hushed(rows[i]) /\ CallFrame

Recordable(row) == row.status = "processing" /\ ~ row.closed

\* History: the handler has looked for such clips already, and found none.
Missed(i) ==
  IF \E h \in handlers : h.phase = "finished" /\ i \in Hits(h) /\ h.row = i
  THEN {"missed"} ELSE {}

\* recordPendingArtifactsOnRunningForwardJob
Record(call) ==
  LET i == call.row IN
  /\ i # 0 /\ Recordable(rows[i])
  /\ rows' = [rows EXCEPT ![i].extra = @ \cup rows[i].artifacts \cup call.seen \cup call.clips]
  /\ Answer(call)
  /\ slips' = slips \cup Missed(i) /\ CallFrame

\* No statement matched: 503, and the phone will ask again.
Refuse(call) ==
  LET i == call.row IN
  /\ i # 0
  /\ \/ rows[i].status = "dead"
     \/ rows[i].status = "processing" /\ ~ Recordable(rows[i])
  /\ calls' = calls \ {call}
  /\ UNCHANGED <<rows, acked, slips>> /\ CallFrame

\* Mistake: a replacement starts with a clean slate.
NewRowBlank(call) ==
  [status |-> "pending", attempts |-> 0, artifacts |-> call.seen \cup call.clips,
   extra |-> {}, known |-> call.known, marked |-> FALSE, closed |-> FALSE,
   alerted |-> FALSE, superseded |-> FALSE]

NewRow(call) ==
  [status |-> "pending", attempts |-> 0, artifacts |-> call.seen \cup call.clips,
   extra |-> {}, known |-> call.known, marked |-> call.marked, closed |-> FALSE,
   alerted |-> FALSE, superseded |-> FALSE]

\* History: what a new row would inherit now is not what the call has read.
OutOfDate(call) ==
  \/ ~ (Inherited \subseteq call.seen)
  \/ call.known # Known \/ call.marked # MaybeCreated

\* The insert the live index arbitrates.  The winner stamps the dead rows; the
\* loser reads the winner's row and widens that.
Enqueue(call) ==
  /\ call.row = 0
  /\ \/ /\ LiveRows = {} /\ Len(rows) < MaxRows
        /\ rows' = Append([i \in Rows |-> [rows[i] EXCEPT !.superseded = TRUE]], NewRow(call))
        /\ Answer(call)
        /\ slips' = IF OutOfDate(call) THEN slips \cup {"outOfDate"} ELSE slips
     \/ \E i \in LiveRows :
          /\ IF call.clips \subseteq rows[i].artifacts
             THEN Answer(call)
             ELSE calls' = (calls \ {call}) \cup {LookAt(call.clips, i)} /\ UNCHANGED acked
          /\ UNCHANGED <<rows, slips>>
  /\ CallFrame

CallStep(call) ==
  Amend(call) \/ Supersede(call) \/ Record(call) \/ Refuse(call) \/ Enqueue(call)

-----------------------------------------------------------------------------
(* The alert, and the repair it asks for *)

\* Mistake: only a job that never heard of a walkthrough is announced.
AlertableUnknown(row) ==
  row.status = "dead" /\ ~ row.alerted /\ ~ row.superseded /\ ~ row.known

Alertable(row) == row.status = "dead" /\ ~ row.alerted /\ ~ row.superseded

\* runGlassesWalkthroughForwardDeadLetterSweep, one row: claim, mail and mark
\* are one transaction, which a failed mail rolls back.
Alert(i) ==
  /\ Alertable(rows[i])
  /\ rows' = [rows EXCEPT ![i].alerted = TRUE]
  /\ UNCHANGED <<handlers, calls, acked, creates, delivered, asked, faults, repairs, slips>>

\* A person follows the dead letter: looks the walkthrough up, writes its id or
\* removes the marker, and requeues the row, which the live index must admit;
\* one that names its successor is left alone.  By then a create that was under
\* way (a minute at most) has ended.
Repair(i) ==
  /\ rows[i].status = "dead" /\ rows[i].alerted /\ ~ rows[i].superseded
  /\ LiveRows = {}
  /\ \A h \in handlers : h.phase # "creating"
  /\ repairs < MaxRepairs
  /\ repairs' = repairs + 1
  /\ rows' = [rows EXCEPT ![i] =
       IF ~ @.known /\ @.marked
       THEN [@ EXCEPT !.status = "pending", !.known = creates > 0, !.marked = creates > 0]
       ELSE [@ EXCEPT !.status = "pending"]]
  /\ UNCHANGED <<handlers, calls, acked, creates, delivered, asked, faults, slips>>

-----------------------------------------------------------------------------
(* The specification *)

Init ==
  /\ rows = << >> /\ handlers = {} /\ calls = {} /\ acked = {}
  /\ creates = 0 /\ delivered = {}
  /\ asked = 0 /\ faults = 0 /\ repairs = 0 /\ slips = {}

Next ==
  \/ \E S \in SUBSET Clips \ {{}} : Look(S)
  \/ \E call \in calls : CallStep(call)
  \/ \E h \in handlers : HandlerStep(h)
  \/ \E i \in Rows :
       \/ Claim(i)
       \/ \E died \in BOOLEAN : Redeliver(i, died)
       \/ Alert(i)
       \/ Repair(i)

Spec == Init /\ [][Next]_vars

-----------------------------------------------------------------------------
(* Properties *)

\* The type invariant: rows, handlers and calls stay in their domains, and no
\* row is tried more often than its attempts, deaths and repairs allow.
TypeOK ==
  /\ rows \in Seq(Row) /\ Len(rows) <= MaxRows
  /\ handlers \subseteq Handler
  /\ calls \subseteq Call
  /\ acked \subseteq Clips /\ delivered \subseteq Clips
  /\ creates \in Nat
  /\ asked \in 0 .. MaxCalls /\ faults \in 0 .. MaxFaults /\ repairs \in 0 .. MaxRepairs
  /\ slips \subseteq {"crossed", "outOfDate", "missed", "hushed"}

\* At most one create of the walk reaches TROCK Scope, whatever dies, expires,
\* is replaced, repeated or repaired around it -- as long as no handler's write
\* hits the claim of another row, and no replacement is made from a read older
\* than what its predecessors have learned.
OneCreate ==
  slips \cap {"crossed", "outOfDate"} = {} => creates <= 1

\* Where a clip waits: a row that is still to be worked, or a dead one nothing
\* has replaced.
Waits(c) ==
  \E i \in Rows :
    /\ c \in rows[i].artifacts \cup rows[i].extra
    /\ \/ rows[i].status \in {"pending", "processing"}
       \/ rows[i].status = "dead" /\ ~ rows[i].superseded

\* A clip the phone was told is filed is with TROCK Scope or waits on a row: no
\* row completes, and none is replaced, with a clip that is nowhere else --
\* but for the same two windows.
NoClipLost ==
  slips \cap {"crossed", "outOfDate", "missed"} = {} =>
    \A c \in acked \ delivered : Waits(c)

\* Nothing is under way and nothing is due: from here only the phone or a
\* person goes on.
AtRest ==
  /\ handlers = {} /\ calls = {}
  /\ \A i \in Rows : rows[i].status \in {"completed", "dead"} /\ ~ Alertable(rows[i])

\* When the system comes to rest, such a clip is with TROCK Scope or on a dead
\* row that was announced, so that somebody knows of it -- but for the same
\* windows, and a row that died once more after its one alert.
ClipIsHeardOf ==
  AtRest /\ slips = {} =>
    \A c \in acked \ delivered : \E i \in DeadRows :
      rows[i].alerted /\ c \in rows[i].artifacts \cup rows[i].extra

\* What the queueing side says of the handler's last look: no clip can be noted
\* beside a delivery that has stopped looking ("no window between clearing the
\* pending set and becoming unmatchable here"), so none is left there when the
\* row completes.
CompletedIsFolded ==
  \A i \in Rows : rows[i].status = "completed" => rows[i].extra = {}
=============================================================================
