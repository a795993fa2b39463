-------------------------- MODULE PhotoUploadQueue --------------------------
(***************************************************************************)
(* The durable photo upload queue of the field app                         *)
(* (mobile/src/capture/upload-queue.ts, upload-queue-core.ts, upload.ts).  *)
(*                                                                         *)
(* One process (JavaScript: a step runs until its next await) shares a     *)
(* document directory with its own earlier lives.  Three kinds of actor    *)
(* interleave at every await: the enqueue of each photo, the drain that    *)
(* uploads what is queued, and the crew that removes photos.  They meet in *)
(* the index, which only a holder of the queue lock rewrites, and which a  *)
(* kill may catch between any two file operations of a rewrite.            *)
(***************************************************************************)
EXTENDS Naturals, FiniteSets, Functions

CONSTANTS
    Photos,       \* clientUploadIds
    Drainer,      \* the drain, as holder of the queue lock
    Crew,         \* removeQueuedUploads and clearFailedUploads, as holders
    Nobody,       \* no one holds the lock
    MaxAttempts,  \* MAX_UPLOAD_ATTEMPTS
    MaxPasses,    \* MAX_DRAIN_PASSES
    Chunk,        \* DRAIN_CHUNK
    MaxMishaps    \* bound: kills of the process, local copy failures and 401 answers

\* Each holder of the lock is somebody else, and the limits are positive.
ASSUME QueueAssumption ==
    /\ {Drainer, Crew, Nobody} \intersect Photos = {}
    /\ Crew \notin {Drainer, Nobody} /\ Drainer # Nobody
    /\ {MaxAttempts, MaxPasses} \subseteq Nat \ {0}

VARIABLES
    draft,      \* photos the caller still keeps a copy of (review or scorecard draft)
    tmp,        \* index.json.tmp: {} missing or torn, {q} holds queue q
    index,      \* index.json
    bak,        \* index.json.bak
    files,      \* [photo -> [orig, jpg]]: the staging files of a photo
    writing,    \* the rewrite of the index in progress, by the holder of the lock
    call,       \* [photo -> step of the enqueueUploads call that still has to decide on it]
    worker,     \* [photo -> step of its enqueueOne]: "none" iff not in `enqueueing`
    cancelled,  \* cancelledMidEnqueue
    removed,    \* photos the crew removed, or dismissed for good
    awaited,    \* removed photos whose uploads removeQueuedUploadsAndWait awaits
    left,       \* removed photos whose removeQueuedUploadsAndWait has returned
    drain,      \* the drain in progress
    upload,     \* [photo -> step of its uploadCapture in the current chunk]
    gallery,    \* photos the server has confirmed
    stray,      \* confirm requests on the wire that no promise of this life awaits
    mishaps,
    rolledBack, \* history: a kill tore the only copy of the newest index
    overtaken,  \* history: photos the crew took out while a call was yet to decide on them
    charged     \* history: [photo -> attempts the current drain has charged it]

memory == <<writing, call, worker, cancelled, awaited, left, drain, upload>>
disk   == <<tmp, index, bak>>
vars   == <<draft, disk, files, memory, removed, gallery, stray, mishaps, rolledBack,
          overtaken, charged>>

FileStates == {"none", "part", "whole"}
Row  == [at : {"orig", "jpg"}, staging : BOOLEAN, attempts : 0 .. MaxAttempts]
Idle == [stage |-> "idle", owner |-> Nobody, queue |-> <<>>, doomed |-> {}, over |-> FALSE]
Off  == [at |-> "off", plan |-> {}, attempted |-> {}, requested |-> FALSE, pass |-> 0, paused |-> FALSE]
NoFiles == [orig |-> "none", jpg |-> "none"]
NoCharge == [p \in Photos |-> 0]

-----------------------------------------------------------------------------
(***************************************************************************)
(* The index: reading and rewriting it.                                    *)
(***************************************************************************)

\* readQueue: a whole .tmp is the newest state, then the index, then the backup.
ReadQueue ==
    CHOOSE q \in IF tmp   # {} THEN tmp   ELSE
                 IF index # {} THEN index ELSE
                 IF bak   # {} THEN bak   ELSE {<<>>} : TRUE

Queued == DOMAIN ReadQueue

\* isTerminal, isDrainable, isSchedulable.
Terminal(row)    == row.attempts >= MaxAttempts
Drainable(row)   == ~Terminal(row) /\ ~row.staging
Schedulable(row) == ~Terminal(row)

LockFree == writing = Idle

\* The holder's own next step waits for its rewrite; other actors do not.
Awaits(actor) == writing.owner = actor

With(q, p, row) == [x \in DOMAIN q \union {p} |-> IF x \in DOMAIN q THEN q[x] ELSE row]
Without(q, ps)  == Restrict(q, DOMAIN q \ ps)

\* writeQueue begins: the .tmp is opened and truncated.  doomed: the files
\* deleted once the rewrite is in place, still under the lock.
BeginWrite(actor, q, doomed) ==
    /\ writing' = [stage |-> "tmp", owner |-> actor, queue |-> q, doomed |-> doomed, over |-> tmp # {}]
    /\ tmp' = {}
    /\ UNCHANGED <<index, bak>>

NoWrite == UNCHANGED <<writing, disk>>

DeleteFiles(doomed) ==
    files' = [p \in Photos |-> [f \in {"orig", "jpg"} |->
                 IF <<p, f>> \in doomed THEN "none" ELSE files[p][f]]]

\* The steps of writeQueue after the first: the .tmp is whole, the old index
\* becomes the backup and leaves its place, the .tmp takes it.
FillTmp ==
    /\ writing.stage = "tmp"
    /\ tmp' = {writing.queue}
    /\ writing' = [writing EXCEPT !.stage = "swap"]
    /\ UNCHANGED <<index, bak, files>>

BackUp ==
    /\ writing.stage = "swap"
    /\ bak' = IF index # {} THEN index ELSE bak
    /\ index' = {}
    /\ writing' = [writing EXCEPT !.stage = "move"]
    /\ UNCHANGED <<tmp, files>>

Move ==
    /\ writing.stage = "move"
    /\ index' = tmp
    /\ tmp' = {}
    /\ writing' = IF writing.doomed = {} THEN Idle ELSE [writing EXCEPT !.stage = "files"]
    /\ UNCHANGED <<bak, files>>

\* deleteQueuedFiles, and the orphans of a reconciliation.
DropFiles ==
    /\ writing.stage = "files"
    /\ DeleteFiles(writing.doomed)
    /\ writing' = Idle
    /\ UNCHANGED disk

WriteStep ==
    /\ FillTmp \/ BackUp \/ Move \/ DropFiles
    /\ UNCHANGED <<draft, call, worker, cancelled, removed, awaited, left, drain, upload, gallery, stray,
                   mishaps, rolledBack, overtaken, charged>>

-----------------------------------------------------------------------------
(***************************************************************************)
(* enqueueUploads, one worker per photo.                                   *)
(***************************************************************************)

At(p, step)   == worker[p] = step /\ ~Awaits(p)
Goto(p, step) == worker' = [worker EXCEPT ![p] = step]
Turn(p, step) == call' = [call EXCEPT ![p] = step]
Fault         == mishaps < MaxMishaps /\ mishaps' = mishaps + 1

\* A caller hands its photo over, and waits for the directory.  `enqueueing`
\* does not name the photo yet.
Call(p) ==
    /\ p \in draft
    /\ call[p] = "none"
    /\ Turn(p, "made")
    /\ NoWrite
    /\ UNCHANGED <<draft, files, worker, cancelled, mishaps>>

\* The snapshot of the queued ids, a locked section of its own.
Snapshot(p) ==
    /\ call[p] = "made"
    /\ LockFree
    /\ Turn(p, IF p \in Queued THEN "seen" ELSE "unseen")
    /\ NoWrite
    /\ UNCHANGED <<draft, files, worker, cancelled, mishaps>>

\* Mistake: a second enqueue of a photo in flight reports success at once.
AnswerEarly(p) == call[p] = "seen" \/ worker[p] # "none"

\* A photo of the snapshot is the queue's, the caller may drop its copy.
AnswerSkip(p) == call[p] = "seen"

\* The claim under the lock, by the snapshot of the section before: skip, await
\* the enqueue in flight, or own the photo.  The copy of the original starts
\* with the claim.
Claim(p) ==
    /\ call[p] \in {"seen", "unseen", "behind"}
    /\ LockFree
    /\ \/ /\ AnswerSkip(p)
          /\ Turn(p, "none")
          /\ draft' = draft \ {p}
          /\ UNCHANGED <<worker, files>>
       \/ /\ ~AnswerSkip(p) /\ worker[p] # "none"
          /\ Turn(p, "waiting")
          /\ UNCHANGED <<draft, worker, files>>
       \/ /\ ~AnswerSkip(p) /\ worker[p] = "none"
          /\ Turn(p, "none")
          /\ Goto(p, "copy")
          /\ files' = [files EXCEPT ![p].orig = "part"]
          /\ UNCHANGED draft
    /\ NoWrite
    /\ UNCHANGED <<cancelled, mishaps>>

\* The mutex is first come, first served: a claim asked for before the persist of
\* an enqueue comes before whatever that enqueue asks for next.
MyTurn(p) == LockFree /\ call[p] # "behind"

\* The copy of the original is whole, or fails; the caller may have deleted its file.
Copied(p) ==
    /\ At(p, "copy")
    /\ \/ files' = [files EXCEPT ![p].orig = "whole"] /\ Goto(p, "persist") /\ UNCHANGED mishaps
       \/ /\ Fault \/ (p \notin draft /\ UNCHANGED mishaps)
          /\ Goto(p, "failed")
          /\ UNCHANGED files
    /\ NoWrite
    /\ UNCHANGED <<draft, call, cancelled>>

\* Mistake: a cancellation that arrived during the copy is not looked at.
TombstonedNever(p) == FALSE

Tombstoned(p) == p \in cancelled

Original == [at |-> "orig", staging |-> TRUE, attempts |-> 0]

\* The row is persisted as staging before the slow compression, unless the
\* photo was removed while its original was copied.
Persist(p) ==
    /\ At(p, "persist")
    /\ LockFree
    /\ \/ /\ Tombstoned(p)
          /\ cancelled' = cancelled \ {p}
          /\ Goto(p, "dropped")
          /\ NoWrite
       \/ /\ ~Tombstoned(p)
          /\ BeginWrite(p, With(ReadQueue, p, Original), {})
          /\ Goto(p, "compress")
          /\ UNCHANGED cancelled
    /\ call' = IF call[p] = "unseen" THEN [call EXCEPT ![p] = "behind"] ELSE call
    /\ UNCHANGED <<draft, files, mishaps>>

DropCopy(p) ==
    /\ At(p, "dropped")
    /\ DeleteFiles({<<p, "orig">>})
    /\ Goto(p, "done")
    /\ NoWrite
    /\ UNCHANGED <<draft, call, cancelled, mishaps>>

\* compressForEnqueue: the compressed bytes go to a file of their own; it falls
\* back to the original when it fails.
Compress(p) ==
    /\ At(p, "compress")
    /\ \/ /\ files[p].orig = "whole"
          /\ files' = [files EXCEPT ![p].jpg = "part"]
          /\ Goto(p, "stage")
       \/ Goto(p, "unstage") /\ UNCHANGED files
    /\ NoWrite
    /\ UNCHANGED <<draft, call, cancelled, mishaps>>

Staged(p) ==
    /\ At(p, "stage")
    /\ \/ files' = [files EXCEPT ![p].jpg = "whole"] /\ Goto(p, "switch") /\ UNCHANGED mishaps
       \/ Fault /\ DeleteFiles({<<p, "jpg">>}) /\ Goto(p, "unstage")
    /\ NoWrite
    /\ UNCHANGED <<draft, call, cancelled>>

StillWanted(p) == ~Tombstoned(p) /\ p \in Queued

\* The row turns to the complete compressed file, and only then the original goes.
Switch(p) ==
    /\ At(p, "switch")
    /\ MyTurn(p)
    /\ \/ /\ StillWanted(p)
          /\ BeginWrite(p, [ReadQueue EXCEPT ![p].at = "jpg", ![p].staging = FALSE], {})
          /\ Goto(p, "tidy")
       \/ ~StillWanted(p) /\ Goto(p, "discard") /\ NoWrite
    /\ UNCHANGED <<draft, call, files, cancelled, mishaps>>

Tidy(p) ==
    /\ \/ At(p, "tidy") /\ DeleteFiles({<<p, "orig">>})
       \/ At(p, "discard") /\ DeleteFiles({<<p, "orig">>, <<p, "jpg">>})
    /\ Goto(p, "done")
    /\ NoWrite
    /\ UNCHANGED <<draft, call, cancelled, mishaps>>

\* Compression fell back: the original is the row's file and becomes drainable.
Unstage(p) ==
    /\ At(p, "unstage")
    /\ MyTurn(p)
    /\ \/ StillWanted(p) /\ BeginWrite(p, [ReadQueue EXCEPT ![p].staging = FALSE], {})
       \/ ~StillWanted(p) /\ NoWrite
    /\ Goto(p, "done")
    /\ UNCHANGED <<draft, call, files, cancelled, mishaps>>

\* Mistake: the tombstone of a finished enqueue stays.
TombstonesKept(p) == cancelled

TombstonesAfter(p) == cancelled \ {p}

\* The id leaves `enqueueing` and its promise settles: on success the callers
\* (the owner and whoever awaited it) drop their copy of the photo.
Release(p) ==
    /\ worker[p] \in {"done", "failed"}
    /\ MyTurn(p)
    /\ Goto(p, "none")
    /\ cancelled' = TombstonesAfter(p)
    /\ draft' = IF worker[p] = "done" THEN draft \ {p} ELSE draft
    /\ call' = IF call[p] = "waiting" THEN [call EXCEPT ![p] = "none"] ELSE call
    /\ NoWrite
    /\ UNCHANGED <<files, mishaps>>

EnqueueStep(p) ==
    /\ \/ Call(p) \/ Snapshot(p) \/ Claim(p) \/ Copied(p) \/ Persist(p) \/ DropCopy(p) \/ Compress(p)
       \/ Staged(p) \/ Switch(p) \/ Tidy(p) \/ Unstage(p) \/ Release(p)
    /\ UNCHANGED <<removed, awaited, left, drain, upload, gallery, stray, rolledBack, overtaken,
                   charged>>

-----------------------------------------------------------------------------
(***************************************************************************)
(* The crew: removing a photo, dismissing the failed ones.                 *)
(***************************************************************************)

\* The call under way may yet own the photo, and nothing tells it of a removal.
MayOwn(p) == call[p] \in {"made", "unseen"}

\* The screen drops the photo from its own draft, then removeQueuedUploads:
\* a photo in mid-enqueue is tombstoned, a queued one loses row and file.
Remove(p) ==
    /\ p \notin removed
    /\ LockFree
    /\ draft' = draft \ {p}
    /\ \/ MayOwn(p) /\ overtaken' = overtaken \union {p} /\ UNCHANGED removed
       \/ ~MayOwn(p) /\ removed' = removed \union {p} /\ UNCHANGED overtaken
    /\ cancelled' = IF worker[p] # "none" THEN cancelled \union {p} ELSE cancelled
    /\ \/ p \in Queued    /\ BeginWrite(Crew, Without(ReadQueue, {p}), {<<p, ReadQueue[p].at>>})
       \/ p \notin Queued /\ NoWrite
    /\ UNCHANGED <<files, awaited, left>>

\* Uploads whose promise is registered in activeUploadPromises.
Active == {p \in Photos : upload[p] \in {"sending", "confirming", "landed"}}

\* Mistake: the removal returns without waiting for a confirm already sent.
ToAwaitNothing == {}

\* removeQueuedUploadsAndWait reads the registry once the removal is done.
ToAwait == Active

Wait(p) ==
    /\ p \in removed \ (left \union awaited)
    /\ ~Awaits(Crew)
    /\ \/ p \in ToAwait    /\ awaited' = awaited \union {p} /\ UNCHANGED left
       \/ p \notin ToAwait /\ left' = left \union {p} /\ UNCHANGED awaited
    /\ NoWrite
    /\ UNCHANGED <<draft, files, cancelled, removed, overtaken>>

WaitOver(p) ==
    /\ p \in awaited \ Active
    /\ awaited' = awaited \ {p}
    /\ left' = left \union {p}
    /\ NoWrite
    /\ UNCHANGED <<draft, files, cancelled, removed, overtaken>>

\* The caller keeps its copy, and no answer it waits for makes it drop it: it
\* enqueues the photo again at the next resume.
Keeps(p) == p \in draft /\ worker[p] = "none" /\ call[p] # "seen"

\* clearFailedUploads: the terminal rows and their files.  It leaves no tombstone,
\* and no call under way learns of it: one that saw the row still skips it.
Dismiss ==
    /\ LockFree
    /\ LET failed == {p \in Queued : Terminal(ReadQueue[p])}
           out    == {p \in failed : p \notin draft /\ ~MayOwn(p)}
       IN  /\ failed # {}
           /\ removed' = removed \union out
           /\ overtaken' = overtaken \union {p \in failed \ out : ~Keeps(p)}
           /\ BeginWrite(Crew, Without(ReadQueue, failed), {<<p, ReadQueue[p].at>> : p \in failed})
    /\ UNCHANGED <<draft, files, cancelled, awaited, left>>

CrewStep ==
    /\ Dismiss \/ \E p \in Photos : Remove(p) \/ Wait(p) \/ WaitOver(p)
    /\ UNCHANGED <<call, worker, drain, upload, gallery, stray, mishaps, rolledBack, charged>>

-----------------------------------------------------------------------------
(***************************************************************************)
(* drainUploadQueue.                                                       *)
(***************************************************************************)

DrainAt(step) == drain.at = step /\ ~Awaits(Drainer)

\* Scheduled when a row may be acted on (the getSchedulableCount gate).
StartDrain ==
    /\ DrainAt("off")
    /\ \E p \in Queued : Schedulable(ReadQueue[p])
    /\ drain' = [Off EXCEPT !.at = "reconcile", !.pass = 1]
    /\ charged' = NoCharge
    /\ NoWrite
    /\ UNCHANGED <<files, upload>>

\* A second call for the owner of the drain in progress only leaves a request.
RequestDrain ==
    /\ drain.at # "off"
    /\ ~drain.requested
    /\ drain' = [drain EXCEPT !.requested = TRUE]
    /\ NoWrite
    /\ UNCHANGED <<files, upload, charged>>

\* Mistake: staging rows are left to the enqueue that wrote them, alive or not.
UnstuckNothing(q) == q

\* A staging row whose enqueue is not in flight becomes drainable.
Unstuck(q) == [p \in DOMAIN q |-> IF worker[p] = "none" THEN [q[p] EXCEPT !.staging = FALSE] ELSE q[p]]

\* Staging files that no row names, of photos not in mid-enqueue.
Orphans(q) ==
    {file \in Photos \X {"orig", "jpg"} :
        LET p == file[1]
            f == file[2]
        IN  /\ files[p][f] # "none"
            /\ worker[p] = "none"
            /\ ~(p \in DOMAIN q /\ q[p].at = f)}

\* reconcileOwnerStorage.  The lock keeps `enqueueing` still between the
\* rewrite and the deletion of the orphans.
Reconcile ==
    /\ DrainAt("reconcile")
    /\ LockFree
    /\ LET q == Unstuck(ReadQueue)
       IN  \/ q # ReadQueue /\ BeginWrite(Drainer, q, Orphans(q)) /\ UNCHANGED files
           \/ q = ReadQueue /\ DeleteFiles(Orphans(q)) /\ NoWrite
    /\ drain' = [drain EXCEPT !.at = "plan"]
    /\ UNCHANGED <<upload, charged>>

\* Mistake: a follow-up pass plans what this drain has already attempted.
FreshAgain == {p \in Queued : Drainable(ReadQueue[p])}

\* What a pass plans: drainable rows that this drain has not attempted yet.
Fresh == {p \in Queued : Drainable(ReadQueue[p]) /\ p \notin drain.attempted}

Plan ==
    /\ DrainAt("plan")
    /\ LockFree
    /\ drain' = [drain EXCEPT !.requested = FALSE,
                              !.plan = Fresh,
                              !.at = IF Fresh = {} THEN "wind" ELSE "select"]
    /\ NoWrite
    /\ UNCHANGED <<files, upload, charged>>

Least(a, b) == IF a < b THEN a ELSE b

\* The next chunk, of what is still queued and drainable.  planDrainOrder fixes
\* the order of the plan; here a chunk is any part of it of the right size.
Select ==
    /\ DrainAt("select")
    /\ drain.plan # {}
    /\ LockFree
    /\ \E c \in SUBSET drain.plan :
          LET live == {p \in c : p \in Queued /\ Drainable(ReadQueue[p])}
          IN  /\ Cardinality(c) = Least(Chunk, Cardinality(drain.plan))
              /\ upload' = [p \in Photos |-> IF p \in live THEN "selected" ELSE upload[p]]
              /\ drain' = [drain EXCEPT !.plan = @ \ c,
                                        !.attempted = @ \union live,
                                        !.at = IF live = {} THEN "select" ELSE "upload"]
    /\ NoWrite
    /\ UNCHANGED <<files, charged>>

Chunked == {p \in Photos : upload[p] # "idle"}
Outcome(o) == {p \in Photos : upload[p] = o}
Settled == \A p \in Chunked : upload[p] \in {"ok", "failed", "auth", "cancelled"}

\* The chunk has settled: removeQueuedItems takes what was confirmed out.
CommitSent ==
    /\ DrainAt("upload")
    /\ Settled
    /\ LockFree
    /\ LET sent == Outcome("ok")
       IN  \/ /\ sent # {}
              /\ BeginWrite(Drainer, Without(ReadQueue, sent),
                            {<<p, ReadQueue[p].at>> : p \in sent \intersect Queued})
           \/ sent = {} /\ NoWrite
    /\ drain' = [drain EXCEPT !.at = "record", !.paused = Outcome("auth") # {}]
    /\ UNCHANGED <<files, upload, charged>>

\* recordFailedAttempts: a 401 and a cancellation are not among the failures.
RecordFailed ==
    /\ DrainAt("record")
    /\ LockFree
    /\ LET failed == Outcome("failed") \intersect Queued
       IN  /\ \/ /\ failed # {}
                 /\ BeginWrite(Drainer,
                        [p \in Queued |-> IF p \in failed
                             THEN [ReadQueue[p] EXCEPT !.attempts = @ + 1] ELSE ReadQueue[p]], {})
              \/ failed = {} /\ NoWrite
           /\ charged' = [p \in Photos |-> IF p \in failed THEN charged[p] + 1 ELSE charged[p]]
    /\ upload' = [p \in Photos |-> "idle"]
    /\ drain' = [drain EXCEPT !.at = IF drain.paused THEN "decide" ELSE "select"]
    /\ UNCHANGED files

\* The bottom of the pass loop.
Decide ==
    /\ DrainAt("decide") \/ (DrainAt("select") /\ drain.plan = {})
    /\ drain' = IF drain.paused \/ ~drain.requested \/ drain.pass = MaxPasses
                THEN [drain EXCEPT !.at = "wind", !.plan = {}]
                ELSE [drain EXCEPT !.at = "plan", !.pass = @ + 1]
    /\ NoWrite
    /\ UNCHANGED <<files, upload, charged>>

\* The guard drops; a request that came since Decide is dropped with it.
Wind ==
    /\ DrainAt("wind")
    /\ drain' = Off
    /\ charged' = NoCharge
    /\ NoWrite
    /\ UNCHANGED <<files, upload>>

DrainFrame == UNCHANGED <<draft, call, worker, cancelled, removed, awaited, left, gallery, stray,
                          mishaps, rolledBack, overtaken>>

DrainStep ==
    /\ \/ StartDrain \/ Reconcile \/ Plan \/ Select \/ CommitSent \/ RecordFailed \/ Decide \/ Wind
    /\ DrainFrame

RequestStep == RequestDrain /\ DrainFrame

-----------------------------------------------------------------------------
(***************************************************************************)
(* uploadCapture, one per photo of the chunk, and the server's confirm.    *)
(***************************************************************************)

Become(p, step) == upload' = [upload EXCEPT ![p] = step]

\* A slot of runConcurrentUploads is free: the promise is registered.
Start(p) == upload[p] = "selected" /\ Become(p, "sending") /\ UNCHANGED <<gallery, stray, mishaps>>

HasBytes(p) == "whole" \in {files[p].orig, files[p].jpg}

\* shouldConfirm: a lock-free read, just before the confirm.
ShouldConfirm(p) == p \in Queued

\* The bytes are PUT, then the last look at the queue.
Put(p) ==
    /\ upload[p] = "sending"
    /\ HasBytes(p)
    /\ Become(p, IF ShouldConfirm(p) THEN "confirming" ELSE "cancelled")
    /\ UNCHANGED <<gallery, stray, mishaps>>

\* The request for an upload URL, the PUT or the confirm fails, or answers 401.
UploadFails(p) ==
    /\ upload[p] \in {"sending", "confirming"}
    /\ \/ Become(p, "failed") /\ UNCHANGED mishaps
       \/ Fault /\ Become(p, "auth")
    /\ UNCHANGED <<gallery, stray>>

\* The app gives the confirm up, but the server may still get it.
Abandoned(p) ==
    /\ upload[p] = "confirming"
    /\ Fault
    /\ Become(p, "failed")
    /\ stray' = stray \union {p}
    /\ UNCHANGED gallery

\* confirm-upload: one row per clientUploadId (the unique index), however often it is sent.
Confirmed(p) ==
    /\ upload[p] = "confirming"
    /\ gallery' = gallery \union {p}
    /\ Become(p, "landed")
    /\ UNCHANGED <<stray, mishaps>>

\* The answer arrives or is lost.
Answered(p) ==
    /\ upload[p] = "landed"
    /\ Become(p, "ok") \/ Become(p, "failed")
    /\ UNCHANGED <<gallery, stray, mishaps>>

StrayLands(p) ==
    /\ p \in stray
    /\ stray' = stray \ {p}
    /\ gallery' = gallery \union {p}
    /\ UNCHANGED <<upload, mishaps>>

UploadFrame == UNCHANGED <<draft, disk, files, writing, call, worker, cancelled, removed, awaited, left,
                           drain, rolledBack, overtaken, charged>>

UploadStep(p) ==
    /\ Start(p) \/ Put(p) \/ UploadFails(p) \/ Confirmed(p) \/ Answered(p)
    /\ UploadFrame

WireStep(p) == (Abandoned(p) \/ StrayLands(p)) /\ UploadFrame

-----------------------------------------------------------------------------
\* The app is killed: memory goes, the directory and the drafts stay as they are,
\* a confirm on the wire may still arrive.  A removal that had not reached the
\* disk did not happen.  A kill while the .tmp is written over a whole .tmp that
\* an earlier kill had left loses the newest index.
Kill ==
    /\ mishaps < MaxMishaps
    /\ mishaps' = mishaps + 1
    /\ writing' = Idle
    /\ call' = [p \in Photos |-> "none"]
    /\ worker' = [p \in Photos |-> "none"]
    /\ cancelled' = {}
    /\ awaited' = {}
    /\ left' = {}
    /\ drain' = Off
    /\ charged' = NoCharge
    /\ upload' = [p \in Photos |-> "idle"]
    /\ stray' = stray \union Outcome("confirming")
    /\ removed' = removed \ (draft \union Queued)
    /\ overtaken' = overtaken \ (draft \union Queued)
    /\ rolledBack' = (rolledBack \/ (writing.stage = "tmp" /\ writing.over))
    /\ UNCHANGED <<draft, disk, files, gallery>>

Init ==
    /\ draft = Photos
    /\ tmp = {} /\ index = {} /\ bak = {}
    /\ files = [p \in Photos |-> NoFiles]
    /\ writing = Idle
    /\ call = [p \in Photos |-> "none"]
    /\ worker = [p \in Photos |-> "none"]
    /\ cancelled = {} /\ removed = {} /\ awaited = {} /\ left = {}
    /\ drain = Off
    /\ upload = [p \in Photos |-> "idle"]
    /\ gallery = {} /\ stray = {}
    /\ mishaps = 0
    /\ rolledBack = FALSE /\ overtaken = {}
    /\ charged = NoCharge

Next ==
    \/ WriteStep \/ CrewStep \/ DrainStep \/ RequestStep \/ Kill
    \/ \E p \in Photos : EnqueueStep(p) \/ UploadStep(p) \/ WireStep(p)

Spec == Init /\ [][Next]_vars

\* What is started goes on (a promise settles, the mutex is FIFO), a photo the
\* caller still keeps is enqueued again at the next resume, and a drain is
\* scheduled whenever a resume, a capture or the background task finds a row for
\* it.  Nothing is assumed of the network: a request may fail every time.
Fairness ==
    /\ WF_vars(WriteStep)
    /\ WF_vars(DrainStep)
    /\ \A p \in Photos : WF_vars(EnqueueStep(p)) /\ WF_vars(UploadStep(p))

FairSpec == Spec /\ Fairness

-----------------------------------------------------------------------------
(***************************************************************************)
(* Properties.                                                             *)
(***************************************************************************)

IsQueue(q) == DOMAIN q \subseteq Photos /\ \A p \in DOMAIN q : q[p] \in Row

TypeOK ==
    /\ draft \subseteq Photos /\ gallery \subseteq Photos /\ stray \subseteq Photos
    /\ removed \subseteq Photos /\ awaited \subseteq removed /\ left \subseteq removed
    /\ \A copies \in {tmp, index, bak} : Cardinality(copies) <= 1 /\ \A q \in copies : IsQueue(q)
    /\ files \in [Photos -> [orig : FileStates, jpg : FileStates]]
    /\ writing.stage \in {"idle", "tmp", "swap", "move", "files"}
    /\ writing.owner \in Photos \union {Drainer, Crew, Nobody}
    /\ call \in [Photos -> {"none", "made", "seen", "unseen", "behind", "waiting"}]
    /\ overtaken \subseteq Photos
    /\ worker \in [Photos -> {"none", "copy", "persist", "dropped", "compress", "stage", "switch",
                              "tidy", "discard", "unstage", "done", "failed"}]
    /\ cancelled \subseteq {p \in Photos : worker[p] # "none"}
    /\ drain.at \in {"off", "reconcile", "plan", "select", "upload", "record", "decide", "wind"}
    /\ drain.plan \subseteq Photos /\ drain.attempted \subseteq Photos
    /\ drain.pass \in 0 .. MaxPasses
    /\ upload \in [Photos -> {"idle", "selected", "sending", "confirming", "landed", "ok", "failed",
                              "auth", "cancelled"}]

\* The photo is in the index a relaunch would read, and the file its row names is whole.
Durable(p) == p \in Queued /\ files[p][ReadQueue[p].at] = "whole"

\* A rewrite truncates the .tmp an earlier kill had left as the newest index: until
\* it is whole again there is only the older index (readQueue falls back to it),
\* and a second kill leaves it at that.
Exposed == rolledBack \/ (writing.stage = "tmp" /\ writing.over)

\* A captured photo is never lost: at every moment, so also if the app were
\* killed there, the caller still has its copy, or the queue has row and file, or
\* the server has it, or the crew removed it.  Callers delete their copy on the
\* word of enqueueUploads alone, which rests on a snapshot that may be stale when
\* the claim goes by it.  The exceptions are Exposed (two kills in two rewrites in a
\* row) and overtaken: the crew's dismissal or removal fell between the snapshot, or
\* the call, and its answer, so that the caller was told that the queue has a photo
\* it has no more.
CaptureKept ==
    ~Exposed =>
        \A p \in Photos : p \in draft \union gallery \union removed \union overtaken \/ Durable(p)

\* What the crew removed does not come back into the queue: not by the enqueue it
\* overtook, not by a drain's commit of an older list, not after a kill.  It says
\* nothing of the overtaken: a call that has not claimed its photo when the crew
\* removes it finds no tombstone.
RemovedStaysOut == ~Exposed /\ ~Awaits(Crew) => removed \intersect Queued = {}

\* Once removeQueuedUploadsAndWait has returned, so that the caller may
\* reconcile with the server, no confirm of this photo lands, unless its request
\* was on the wire with no promise left to await (the app was killed, or gave
\* the request up).
NoConfirmAfterWait ==
    [][\A p \in left : p \in gallery' => p \in gallery \union stray]_vars

\* One drain charges a photo at most one of its MAX_UPLOAD_ATTEMPTS, however many
\* passes later captures make it run: an offline burst does not make recoverable
\* photos terminal.
OneChargePerDrain == \A p \in Photos : charged[p] <= 1

\* Every capture ends in the gallery, removed, or failed where the crew sees it,
\* whatever step of enqueue, drain or rewrite a kill interrupted: no row stays
\* staging and no photo waits for an enqueue that died.
EveryPhotoSettles ==
    \A p \in Photos :
        <>[](\/ p \in gallery \union removed \union overtaken \/ rolledBack
             \/ p \in Queued /\ Terminal(ReadQueue[p]))
=============================================================================
