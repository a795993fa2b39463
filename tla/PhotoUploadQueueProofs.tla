----------------------- MODULE PhotoUploadQueueProofs -----------------------
(***************************************************************************)
(* Theorems about PhotoUploadQueue, for every set of photos, every limit   *)
(* and any number of mishaps.                                     *)
(***************************************************************************)
EXTENDS PhotoUploadQueue, FiniteSetTheorems, TLAPS

-----------------------------------------------------------------------------
(* Queues, and what the rewrites make of them *)

QueueSet == UNION {[D -> Row] : D \in SUBSET Photos}

LEMMA QueueForm ==
  ASSUME NEW q \in QueueSet
  PROVE  /\ DOMAIN q \subseteq Photos /\ q = [p \in DOMAIN q |-> q[p]]
         /\ \A p \in DOMAIN q : q[p] \in Row
         /\ IsQueue(q)
<1>1. PICK D \in SUBSET Photos : q \in [D -> Row]
  BY DEF QueueSet
<1> QED
  BY <1>1 DEF IsQueue

LEMMA QueueMade ==
  ASSUME NEW q, q = [p \in DOMAIN q |-> q[p]],
         DOMAIN q \subseteq Photos, \A p \in DOMAIN q : q[p] \in Row
  PROVE  q \in QueueSet
<1>1. q \in [DOMAIN q -> Row]
  OBVIOUS
<1> QED
  BY <1>1 DEF QueueSet

LEMMA EmptyQueue == << >> \in QueueSet /\ DOMAIN << >> = {}
<1>1. DOMAIN << >> = {}
  OBVIOUS
<1>2. << >> = [p \in DOMAIN << >> |-> << >>[p]]
  BY <1>1
<1> QED
  BY <1>1, <1>2, QueueMade

\* Rows that agree but for staging.
SameRow(r, s) == s.at = r.at /\ s.attempts = r.attempts

LEMMA OriginalRow ==
  ASSUME NEW n \in Nat, MaxAttempts = n, n > 0
  PROVE  /\ Original \in Row /\ Original.at = "orig" /\ Original.attempts < MaxAttempts
BY DEF Original, Row

\* Persist adds the row of its photo.
LEMMA AddedRow ==
  ASSUME NEW r \in QueueSet, NEW p \in Photos, NEW q, q = With(r, p, Original),
         Original \in Row
  PROVE  /\ q \in QueueSet /\ DOMAIN q = DOMAIN r \cup {p}
         /\ \A x \in DOMAIN r : q[x] = r[x]
         /\ p \notin DOMAIN r => q[p] = Original
<1>4. /\ DOMAIN q = DOMAIN r \cup {p}
      /\ \A x \in DOMAIN r : q[x] = r[x]
      /\ p \notin DOMAIN r => q[p] = Original
      /\ q = [x \in DOMAIN q |-> q[x]]
  BY DEF With
<1>5. \A x \in DOMAIN q : q[x] \in Row
  BY <1>4, QueueForm
<1> QED
  BY <1>4, <1>5, QueueForm, QueueMade

LEMMA RestrictedQueue ==
  ASSUME NEW r \in QueueSet, NEW ps, NEW q, q = Without(r, ps)
  PROVE  /\ q \in QueueSet /\ DOMAIN q = DOMAIN r \ ps
         /\ \A x \in DOMAIN q : q[x] = r[x]
<1>1. q = [x \in DOMAIN r \ ps |-> r[x]]
  BY DEF Without, Restrict
<1>2. DOMAIN q = DOMAIN r \ ps /\ (\A x \in DOMAIN q : q[x] = r[x]) /\ q = [x \in DOMAIN q |-> q[x]]
  BY <1>1
<1> QED
  BY <1>2, QueueForm, QueueMade

\* The rewrites of a row.
Ready(row) == [row EXCEPT !.staging = FALSE]
Switched(row) == [row EXCEPT !.at = "jpg", !.staging = FALSE]
Charged(row) == [row EXCEPT !.attempts = @ + 1]

LEMMA ReadyRow ==
  ASSUME NEW row \in Row
  PROVE  Ready(row) \in Row /\ SameRow(row, Ready(row))
BY DEF Ready, Row, SameRow

LEMMA SwitchedRow ==
  ASSUME NEW row \in Row
  PROVE  /\ Switched(row) \in Row /\ Switched(row).at = "jpg"
         /\ Switched(row).attempts = row.attempts
BY DEF Switched, Row

LEMMA ChargedRow ==
  ASSUME NEW row \in Row, MaxAttempts \in Nat, row.attempts < MaxAttempts
  PROVE  Charged(row) \in Row /\ Charged(row).at = row.at
BY DEF Charged, Row

LEMMA RowChanged ==
  ASSUME NEW r \in QueueSet, NEW p \in DOMAIN r, NEW row \in Row,
         NEW q, q = [r EXCEPT ![p] = row]
  PROVE  /\ q \in QueueSet /\ DOMAIN q = DOMAIN r /\ q[p] = row
         /\ \A x \in DOMAIN r : x # p => q[x] = r[x]
<1>1. r = [x \in DOMAIN r |-> r[x]] /\ \A x \in DOMAIN r : r[x] \in Row
  BY QueueForm
<1>2. q = [x \in DOMAIN r |-> IF x = p THEN row ELSE r[x]]
  BY <1>1
<1>3. DOMAIN q = DOMAIN r /\ (\A x \in DOMAIN q : q[x] \in Row) /\ q = [x \in DOMAIN q |-> q[x]]
  BY <1>1, <1>2
<1> QED
  BY <1>2, <1>3, QueueForm, QueueMade

\* A sum of rewrites: the same rows, with the same files and attempts.
SameRows(r, q) ==
  /\ DOMAIN q = DOMAIN r
  /\ \A x \in DOMAIN r : SameRow(r[x], q[x])

LEMMA ReadyQueue ==
  ASSUME NEW r \in QueueSet, NEW p \in DOMAIN r,
         NEW q, q = [r EXCEPT ![p] = Ready(r[p])]
  PROVE  q \in QueueSet /\ SameRows(r, q)
<1>1. r[p] \in Row
  BY QueueForm
<1>2. PICK row \in Row : row = Ready(r[p]) /\ SameRow(r[p], row)
  BY <1>1, ReadyRow
<1>3. q = [r EXCEPT ![p] = row]
  BY <1>2
<1>4. /\ q \in QueueSet /\ DOMAIN q = DOMAIN r /\ q[p] = row
      /\ \A x \in DOMAIN r : x # p => q[x] = r[x]
  BY <1>3, RowChanged
<1> QED
  BY <1>2, <1>4 DEF SameRows, SameRow

LEMMA UnstuckQueue ==
  ASSUME NEW r \in QueueSet
  PROVE  Unstuck(r) \in QueueSet /\ SameRows(r, Unstuck(r))
<1>1. Unstuck(r) = [p \in DOMAIN r |-> IF worker[p] = "none" THEN Ready(r[p]) ELSE r[p]]
  BY DEF Unstuck, Ready
<1>2. DOMAIN Unstuck(r) = DOMAIN r
  BY <1>1
<1>3. ASSUME NEW p \in DOMAIN r
      PROVE  Unstuck(r)[p] \in Row /\ SameRow(r[p], Unstuck(r)[p])
  <2>1. r[p] \in Row
    BY QueueForm
  <2>2. Unstuck(r)[p] = IF worker[p] = "none" THEN Ready(r[p]) ELSE r[p]
    BY <1>1
  <2> QED
    BY <2>1, <2>2, ReadyRow DEF SameRow
<1>4. Unstuck(r) = [p \in DOMAIN Unstuck(r) |-> Unstuck(r)[p]]
  BY <1>1
<1>5. PICK q : q = Unstuck(r)
  OBVIOUS
<1>6. q \in QueueSet
  BY <1>2, <1>3, <1>4, <1>5, QueueForm, QueueMade
<1> QED
  BY <1>2, <1>3, <1>5, <1>6 DEF SameRows

LEMMA ChargedQueue ==
  ASSUME NEW r \in QueueSet, NEW failed, MaxAttempts \in Nat,
         \A p \in failed \cap DOMAIN r : r[p].attempts < MaxAttempts,
         NEW q, q = [p \in DOMAIN r |-> IF p \in failed THEN Charged(r[p]) ELSE r[p]]
  PROVE  /\ q \in QueueSet /\ DOMAIN q = DOMAIN r
         /\ \A p \in DOMAIN r : q[p].at = r[p].at
<1>1. ASSUME NEW p \in DOMAIN r
      PROVE  q[p] \in Row /\ q[p].at = r[p].at
  <2>1. r[p] \in Row
    BY QueueForm
  <2>2. q[p] = IF p \in failed THEN Charged(r[p]) ELSE r[p]
    OBVIOUS
  <2> QED
    BY <2>1, <2>2, ChargedRow
<1>2. DOMAIN q = DOMAIN r /\ q = [p \in DOMAIN q |-> q[p]]
  OBVIOUS
<1> QED
  BY <1>1, <1>2, QueueForm, QueueMade

-----------------------------------------------------------------------------
(* The disk *)

FileNames == Photos \X {"orig", "jpg"}

Writing ==
  [stage : {"idle", "tmp", "swap", "move", "files"},
   owner : Photos \cup {Drainer, Crew, Nobody},
   queue : QueueSet, doomed : SUBSET FileNames, over : BOOLEAN]

Copy(c) == c = {} \/ \E q \in QueueSet : c = {q}

\* Each file of the index is missing or one queue, and a rewrite that is
\* through with its .tmp has its queue there.
DiskInv ==
  /\ Copy(tmp) /\ Copy(index) /\ Copy(bak)
  /\ writing \in Writing
  /\ writing.stage = "idle" => writing = Idle
  /\ writing.stage = "tmp" => tmp = {}
  /\ writing.stage \in {"swap", "move"} => tmp = {writing.queue}

\* The queue there will be once the rewrite is through.
Newest == IF writing.stage = "tmp" THEN writing.queue ELSE ReadQueue

\* A rewrite that found no .tmp leaves the index standing until its own is whole.
Standing == writing.stage = "tmp" /\ ~ writing.over

\* What a relaunch may find, now and when the rewrite is through.
Views == {Newest} \cup (IF Standing THEN {ReadQueue} ELSE {})

LEMMA OnlyMember ==
  ASSUME NEW S, NEW q, S = {q}
  PROVE  (CHOOSE x \in S : TRUE) = q
OBVIOUS

\* The first of the three files there is.
FirstCopy ==
  IF tmp   # {} THEN tmp   ELSE
  IF index # {} THEN index ELSE
  IF bak   # {} THEN bak   ELSE {<< >>}

LEMMA ReadFirst ==
  ASSUME NEW q
  PROVE  /\ FirstCopy = {q} => ReadQueue = q
         /\ FirstCopy' = {q} => ReadQueue' = q
<1>1. ReadQueue = CHOOSE x \in FirstCopy : TRUE
  BY DEF ReadQueue, FirstCopy
<1>2. ReadQueue' = CHOOSE x \in FirstCopy' : TRUE
  BY DEF ReadQueue, FirstCopy
<1>3. PICK S : S = FirstCopy
  OBVIOUS
<1>4. PICK T : T = FirstCopy'
  OBVIOUS
<1>5. FirstCopy = {q} => ReadQueue = q
  BY <1>1, <1>3, OnlyMember
<1>6. FirstCopy' = {q} => ReadQueue' = q
  BY <1>2, <1>4, OnlyMember
<1> QED
  BY <1>5, <1>6

LEMMA ReadCopy ==
  ASSUME NEW q
  PROVE  /\ tmp = {q} => ReadQueue = q
         /\ tmp = {} /\ index = {q} => ReadQueue = q
         /\ tmp = {} /\ index = {} /\ bak = {q} => ReadQueue = q
         /\ tmp = {} /\ index = {} /\ bak = {} => ReadQueue = << >>
<1>0. {q} # {}
  OBVIOUS
<1>1. tmp = {q} => FirstCopy = {q}
  BY <1>0 DEF FirstCopy
<1>2. tmp = {} /\ index = {q} => FirstCopy = {q}
  BY <1>0 DEF FirstCopy
<1>3. tmp = {} /\ index = {} /\ bak = {q} => FirstCopy = {q}
  BY <1>0 DEF FirstCopy
<1>4. tmp = {} /\ index = {} /\ bak = {} => FirstCopy = {<< >>}
  BY DEF FirstCopy
<1> QED
  BY <1>1, <1>2, <1>3, <1>4, ReadFirst

LEMMA ReadNext ==
  ASSUME NEW q
  PROVE  /\ tmp' = {q} => ReadQueue' = q
         /\ tmp' = {} /\ index' = {q} => ReadQueue' = q
<1>0. {q} # {}
  OBVIOUS
<1>1. tmp' = {q} => FirstCopy' = {q}
  BY <1>0 DEF FirstCopy
<1>2. tmp' = {} /\ index' = {q} => FirstCopy' = {q}
  BY <1>0 DEF FirstCopy
<1> QED
  BY <1>1, <1>2, ReadFirst

LEMMA ReadType ==
  ASSUME DiskInv
  PROVE  ReadQueue \in QueueSet /\ Newest \in QueueSet
<1>1. ReadQueue \in QueueSet
  <2>1. CASE tmp # {}
    BY <2>1, ReadCopy DEF DiskInv, Copy
  <2>2. CASE tmp = {} /\ index # {}
    BY <2>2, ReadCopy DEF DiskInv, Copy
  <2>3. CASE tmp = {} /\ index = {} /\ bak # {}
    BY <2>3, ReadCopy DEF DiskInv, Copy
  <2>4. CASE tmp = {} /\ index = {} /\ bak = {}
    BY <2>4, ReadCopy, EmptyQueue
  <2> QED
    BY <2>1, <2>2, <2>3, <2>4
<1>2. writing.queue \in QueueSet
  BY DEF DiskInv, Writing
<1> QED
  BY <1>1, <1>2 DEF Newest

LEMMA ReadSame ==
  ASSUME UNCHANGED disk
  PROVE  ReadQueue' = ReadQueue
BY DEF ReadQueue, disk

LEMMA FreeViews ==
  ASSUME LockFree
  PROVE  /\ Newest = ReadQueue /\ Views = {ReadQueue} /\ writing.stage = "idle"
         /\ ~ Standing /\ writing.doomed = {} /\ writing.owner = Nobody
BY DEF LockFree, Idle, Newest, Views, Standing

\* The effect of the steps of a rewrite on what a relaunch may find.
LEMMA Begins ==
  ASSUME DiskInv, LockFree, NEW actor, NEW q, NEW doomed, BeginWrite(actor, q, doomed)
  PROVE  /\ writing'.stage = "tmp" /\ writing'.owner = actor /\ writing'.queue = q
         /\ writing'.doomed = doomed /\ (writing'.over <=> tmp # {})
         /\ tmp' = {} /\ index' = index /\ bak' = bak
         /\ Newest' = q
         /\ Standing' <=> tmp = {}
         /\ Standing' => ReadQueue' = ReadQueue
         /\ Views' \subseteq {q, ReadQueue}
<1>1. /\ writing'.stage = "tmp" /\ writing'.owner = actor /\ writing'.queue = q
      /\ writing'.doomed = doomed /\ (writing'.over <=> tmp # {})
      /\ tmp' = {} /\ index' = index /\ bak' = bak
  BY DEF BeginWrite
<1>2. Newest' = q /\ (Standing' <=> tmp = {})
  BY <1>1 DEF Newest, Standing
<1>3. Standing' => ReadQueue' = ReadQueue
  BY <1>1, <1>2, ReadSame DEF disk
<1> QED
  BY <1>1, <1>2, <1>3 DEF Views

LEMMA BeginsTyped ==
  ASSUME DiskInv, LockFree, NEW actor \in Photos \cup {Drainer, Crew}, NEW q \in QueueSet,
         NEW doomed, doomed \subseteq FileNames, BeginWrite(actor, q, doomed)
  PROVE  DiskInv'
<1>1. PICK over \in BOOLEAN : over = (tmp # {})
  <2>1. (tmp # {}) \in BOOLEAN
    OBVIOUS
  <2> QED
    BY <2>1, Zenon
<1>2. writing' = [stage |-> "tmp", owner |-> actor, queue |-> q, doomed |-> doomed, over |-> over]
  BY <1>1 DEF BeginWrite
<1>3. writing' \in Writing /\ writing'.stage = "tmp"
  BY <1>2 DEF Writing
<1> QED
  BY <1>3 DEF BeginWrite, DiskInv, Copy

LEMMA Pauses ==
  ASSUME NoWrite
  PROVE  /\ ReadQueue' = ReadQueue /\ Newest' = Newest /\ Views' = Views
         /\ Standing' <=> Standing
         /\ writing' = writing /\ tmp' = tmp
<1>1. ReadQueue' = ReadQueue /\ writing' = writing /\ tmp' = tmp
  BY ReadSame DEF NoWrite, disk
<1>2. Newest' = Newest
  BY <1>1 DEF Newest
<1>3. Standing' <=> Standing
  BY <1>1 DEF Standing
<1> QED
  BY <1>1, <1>2, <1>3 DEF Views

LEMMA PausesTyped ==
  ASSUME DiskInv, NoWrite
  PROVE  DiskInv'
BY DEF DiskInv, NoWrite, disk

WritesOn == FillTmp \/ BackUp \/ Move \/ DropFiles

LEMMA Proceeds ==
  ASSUME DiskInv, WritesOn
  PROVE  /\ DiskInv'
         /\ Newest' = Newest /\ ReadQueue' = Newest /\ Views' = {Newest} /\ ~ Standing'
         /\ writing'.stage # "tmp"
         /\ writing.stage # "idle"
         /\ writing'.doomed = writing.doomed \/ writing' = Idle
         /\ writing'.owner = writing.owner \/ writing' = Idle
         /\ writing'.stage \in {"idle", "files"} => tmp' = {} \/ (tmp' = tmp /\ writing.stage = "files")
<1>0. writing \in Writing /\ Idle \in Writing /\ writing.queue \in QueueSet
  <2>1. Idle \in Writing
    BY EmptyQueue DEF Idle, Writing
  <2> QED
    BY <2>1 DEF DiskInv, Writing
<1>1. SUFFICES /\ DiskInv'
               /\ ReadQueue' = Newest
               /\ writing'.stage # "tmp"
               /\ writing.stage # "idle"
               /\ writing'.doomed = writing.doomed \/ writing' = Idle
               /\ writing'.owner = writing.owner \/ writing' = Idle
               /\ writing'.stage \in {"idle", "files"} =>
                    tmp' = {} \/ (tmp' = tmp /\ writing.stage = "files")
  <2>1. Newest' = Newest
    BY <1>1 DEF Newest
  <2>2. ~ Standing'
    BY <1>1 DEF Standing
  <2>3. Views' = {Newest}
    BY <2>1, <2>2 DEF Views
  <2> QED
    BY <1>1, <2>1, <2>2, <2>3
<1>2. ASSUME NEW s \in {"swap", "move", "files"}, writing' = [writing EXCEPT !.stage = s]
      PROVE  /\ writing' \in Writing /\ writing'.stage = s /\ writing'.queue = writing.queue
             /\ writing'.doomed = writing.doomed /\ writing'.owner = writing.owner
  BY <1>0, <1>2 DEF Writing
<1>3. CASE FillTmp
  <2>1. /\ writing' \in Writing /\ writing'.stage = "swap" /\ writing'.queue = writing.queue
        /\ writing'.doomed = writing.doomed /\ writing'.owner = writing.owner
        /\ writing.stage = "tmp" /\ tmp' = {writing.queue} /\ index' = index /\ bak' = bak
    BY <1>2, <1>3 DEF FillTmp
  <2>2. ReadQueue' = writing.queue
    BY <2>1, ReadNext
  <2>3. DiskInv'
    BY <1>0, <2>1 DEF DiskInv, Copy
  <2> QED
    BY <2>1, <2>2, <2>3 DEF Newest
<1>4. CASE BackUp
  <2>1. /\ writing' \in Writing /\ writing'.stage = "move" /\ writing'.queue = writing.queue
        /\ writing'.doomed = writing.doomed /\ writing'.owner = writing.owner
        /\ writing.stage = "swap" /\ tmp' = tmp /\ tmp = {writing.queue}
        /\ index' = {} /\ bak' = IF index # {} THEN index ELSE bak
    BY <1>2, <1>4 DEF BackUp, DiskInv
  <2>2. ReadQueue' = writing.queue /\ ReadQueue = writing.queue
    BY <2>1, ReadCopy, ReadNext
  <2>3. DiskInv'
    BY <1>0, <2>1 DEF DiskInv, Copy
  <2> QED
    BY <2>1, <2>2, <2>3 DEF Newest
<1>5. CASE Move
  <2>1. /\ writing.stage = "move" /\ tmp = {writing.queue} /\ tmp' = {} /\ bak' = bak
        /\ index' = {writing.queue}
        /\ writing' = IF writing.doomed = {} THEN Idle ELSE [writing EXCEPT !.stage = "files"]
    BY <1>5 DEF Move, DiskInv
  <2>2. ReadQueue' = writing.queue /\ ReadQueue = writing.queue
    BY <2>1, ReadCopy, ReadNext
  <2>3. \/ writing' = Idle
        \/ /\ writing' \in Writing /\ writing'.stage = "files"
           /\ writing'.doomed = writing.doomed /\ writing'.owner = writing.owner
    BY <1>2, <2>1
  <2>4. Idle.stage = "idle"
    BY DEF Idle
  <2>5. DiskInv'
    BY <1>0, <2>1, <2>3, <2>4 DEF DiskInv, Copy
  <2> QED
    BY <2>1, <2>2, <2>3, <2>4, <2>5 DEF Newest
<1>6. CASE DropFiles
  <2>1. writing.stage = "files" /\ writing' = Idle /\ UNCHANGED disk
    BY <1>6 DEF DropFiles
  <2>2. ReadQueue' = ReadQueue
    BY <2>1, ReadSame
  <2>3. Idle.stage = "idle"
    BY DEF Idle
  <2>4. DiskInv'
    BY <1>0, <2>1, <2>3 DEF DiskInv, disk, Copy
  <2> QED
    BY <2>1, <2>2, <2>3, <2>4 DEF Newest, disk
<1> QED
  BY <1>3, <1>4, <1>5, <1>6 DEF WritesOn

LEMMA KillDisk ==
  ASSUME DiskInv, Kill
  PROVE  /\ DiskInv' /\ writing' = Idle
         /\ Newest' = ReadQueue /\ ReadQueue' = ReadQueue /\ Views' = {ReadQueue}
         /\ ~ rolledBack' => ReadQueue \in Views /\ ~ rolledBack
<1>1. writing' = Idle /\ UNCHANGED disk /\ Idle.stage = "idle"
  BY DEF Kill, Idle
<1>2. ReadQueue' = ReadQueue
  BY <1>1, ReadSame
<1>3. Newest' = ReadQueue /\ Views' = {ReadQueue}
  BY <1>1, <1>2 DEF Newest, Views, Standing
<1>4. Idle \in Writing
  BY EmptyQueue DEF Idle, Writing
<1>5. DiskInv'
  BY <1>1, <1>4 DEF DiskInv, disk, Copy
<1>6. ~ rolledBack' => ReadQueue \in Views /\ ~ rolledBack
  BY DEF Kill, Views, Standing, Newest
<1> QED
  BY <1>1, <1>2, <1>3, <1>5, <1>6

-----------------------------------------------------------------------------
(* The invariants *)

Steps == {"none", "copy", "persist", "dropped", "compress", "stage", "switch",
          "tidy", "discard", "unstage", "done", "failed"}
Progress == {"idle", "selected", "sending", "confirming", "landed", "ok", "failed",
             "auth", "cancelled"}
Drain ==
  [at : {"off", "reconcile", "plan", "select", "upload", "record", "decide", "wind"},
   plan : SUBSET Photos, attempted : SUBSET Photos, requested : BOOLEAN,
   pass : 0 .. MaxPasses, paused : BOOLEAN]

Calls == {"none", "made", "seen", "unseen", "behind", "waiting"}

\* The steps of an enqueue that has persisted its row, or found a tombstone.
Persisted == {"dropped", "compress", "stage", "switch", "tidy", "discard", "unstage", "done"}

WorkerInv ==
  /\ worker \in [Photos -> Steps] /\ call \in [Photos -> Calls]
  /\ \A p \in Photos : call[p] = "behind" => worker[p] \in Persisted
  /\ draft \subseteq Photos /\ overtaken \subseteq Photos
  /\ removed \subseteq Photos /\ awaited \subseteq removed /\ left \subseteq removed
  /\ cancelled \subseteq {p \in Photos : worker[p] # "none"}

FilesInv == files \in [Photos -> [orig : FileStates, jpg : FileStates]]

UploadInv ==
  /\ upload \in [Photos -> Progress] /\ drain \in Drain
  /\ gallery \subseteq Photos /\ stray \subseteq Photos

\* A photo that is being uploaded has an attempt left, should its row be charged.
ChargeableInv ==
  \A p \in DOMAIN Newest : upload[p] # "idle" => Newest[p].attempts < MaxAttempts

TypeInv == WorkerInv /\ FilesInv /\ UploadInv /\ DiskInv /\ ChargeableInv

\* A drain charges what it attempts, and plans nothing it has attempted.
ChargeInv ==
  /\ charged \in [Photos -> Nat]
  /\ drain.plan \cap drain.attempted = {}
  /\ \A p \in Photos :
       /\ charged[p] <= 1
       /\ charged[p] # 0 => p \in drain.attempted
       /\ upload[p] # "idle" => p \in drain.attempted /\ charged[p] = 0
       /\ drain.at \notin {"upload", "record"} => upload[p] = "idle"

\* A photo that has no row, or none any more, while its enqueue is at this step, or
\* while a call that did not see it queued is yet to decide on it.
Rowless == {"copy", "persist", "dropped", "discard", "failed"}

RowlessInv ==
  \A p \in Photos :
    worker[p] \in Rowless \/ call[p] = "unseen" => \A q \in Views : p \notin DOMAIN q

\* What the crew took out, on time or too late.
Gone == removed \cup overtaken

\* What the crew removed has no row, nor gets one: an enqueue that could still
\* persist it finds the tombstone, and no call that could own it is under way or
\* can be made.
RemovedInv ==
  /\ (removed \cup cancelled) \cap DOMAIN Newest = {}
  /\ cancelled \subseteq Gone
  /\ removed \cap draft = {}
  /\ \A p \in removed :
       /\ worker[p] \in {"copy", "persist"} => p \in cancelled
       /\ ~ MayOwn(p)

\* The removal of this photo is not itself being written.
Past(p) == p \in left \cup awaited \/ writing.owner # Crew

\* A rewrite that truncates a .tmp an earlier kill left is the first of this
\* life, and nothing this life uploads was removed before it.
TruncateInv ==
  /\ Standing => \A p \in removed : Past(p) => p \notin Queued
  /\ \A p \in Photos :
       /\ upload[p] # "idle" /\ p \notin DOMAIN Newest =>
            (writing.stage \in {"idle", "files"} => tmp = {})
       /\ p \in removed /\ Past(p) /\ upload[p] # "idle" =>
            (writing.stage = "tmp" => ~ writing.over)

\* Nothing whose removal has returned is being confirmed.
LeftInv == \A p \in left : upload[p] # "confirming"

\* The steps during which the row still names the original.
Compressing == {"compress", "stage", "switch", "unstage"}

\* The file every row names is whole.
WholeInv ==
  \A q \in Views : \A p \in DOMAIN q : files[p][q[p].at] = "whole"

\* The copies no call under way is bound to give up.
Copies == {p \in draft : call[p] # "seen"}

\* Every photo is somewhere.
HeldInv ==
  /\ \A q \in Views : Photos \subseteq Copies \cup gallery \cup Gone \cup DOMAIN q
  /\ \A p \in Photos :
       /\ worker[p] \in Persisted => p \in gallery \cup Gone \cup DOMAIN Newest
       /\ upload[p] \in {"landed", "ok"} => p \in gallery

\* The row names the original until the compressed file is whole, and is
\* switched before the original goes.
FileInv ==
  /\ \A p \in Photos :
       /\ worker[p] = "persist" => files[p].orig = "whole"
       /\ worker[p] = "switch" => files[p].jpg = "whole"
       /\ \A q \in Views : p \in DOMAIN q =>
            /\ worker[p] \in Compressing => q[p].at = "orig"
            /\ worker[p] = "tidy" /\ (q = Newest \/ writing.owner # p) => q[p].at = "jpg"

\* The files to be deleted are no row's, and no enqueue's.
DoomedInv ==
  \A p \in Photos : \A f \in {"orig", "jpg"} : <<p, f>> \in writing.doomed =>
    /\ p \in DOMAIN Newest => Newest[p].at # f
    /\ worker[p] \notin {"copy", "persist"}
    /\ f = "jpg" => worker[p] \notin Compressing

KeptInv == WholeInv /\ HeldInv /\ FileInv /\ DoomedInv
KeptSafe == ~ rolledBack => KeptInv

-----------------------------------------------------------------------------
(* Types *)

LEMMA InitTyped ==
  ASSUME Init
  PROVE  TypeInv
<1>1. WorkerInv
  BY DEF Init, WorkerInv, Steps, Calls
<1>2. FilesInv
  BY DEF Init, FilesInv, NoFiles, FileStates
<1>3. UploadInv
  BY QueueAssumption DEF Init, UploadInv, Progress, Drain, Off
<1>4. Idle \in Writing
  BY EmptyQueue DEF Idle, Writing
<1>5. DiskInv
  BY <1>4 DEF Init, DiskInv, Copy, Idle
<1>6. ChargeableInv
  BY DEF Init, ChargeableInv, Newest, ReadQueue, Idle
<1> QED
  BY <1>1, <1>2, <1>3, <1>5, <1>6 DEF TypeInv

\* The steps of an enqueue, the crew and a kill keep what is remembered of the
\* enqueues and removals well-formed.
LEMMA WorkerTyped ==
  ASSUME WorkerInv, DiskInv, [Next]_vars
  PROVE  WorkerInv'
<1>1. CASE WriteStep
  BY <1>1 DEF WriteStep, WorkerInv
<1>2. CASE CrewStep
  <2>1. CASE Dismiss
    <3>1. Queued \subseteq Photos
      BY ReadType, QueueForm DEF Queued
    <3>2. PICK more \in SUBSET Queued, late \in SUBSET Queued :
            removed' = removed \cup more /\ overtaken' = overtaken \cup late
      BY <2>1 DEF Dismiss
    <3>3. UNCHANGED <<draft, call, worker, cancelled, awaited, left>>
      BY <1>2, <2>1 DEF CrewStep, Dismiss
    <3> QED
      BY <3>1, <3>2, <3>3 DEF WorkerInv
  <2>2. ASSUME NEW p \in Photos, Remove(p)
        PROVE  WorkerInv'
    BY <1>2, <2>2 DEF CrewStep, Remove, WorkerInv
  <2>3. ASSUME NEW p \in Photos, Wait(p) \/ WaitOver(p)
        PROVE  WorkerInv'
    BY <1>2, <2>3 DEF CrewStep, Wait, WaitOver, WorkerInv
  <2> QED
    BY <1>2, <2>1, <2>2, <2>3 DEF CrewStep
<1>3. CASE DrainStep \/ RequestStep
  BY <1>3 DEF DrainStep, RequestStep, DrainFrame, WorkerInv
<1>4. CASE Kill
  BY <1>4 DEF Kill, WorkerInv, Steps, Calls
<1>5. ASSUME NEW p \in Photos, UploadStep(p) \/ WireStep(p)
      PROVE  WorkerInv'
  BY <1>5 DEF UploadStep, WireStep, UploadFrame, WorkerInv
<1>6. ASSUME NEW p \in Photos, EnqueueStep(p)
      PROVE  WorkerInv'
  <2>0. UNCHANGED <<removed, awaited, left, overtaken>>
    BY <1>6 DEF EnqueueStep
  <2>1. CASE Call(p) \/ Snapshot(p)
    BY <2>0, <2>1 DEF Call, Snapshot, Turn, WorkerInv, Calls
  <2>2. CASE Claim(p)
    BY <2>0, <2>2 DEF Claim, Goto, Turn, WorkerInv, Steps, Calls
  <2>3. CASE Copied(p)
    BY <2>0, <2>3 DEF Copied, At, Goto, WorkerInv, Steps, Persisted
  <2>4. CASE Persist(p)
    BY <2>0, <2>4 DEF Persist, Goto, WorkerInv, Steps, Calls, Persisted
  <2>5. CASE DropCopy(p) \/ Compress(p) \/ Staged(p)
    BY <2>0, <2>5 DEF DropCopy, Compress, Staged, Goto, WorkerInv, Steps, Persisted
  <2>6. CASE Switch(p) \/ Tidy(p) \/ Unstage(p)
    BY <2>0, <2>6 DEF Switch, Tidy, Unstage, Goto, WorkerInv, Steps, Persisted
  <2>7. CASE Release(p)
    BY <2>0, <2>7 DEF Release, MyTurn, TombstonesAfter, Goto, WorkerInv, Steps, Calls
  <2> QED
    BY <1>6, <2>1, <2>2, <2>3, <2>4, <2>5, <2>6, <2>7 DEF EnqueueStep
<1>7. CASE UNCHANGED vars
  BY <1>7 DEF vars, memory, WorkerInv
<1> QED
  BY <1>1, <1>2, <1>3, <1>4, <1>5, <1>6, <1>7 DEF Next

LEMMA FilesDeleted ==
  ASSUME FilesInv, NEW doomed, DeleteFiles(doomed)
  PROVE  /\ FilesInv'
         /\ \A p \in Photos : \A f \in {"orig", "jpg"} :
              files'[p][f] = IF <<p, f>> \in doomed THEN "none" ELSE files[p][f]
BY DEF FilesInv, DeleteFiles, FileStates

LEMMA FileWritten ==
  ASSUME FilesInv, NEW p \in Photos, NEW s \in FileStates
  PROVE  /\ files' = [files EXCEPT ![p].orig = s] =>
              /\ FilesInv' /\ files'[p]["orig"] = s /\ files'[p]["jpg"] = files[p]["jpg"]
              /\ \A x \in Photos : x # p => files'[x] = files[x]
         /\ files' = [files EXCEPT ![p].jpg = s] =>
              /\ FilesInv' /\ files'[p]["jpg"] = s /\ files'[p]["orig"] = files[p]["orig"]
              /\ \A x \in Photos : x # p => files'[x] = files[x]
<1>1. /\ FilesInv
      /\ \A x \in Photos : files[x].orig \in FileStates /\ files[x].jpg \in FileStates
  BY DEF FilesInv
<1>2. ASSUME files' = [files EXCEPT ![p].orig = s]
      PROVE  /\ FilesInv' /\ files'[p]["orig"] = s /\ files'[p]["jpg"] = files[p]["jpg"]
             /\ \A x \in Photos : x # p => files'[x] = files[x]
  BY <1>1, <1>2 DEF FilesInv
<1>3. ASSUME files' = [files EXCEPT ![p].jpg = s]
      PROVE  /\ FilesInv' /\ files'[p]["jpg"] = s /\ files'[p]["orig"] = files[p]["orig"]
             /\ \A x \in Photos : x # p => files'[x] = files[x]
  BY <1>1, <1>3 DEF FilesInv
<1> QED
  BY <1>2, <1>3

LEMMA FilesTyped ==
  ASSUME FilesInv, [Next]_vars
  PROVE  FilesInv'
<1>0. UNCHANGED files => FilesInv'
  BY DEF FilesInv
<1>1. CASE WriteStep
  BY <1>0, <1>1, FilesDeleted DEF WriteStep, FillTmp, BackUp, Move, DropFiles
<1>2. CASE CrewStep
  BY <1>0, <1>2 DEF CrewStep, Dismiss, Remove, Wait, WaitOver
<1>3. CASE DrainStep
  <2>1. CASE Reconcile
    BY <1>0, <2>1, FilesDeleted DEF Reconcile
  <2> QED
    BY <1>0, <1>3, <2>1
       DEF DrainStep, StartDrain, Plan, Select, CommitSent, RecordFailed, Decide, Wind
<1>4. CASE Kill \/ RequestStep
  BY <1>0, <1>4 DEF Kill, RequestStep, RequestDrain
<1>5. ASSUME NEW p \in Photos, UploadStep(p) \/ WireStep(p)
      PROVE  FilesInv'
  BY <1>0, <1>5 DEF UploadStep, WireStep, UploadFrame
<1>6. ASSUME NEW p \in Photos, EnqueueStep(p)
      PROVE  FilesInv'
  <2>0. {"part", "whole"} \subseteq FileStates
    BY DEF FileStates
  <2>1. CASE Claim(p) \/ Copied(p)
    BY <1>0, <2>0, <2>1, FileWritten DEF Claim, Copied
  <2>2. CASE Compress(p) \/ Staged(p)
    BY <1>0, <2>0, <2>2, FileWritten, FilesDeleted DEF Compress, Staged
  <2>3. CASE DropCopy(p) \/ Tidy(p)
    BY <2>3, FilesDeleted DEF DropCopy, Tidy
  <2> QED
    BY <1>0, <1>6, <2>1, <2>2, <2>3
       DEF EnqueueStep, Call, Snapshot, Persist, Switch, Unstage, Release
<1>7. CASE UNCHANGED vars
  BY <1>0, <1>7 DEF vars
<1> QED
  BY <1>1, <1>2, <1>3, <1>4, <1>5, <1>6, <1>7 DEF Next

\* The drain, the uploads and the server.
LEMMA UploadTyped ==
  ASSUME UploadInv, DiskInv, [Next]_vars
  PROVE  UploadInv'
<1>0. /\ drain \in Drain /\ Off \in Drain
      /\ MaxPasses \in Nat /\ MaxPasses # 0
  BY QueueAssumption DEF UploadInv, Drain, Off
<1>1. CASE WriteStep
  BY <1>1 DEF WriteStep, UploadInv
<1>2. CASE CrewStep
  BY <1>2 DEF CrewStep, UploadInv
<1>3. CASE DrainStep \/ RequestStep
  <2>0. gallery' = gallery /\ stray' = stray
    BY <1>3 DEF DrainStep, RequestStep, DrainFrame
  <2>1. SUFFICES drain' \in Drain /\ upload' \in [Photos -> Progress]
    BY <2>0, <2>1 DEF UploadInv
  <2>2. CASE StartDrain
    <3>1. drain' = [Off EXCEPT !.at = "reconcile", !.pass = 1] /\ upload' = upload
      BY <2>2 DEF StartDrain
    <3>2. 1 \in 0 .. MaxPasses
      BY <1>0
    <3> QED
      BY <1>0, <3>1, <3>2 DEF UploadInv, Drain
  <2>3. CASE RequestDrain
    BY <1>0, <2>3 DEF RequestDrain, UploadInv, Drain
  <2>4. CASE Reconcile
    BY <1>0, <2>4 DEF Reconcile, UploadInv, Drain
  <2>5. CASE Plan
    <3>1. PICK fresh \in SUBSET Photos : fresh = Fresh /\ drain' =
            [drain EXCEPT !.requested = FALSE, !.plan = fresh,
                          !.at = IF fresh = {} THEN "wind" ELSE "select"]
      <4>1. PICK fresh : fresh = Fresh
        OBVIOUS
      <4>2. Fresh \subseteq Photos
        BY ReadType, QueueForm DEF Fresh, Queued
      <4> QED
        BY <4>1, <4>2, <2>5 DEF Plan
    <3> QED
      BY <1>0, <2>5, <3>1 DEF Plan, UploadInv, Drain
  <2>6. CASE Select
    <3>1. PICK c, live :
            /\ c \subseteq drain.plan /\ live \subseteq c
            /\ upload' = [p \in Photos |-> IF p \in live THEN "selected" ELSE upload[p]]
            /\ drain' = [drain EXCEPT !.plan = @ \ c, !.attempted = @ \cup live,
                                      !.at = IF live = {} THEN "select" ELSE "upload"]
      BY <2>6 DEF Select
    <3> QED
      BY <1>0, <3>1 DEF UploadInv, Drain, Progress
  <2>7. CASE CommitSent
    <3>1. PICK paused \in BOOLEAN : paused = (Outcome("auth") # {})
      <4>1. (Outcome("auth") # {}) \in BOOLEAN
        OBVIOUS
      <4> QED
        BY <4>1, Zenon
    <3>2. drain' = [drain EXCEPT !.at = "record", !.paused = paused]
      BY <2>7, <3>1 DEF CommitSent
    <3> QED
      BY <1>0, <2>7, <3>2 DEF CommitSent, UploadInv, Drain
  <2>8. CASE RecordFailed
    BY <1>0, <2>8 DEF RecordFailed, UploadInv, Drain, Progress
  <2>9. CASE Decide
    <3>1. /\ upload' = upload
          /\ \/ drain' = [drain EXCEPT !.at = "wind", !.plan = {}]
             \/ drain.pass # MaxPasses /\ drain' = [drain EXCEPT !.at = "plan", !.pass = @ + 1]
      BY <2>9 DEF Decide
    <3>2. CASE drain' = [drain EXCEPT !.at = "wind", !.plan = {}]
      BY <1>0, <3>1, <3>2 DEF UploadInv, Drain
    <3>3. CASE drain.pass # MaxPasses /\ drain' = [drain EXCEPT !.at = "plan", !.pass = @ + 1]
      <4>1. drain.pass \in 0 .. MaxPasses
        BY <1>0 DEF Drain
      <4>2. PICK n \in 0 .. MaxPasses : n = drain.pass + 1
        BY <1>0, <3>3, <4>1
      <4>3. drain' = [drain EXCEPT !.at = "plan", !.pass = n]
        BY <3>3, <4>2
      <4> QED
        BY <1>0, <3>1, <4>3 DEF UploadInv, Drain
    <3> QED
      BY <3>1, <3>2, <3>3
  <2>10. CASE Wind
    BY <1>0, <2>10 DEF Wind, UploadInv
  <2> QED
    BY <1>3, <2>2, <2>3, <2>4, <2>5, <2>6, <2>7, <2>8, <2>9, <2>10 DEF DrainStep, RequestStep
<1>4. CASE Kill
  BY <1>0, <1>4 DEF Kill, UploadInv, Outcome, Progress
<1>5. ASSUME NEW p \in Photos, UploadStep(p) \/ WireStep(p)
      PROVE  UploadInv'
  BY <1>5 DEF UploadStep, WireStep, UploadFrame, Start, Put, UploadFails, Confirmed, Answered,
              Abandoned, StrayLands, Become, UploadInv, Progress
<1>6. ASSUME NEW p \in Photos, EnqueueStep(p)
      PROVE  UploadInv'
  BY <1>6 DEF EnqueueStep, UploadInv
<1>7. CASE UNCHANGED vars
  BY <1>7 DEF vars, memory, UploadInv
<1> QED
  BY <1>1, <1>2, <1>3, <1>4, <1>5, <1>6, <1>7 DEF Next

-----------------------------------------------------------------------------
(* The actions that begin a rewrite *)

\* A rewrite has begun: the lock was free, and what a relaunch may find is the
\* new queue or, while a .tmp left by no kill is written, the old one.
Rewrites(actor, doomed) ==
  /\ LockFree /\ Newest = ReadQueue /\ Views = {ReadQueue} /\ ~ Standing
  /\ writing.stage = "idle" /\ writing.doomed = {} /\ writing.owner = Nobody
  /\ writing'.stage = "tmp" /\ writing'.owner = actor /\ writing'.doomed = doomed
  /\ (writing'.over <=> tmp # {}) /\ tmp' = {}
  /\ ReadQueue \in QueueSet /\ Newest' \in QueueSet
  /\ (Standing' <=> tmp = {}) /\ (Standing' => ReadQueue' = ReadQueue)
  /\ Views' \subseteq {Newest', ReadQueue}
  /\ DiskInv'

LEMMA Rewritten ==
  ASSUME DiskInv, LockFree, NEW actor \in Photos \cup {Drainer, Crew}, NEW q \in QueueSet,
         NEW doomed, doomed \subseteq FileNames, BeginWrite(actor, q, doomed)
  PROVE  Rewrites(actor, doomed) /\ Newest' = q
<1>1. DiskInv'
  BY BeginsTyped
<1>2. ReadQueue \in QueueSet
  BY ReadType
<1> QED
  BY <1>1, <1>2, Begins, FreeViews DEF Rewrites

\* The rows of some photos go, and with them the files they name.
Sheds(actor, ps) ==
  /\ Rewrites(actor, {<<p, ReadQueue[p].at>> : p \in ps \cap DOMAIN ReadQueue})
  /\ DOMAIN Newest' = DOMAIN ReadQueue \ ps
  /\ \A x \in DOMAIN Newest' : Newest'[x] = ReadQueue[x]

LEMMA NamedFiles ==
  ASSUME NEW r \in QueueSet, NEW ps
  PROVE  {<<p, r[p].at>> : p \in ps \cap DOMAIN r} \subseteq FileNames
<1>1. \A p \in DOMAIN r : p \in Photos /\ r[p].at \in {"orig", "jpg"}
  BY QueueForm DEF Row
<1> QED
  BY <1>1 DEF FileNames

LEMMA Shed ==
  ASSUME DiskInv, LockFree, NEW actor \in Photos \cup {Drainer, Crew}, NEW ps, NEW doomed,
         doomed = {<<p, ReadQueue[p].at>> : p \in ps \cap DOMAIN ReadQueue},
         BeginWrite(actor, Without(ReadQueue, ps), doomed)
  PROVE  Sheds(actor, ps)
<1>1. PICK q : q = Without(ReadQueue, ps)
  OBVIOUS
<1>2. ReadQueue \in QueueSet
  BY ReadType
<1>3. PICK r \in QueueSet : r = ReadQueue
  BY <1>2
<1>4. /\ q \in QueueSet /\ DOMAIN q = DOMAIN r \ ps
      /\ \A x \in DOMAIN q : q[x] = r[x]
  <2>1. q = Without(r, ps)
    BY <1>1, <1>3
  <2> QED
    BY <2>1, RestrictedQueue
<1>5. doomed \subseteq FileNames
  BY <1>2, NamedFiles
<1>6. BeginWrite(actor, q, doomed)
  BY <1>1
<1>7. Rewrites(actor, doomed) /\ Newest' = q
  BY <1>4, <1>5, <1>6, Rewritten
<1> QED
  BY <1>3, <1>4, <1>7 DEF Sheds

LEMMA PersistWrites ==
  ASSUME DiskInv, NEW p \in Photos, Persist(p), ~ Tombstoned(p)
  PROVE  /\ Rewrites(p, {})
         /\ DOMAIN Newest' = DOMAIN ReadQueue \cup {p}
         /\ \A x \in DOMAIN ReadQueue : Newest'[x] = ReadQueue[x]
         /\ p \notin DOMAIN ReadQueue => Newest'[p] = Original
<1>1. ReadQueue \in QueueSet /\ Original \in Row
  BY ReadType, OriginalRow, QueueAssumption
<1>2. PICK q : q = With(ReadQueue, p, Original)
  OBVIOUS
<1>3. BeginWrite(p, q, {}) /\ LockFree
  BY <1>2 DEF Persist
<1>4. PICK r \in QueueSet : r = ReadQueue
  BY <1>1
<1>5. /\ q \in QueueSet /\ DOMAIN q = DOMAIN r \cup {p}
      /\ \A x \in DOMAIN r : q[x] = r[x]
      /\ p \notin DOMAIN r => q[p] = Original
  <2>1. q = With(r, p, Original)
    BY <1>2, <1>4
  <2> QED
    BY <1>1, <2>1, AddedRow
<1>6. Rewrites(p, {}) /\ Newest' = q
  BY <1>3, <1>5, Rewritten
<1> QED
  BY <1>4, <1>5, <1>6

LEMMA SwitchWrites ==
  ASSUME DiskInv, NEW p \in Photos, Switch(p), StillWanted(p)
  PROVE  /\ Rewrites(p, {})
         /\ p \in DOMAIN ReadQueue /\ DOMAIN Newest' = DOMAIN ReadQueue
         /\ Newest'[p].at = "jpg" /\ Newest'[p].attempts = ReadQueue[p].attempts
         /\ \A x \in DOMAIN ReadQueue : x # p => Newest'[x] = ReadQueue[x]
<1>1. ReadQueue \in QueueSet /\ p \in DOMAIN ReadQueue
  BY ReadType DEF StillWanted, Queued
<1>2. PICK r \in QueueSet : r = ReadQueue /\ p \in DOMAIN r
  BY <1>1
<1>3. PICK row, q : row = Switched(r[p]) /\ q = [r EXCEPT ![p] = row]
  OBVIOUS
<1>4. q = [ReadQueue EXCEPT ![p].at = "jpg", ![p].staging = FALSE]
  <2>1. r = [x \in DOMAIN r |-> r[x]]
    BY QueueForm
  <2>2. [r EXCEPT ![p].at = "jpg", ![p].staging = FALSE] = [r EXCEPT ![p] = Switched(r[p])]
    BY <1>2, <2>1 DEF Switched
  <2> QED
    BY <1>2, <1>3, <2>2
<1>5. BeginWrite(p, q, {}) /\ LockFree
  BY <1>4 DEF Switch, MyTurn
<1>6. /\ q \in QueueSet /\ DOMAIN q = DOMAIN r
      /\ q[p].at = "jpg" /\ q[p].attempts = r[p].attempts
      /\ \A x \in DOMAIN r : x # p => q[x] = r[x]
  <2>1. r[p] \in Row
    BY <1>2, QueueForm
  <2>2. row \in Row /\ row.at = "jpg" /\ row.attempts = r[p].attempts
    BY <1>3, <2>1, SwitchedRow
  <2> QED
    BY <1>2, <1>3, <2>2, RowChanged
<1>7. Rewrites(p, {}) /\ Newest' = q
  BY <1>5, <1>6, Rewritten
<1> QED
  BY <1>1, <1>2, <1>6, <1>7

LEMMA UnstageWrites ==
  ASSUME DiskInv, NEW p \in Photos, Unstage(p), StillWanted(p)
  PROVE  Rewrites(p, {}) /\ SameRows(ReadQueue, Newest') /\ p \in DOMAIN ReadQueue
<1>1. ReadQueue \in QueueSet /\ p \in DOMAIN ReadQueue
  BY ReadType DEF StillWanted, Queued
<1>2. PICK r \in QueueSet : r = ReadQueue /\ p \in DOMAIN r
  BY <1>1
<1>3. PICK q : q = [r EXCEPT ![p] = Ready(r[p])]
  OBVIOUS
<1>4. q = [ReadQueue EXCEPT ![p].staging = FALSE]
  <2>1. r = [x \in DOMAIN r |-> r[x]]
    BY QueueForm
  <2>2. [r EXCEPT ![p].staging = FALSE] = [r EXCEPT ![p] = Ready(r[p])]
    BY <1>2, <2>1 DEF Ready
  <2> QED
    BY <1>2, <1>3, <2>2
<1>5. BeginWrite(p, q, {}) /\ LockFree
  BY <1>4 DEF Unstage, MyTurn
<1>6. q \in QueueSet /\ SameRows(r, q)
  BY <1>2, <1>3, ReadyQueue
<1>7. Rewrites(p, {}) /\ Newest' = q
  BY <1>5, <1>6, Rewritten
<1> QED
  BY <1>1, <1>2, <1>6, <1>7

LEMMA RemoveWrites ==
  ASSUME DiskInv, NEW p \in Photos, Remove(p), p \in Queued
  PROVE  Sheds(Crew, {p})
<1>1. PICK doomed : doomed = {<<p, ReadQueue[p].at>>}
  OBVIOUS
<1>2. BeginWrite(Crew, Without(ReadQueue, {p}), doomed) /\ LockFree
  BY <1>1 DEF Remove
<1>3. {p} \cap DOMAIN ReadQueue = {p}
  BY DEF Queued
<1>4. doomed = {<<x, ReadQueue[x].at>> : x \in {p} \cap DOMAIN ReadQueue}
  BY <1>1, <1>3
<1> QED
  BY <1>2, <1>4, Shed

LEMMA DismissWrites ==
  ASSUME DiskInv, Dismiss
  PROVE  \E failed, out :
           /\ failed \subseteq DOMAIN ReadQueue /\ out \subseteq failed
           /\ Sheds(Crew, failed)
           /\ removed' = removed \cup out /\ out \cap draft = {}
           /\ \A p \in out : ~ MayOwn(p)
           /\ overtaken' = overtaken \cup {p \in failed \ out : ~ Keeps(p)}
<1>1. PICK failed : failed = {p \in Queued : Terminal(ReadQueue[p])}
  OBVIOUS
<1>a. PICK out : out = {p \in failed : p \notin draft /\ ~ MayOwn(p)}
  OBVIOUS
<1>2. PICK doomed : doomed = {<<p, ReadQueue[p].at>> : p \in failed}
  OBVIOUS
<1>3. /\ LockFree /\ BeginWrite(Crew, Without(ReadQueue, failed), doomed)
      /\ removed' = removed \cup out
      /\ overtaken' = overtaken \cup {p \in failed \ out : ~ Keeps(p)}
  BY <1>1, <1>a, <1>2 DEF Dismiss
<1>4. failed \subseteq DOMAIN ReadQueue
  BY <1>1 DEF Queued
<1>5. failed \cap DOMAIN ReadQueue = failed
  BY <1>4
<1>6. doomed = {<<p, ReadQueue[p].at>> : p \in failed \cap DOMAIN ReadQueue}
  BY <1>2, <1>5
<1>7. Sheds(Crew, failed)
  BY <1>3, <1>6, Shed
<1>8. out \subseteq failed /\ out \cap draft = {} /\ \A p \in out : ~ MayOwn(p)
  BY <1>a
<1> QED
  BY <1>3, <1>4, <1>7, <1>8

LEMMA ReconcileWrites ==
  ASSUME DiskInv, Reconcile, Unstuck(ReadQueue) # ReadQueue
  PROVE  Rewrites(Drainer, Orphans(Unstuck(ReadQueue))) /\ SameRows(ReadQueue, Newest')
         /\ Newest' = Unstuck(ReadQueue)
<1>1. PICK q : q = Unstuck(ReadQueue)
  OBVIOUS
<1>2. PICK r \in QueueSet : r = ReadQueue
  BY ReadType
<1>3. q \in QueueSet /\ SameRows(r, q)
  BY <1>1, <1>2, UnstuckQueue
<1>4. PICK doomed : doomed = Orphans(Unstuck(ReadQueue))
  OBVIOUS
<1>5. BeginWrite(Drainer, q, doomed) /\ LockFree
  BY <1>1, <1>4 DEF Reconcile
<1>6. doomed \subseteq FileNames
  BY <1>4 DEF Orphans, FileNames
<1>7. Rewrites(Drainer, doomed) /\ Newest' = q
  BY <1>3, <1>5, <1>6, Rewritten
<1> QED
  BY <1>1, <1>2, <1>3, <1>4, <1>7

LEMMA CommitWrites ==
  ASSUME DiskInv, CommitSent, Outcome("ok") # {}
  PROVE  Sheds(Drainer, Outcome("ok"))
<1>1. PICK sent : sent = Outcome("ok")
  OBVIOUS
<1>2. PICK doomed : doomed = {<<p, ReadQueue[p].at>> : p \in sent \cap DOMAIN ReadQueue}
  OBVIOUS
<1>3. BeginWrite(Drainer, Without(ReadQueue, sent), doomed) /\ LockFree
  BY <1>1, <1>2 DEF CommitSent, Queued
<1> QED
  BY <1>1, <1>2, <1>3, Shed

LEMMA RecordWrites ==
  ASSUME DiskInv, ChargeableInv, RecordFailed, Outcome("failed") \cap Queued # {}
  PROVE  /\ Rewrites(Drainer, {})
         /\ DOMAIN Newest' = DOMAIN ReadQueue
         /\ \A p \in DOMAIN ReadQueue : Newest'[p].at = ReadQueue[p].at
<1>1. PICK failed : failed = Outcome("failed") \cap Queued
  OBVIOUS
<1>2. LockFree
  BY DEF RecordFailed
<1>3. PICK r \in QueueSet : r = ReadQueue
  BY ReadType
<1>4. \A p \in failed \cap DOMAIN r : r[p].attempts < MaxAttempts
  BY <1>1, <1>2, <1>3, FreeViews DEF ChargeableInv, Outcome
<1>5. PICK q : q = [p \in DOMAIN r |-> IF p \in failed THEN Charged(r[p]) ELSE r[p]]
  OBVIOUS
<1>6. BeginWrite(Drainer, q, {})
  BY <1>1, <1>3, <1>5 DEF RecordFailed, Charged, Queued
<1>7. /\ q \in QueueSet /\ DOMAIN q = DOMAIN r
      /\ \A p \in DOMAIN r : q[p].at = r[p].at
  BY <1>4, <1>5, ChargedQueue, QueueAssumption
<1>8. Rewrites(Drainer, {}) /\ Newest' = q
  BY <1>2, <1>6, <1>7, Rewritten
<1> QED
  BY <1>3, <1>7, <1>8

-----------------------------------------------------------------------------
(* The type of the index, and the rows that may be charged *)

\* A step that rewrites nothing and moves no photo into the chunk.
LEMMA ChargeableKept ==
  ASSUME ChargeableInv, DiskInv, Newest' = Newest,
         \A p \in Photos : upload'[p] # "idle" => upload[p] # "idle"
  PROVE  ChargeableInv'
<1>1. DOMAIN Newest \subseteq Photos
  BY ReadType, QueueForm
<1> QED
  BY <1>1 DEF ChargeableInv

LEMMA IndexTyped ==
  ASSUME TypeInv, [Next]_vars
  PROVE  DiskInv' /\ ChargeableInv'
<1>0. /\ DiskInv /\ ChargeableInv /\ upload \in [Photos -> Progress]
      /\ DOMAIN Newest \subseteq Photos /\ ReadQueue \in QueueSet
  BY ReadType, QueueForm DEF TypeInv, UploadInv
<1>a. ASSUME NoWrite, \A p \in Photos : upload'[p] # "idle" => upload[p] # "idle"
      PROVE  DiskInv' /\ ChargeableInv'
  BY <1>0, <1>a, Pauses, PausesTyped, ChargeableKept
<1>b. ASSUME NEW actor, NEW ps, Sheds(actor, ps), upload' = upload
      PROVE  DiskInv' /\ ChargeableInv'
  BY <1>0, <1>b DEF Sheds, Rewrites, ChargeableInv
<1>c. ASSUME NEW actor, NEW doomed, Rewrites(actor, doomed), SameRows(ReadQueue, Newest'),
             upload' = upload
      PROVE  DiskInv' /\ ChargeableInv'
  BY <1>0, <1>c DEF Rewrites, SameRows, SameRow, ChargeableInv
<1>1. CASE WriteStep
  <2>1. WritesOn /\ upload' = upload
    BY <1>1 DEF WriteStep, WritesOn
  <2> QED
    BY <1>0, <2>1, Proceeds, ChargeableKept
<1>2. CASE CrewStep
  <2>0. upload' = upload
    BY <1>2 DEF CrewStep
  <2>1. CASE Dismiss
    BY <1>0, <1>b, <2>0, <2>1, DismissWrites
  <2>2. ASSUME NEW p \in Photos, Remove(p)
        PROVE  DiskInv' /\ ChargeableInv'
    <3>1. CASE p \in Queued
      BY <1>0, <1>b, <2>0, <2>2, <3>1, RemoveWrites
    <3>2. CASE p \notin Queued
      BY <1>a, <2>0, <2>2, <3>2 DEF Remove
    <3> QED
      BY <3>1, <3>2
  <2>3. ASSUME NEW p \in Photos, Wait(p) \/ WaitOver(p)
        PROVE  DiskInv' /\ ChargeableInv'
    BY <1>a, <2>0, <2>3 DEF Wait, WaitOver
  <2> QED
    BY <1>2, <2>1, <2>2, <2>3 DEF CrewStep
<1>3. CASE DrainStep \/ RequestStep
  <2>1. CASE Reconcile
    <3>1. CASE Unstuck(ReadQueue) # ReadQueue
      BY <1>0, <1>c, <2>1, <3>1, ReconcileWrites DEF Reconcile
    <3>2. CASE Unstuck(ReadQueue) = ReadQueue
      BY <1>a, <2>1, <3>2 DEF Reconcile
    <3> QED
      BY <3>1, <3>2
  <2>2. CASE CommitSent
    <3>0. upload' = upload
      BY <2>2 DEF CommitSent
    <3>1. CASE Outcome("ok") # {}
      BY <1>0, <1>b, <2>2, <3>0, <3>1, CommitWrites
    <3>2. CASE Outcome("ok") = {}
      BY <1>a, <2>2, <3>0, <3>2 DEF CommitSent
    <3> QED
      BY <3>1, <3>2
  <2>3. CASE RecordFailed
    <3>0. \A p \in Photos : upload'[p] = "idle"
      BY <2>3 DEF RecordFailed
    <3>1. CASE Outcome("failed") \cap Queued # {}
      <4>1. Rewrites(Drainer, {})
        BY <1>0, <2>3, <3>1, RecordWrites
      <4>2. DOMAIN Newest' \subseteq Photos
        BY <4>1, QueueForm DEF Rewrites
      <4> QED
        BY <3>0, <4>1, <4>2 DEF Rewrites, ChargeableInv
    <3>2. CASE Outcome("failed") \cap Queued = {}
      BY <1>a, <2>3, <3>0, <3>2 DEF RecordFailed
    <3> QED
      BY <3>1, <3>2
  <2>4. CASE Select
    <3>1. LockFree /\ NoWrite
      BY <2>4 DEF Select
    <3>2. Newest' = ReadQueue /\ Newest = ReadQueue /\ DiskInv'
      BY <1>0, <3>1, FreeViews, Pauses, PausesTyped
    <3>3. \A p \in Photos : \/ upload'[p] = upload[p]
                            \/ p \in Queued /\ Drainable(ReadQueue[p])
      BY <2>4 DEF Select
    <3>4. ASSUME NEW p \in DOMAIN ReadQueue, Drainable(ReadQueue[p])
          PROVE  ReadQueue[p].attempts < MaxAttempts
      <4>1. ReadQueue[p] \in Row
        BY <1>0, QueueForm
      <4>2. ReadQueue[p].attempts \in Nat
        BY <4>1 DEF Row
      <4> QED
        BY <3>4, <4>2, QueueAssumption DEF Drainable, Terminal
    <3>5. ChargeableInv'
      BY <1>0, <3>2, <3>3, <3>4 DEF ChargeableInv, Queued
    <3> QED
      BY <3>2, <3>5
  <2>5. CASE StartDrain \/ RequestDrain \/ Plan \/ Decide \/ Wind
    BY <1>a, <2>5 DEF StartDrain, RequestDrain, Plan, Decide, Wind
  <2> QED
    BY <1>3, <2>1, <2>2, <2>3, <2>4, <2>5 DEF DrainStep, RequestStep
<1>4. CASE Kill
  <2>1. DiskInv' /\ Newest' = ReadQueue
    BY <1>0, <1>4, KillDisk
  <2>2. DOMAIN ReadQueue \subseteq Photos
    BY <1>0, QueueForm
  <2>3. \A p \in Photos : upload'[p] = "idle"
    BY <1>4 DEF Kill
  <2> QED
    BY <2>1, <2>2, <2>3 DEF ChargeableInv
<1>5. ASSUME NEW p \in Photos, UploadStep(p) \/ WireStep(p)
      PROVE  DiskInv' /\ ChargeableInv'
  <2>1. NoWrite
    BY <1>5 DEF UploadStep, WireStep, UploadFrame, NoWrite
  <2>2. ASSUME NEW x \in Photos, upload'[x] # "idle"
        PROVE  upload[x] # "idle"
    BY <1>0, <1>5, <2>2 DEF UploadStep, WireStep, Start, Put, UploadFails, Confirmed, Answered,
                            Abandoned, StrayLands, Become
  <2> QED
    BY <1>a, <2>1, <2>2
<1>6. ASSUME NEW p \in Photos, EnqueueStep(p)
      PROVE  DiskInv' /\ ChargeableInv'
  <2>0. upload' = upload
    BY <1>6 DEF EnqueueStep
  <2>1. CASE Persist(p) /\ ~ Tombstoned(p)
    <3>1. /\ Rewrites(p, {})
          /\ DOMAIN Newest' = DOMAIN ReadQueue \cup {p}
          /\ \A x \in DOMAIN ReadQueue : Newest'[x] = ReadQueue[x]
          /\ p \notin DOMAIN ReadQueue => Newest'[p] = Original
      BY <1>0, <2>1, PersistWrites
    <3>2. Original.attempts < MaxAttempts
      BY OriginalRow, QueueAssumption
    <3> QED
      BY <1>0, <2>0, <3>1, <3>2 DEF Rewrites, ChargeableInv
  <2>2. CASE Switch(p) /\ StillWanted(p)
    BY <1>0, <2>0, <2>2, SwitchWrites DEF Rewrites, ChargeableInv
  <2>3. CASE Unstage(p) /\ StillWanted(p)
    BY <1>0, <1>c, <2>0, <2>3, UnstageWrites
  <2>4. CASE \/ Persist(p) /\ Tombstoned(p)
             \/ Switch(p) /\ ~ StillWanted(p)
             \/ Unstage(p) /\ ~ StillWanted(p)
             \/ Call(p) \/ Snapshot(p) \/ Claim(p) \/ Copied(p) \/ DropCopy(p) \/ Compress(p)
             \/ Staged(p) \/ Tidy(p) \/ Release(p)
    BY <1>a, <2>0, <2>4 DEF Persist, Switch, Unstage, Call, Snapshot, Claim, Copied, DropCopy,
                            Compress, Staged, Tidy, Release
  <2> QED
    BY <1>6, <2>1, <2>2, <2>3, <2>4 DEF EnqueueStep
<1>7. CASE UNCHANGED vars
  <2>1. NoWrite /\ upload' = upload
    BY <1>7 DEF vars, memory, NoWrite
  <2> QED
    BY <1>a, <2>1
<1> QED
  BY <1>1, <1>2, <1>3, <1>4, <1>5, <1>6, <1>7 DEF Next

LEMMA TypeStep == TypeInv /\ [Next]_vars => TypeInv'
BY WorkerTyped, FilesTyped, UploadTyped, IndexTyped DEF TypeInv

LEMMA TypeAlways == Spec => []TypeInv
<1>1. Init => TypeInv
  BY InitTyped
<1> QED
  BY <1>1, TypeStep, PTL DEF Spec

LEMMA CopyCounted ==
  ASSUME NEW c, Copy(c)
  PROVE  Cardinality(c) <= 1 /\ \A q \in c : IsQueue(q)
<1>1. CASE c = {}
  BY <1>1, FS_EmptySet
<1>2. ASSUME NEW q \in QueueSet, c = {q}
      PROVE  Cardinality(c) <= 1 /\ \A x \in c : IsQueue(x)
  <2>1. Cardinality(c) = 1
    BY <1>2, FS_Singleton
  <2>2. \A x \in c : IsQueue(x)
    BY <1>2, QueueForm
  <2> QED
    BY <2>1, <2>2
<1> QED
  BY <1>1, <1>2 DEF Copy

\* Every variable keeps its type: each of the three files of the index is
\* missing or one queue of well-formed rows, and a tombstone names an enqueue
\* in flight.
THEOREM QueueTypeCorrect == Spec => []TypeOK
<1>1. ASSUME TypeInv
      PROVE  TypeOK
  <2>1. \A c \in {tmp, index, bak} : Cardinality(c) <= 1 /\ \A q \in c : IsQueue(q)
    BY <1>1, CopyCounted DEF TypeInv, DiskInv
  <2>2. /\ writing.stage \in {"idle", "tmp", "swap", "move", "files"}
        /\ writing.owner \in Photos \cup {Drainer, Crew, Nobody}
    BY <1>1 DEF TypeInv, DiskInv, Writing
  <2>3. /\ drain.at \in {"off", "reconcile", "plan", "select", "upload", "record", "decide", "wind"}
        /\ drain.plan \subseteq Photos /\ drain.attempted \subseteq Photos
        /\ drain.pass \in 0 .. MaxPasses
    BY <1>1 DEF TypeInv, UploadInv, Drain
  <2> QED
    BY <1>1, <2>1, <2>2, <2>3
       DEF TypeInv, WorkerInv, FilesInv, UploadInv, TypeOK, Steps, Calls, Progress
<1> QED
  BY <1>1, TypeAlways, PTL

-----------------------------------------------------------------------------
(* A drain charges a photo once *)

LEMMA ChargeStep ==
  ASSUME TypeInv, ChargeInv, [Next]_vars
  PROVE  ChargeInv'
<1>0. /\ drain \in Drain /\ upload \in [Photos -> Progress]
      /\ charged \in [Photos -> Nat] /\ NoCharge \in [Photos -> Nat]
      /\ Off.plan = {} /\ Off.attempted = {} /\ Off.at = "off"
      /\ \A p \in Photos : NoCharge[p] = 0
  BY DEF TypeInv, UploadInv, ChargeInv, NoCharge, Off
<1>a. ASSUME drain' = drain, charged' = charged,
             \A p \in Photos : upload'[p] # "idle" => upload[p] # "idle"
      PROVE  ChargeInv'
  BY <1>a DEF ChargeInv
<1>1. CASE WriteStep \/ CrewStep
  BY <1>1, <1>a DEF WriteStep, CrewStep
<1>2. CASE DrainStep \/ RequestStep
  <2>1. CASE StartDrain
    <3>1. /\ drain'.at = "reconcile" /\ drain'.plan = {} /\ drain'.attempted = {}
          /\ charged' = NoCharge /\ upload' = upload /\ drain.at = "off"
      BY <2>1 DEF StartDrain, DrainAt, Off
    <3> QED
      BY <1>0, <3>1 DEF ChargeInv
  <2>2. CASE RequestDrain \/ Reconcile
    <3>1. /\ drain'.plan = drain.plan /\ drain'.attempted = drain.attempted
          /\ charged' = charged /\ upload' = upload
          /\ drain'.at = drain.at \/ (drain.at = "reconcile" /\ drain'.at = "plan")
      BY <1>0, <2>2 DEF RequestDrain, Reconcile, DrainAt, Drain
    <3> QED
      BY <1>0, <3>1 DEF ChargeInv
  <2>3. CASE Plan
    <3>1. PICK fresh : fresh = Fresh
      OBVIOUS
    <3>2. /\ drain' = [drain EXCEPT !.requested = FALSE, !.plan = fresh,
                                    !.at = IF fresh = {} THEN "wind" ELSE "select"]
          /\ drain.at = "plan" /\ charged' = charged /\ upload' = upload
      BY <2>3, <3>1 DEF Plan, DrainAt
    <3>3. /\ drain'.plan = fresh /\ drain'.attempted = drain.attempted
          /\ drain'.at \in {"wind", "select"}
      BY <1>0, <3>2 DEF Drain
    <3>4. fresh \cap drain.attempted = {}
      BY <3>1 DEF Fresh
    <3> QED
      BY <1>0, <3>2, <3>3, <3>4 DEF ChargeInv
  <2>4. CASE Select
    <3>1. PICK c, live :
            /\ c \subseteq drain.plan /\ live \subseteq c
            /\ upload' = [p \in Photos |-> IF p \in live THEN "selected" ELSE upload[p]]
            /\ drain' = [drain EXCEPT !.plan = @ \ c, !.attempted = @ \cup live,
                                      !.at = IF live = {} THEN "select" ELSE "upload"]
      BY <2>4 DEF Select
    <3>2. /\ drain'.plan = drain.plan \ c /\ drain'.attempted = drain.attempted \cup live
          /\ drain'.at = IF live = {} THEN "select" ELSE "upload"
      BY <1>0, <3>1 DEF Drain
    <3>3. drain.at = "select" /\ charged' = charged
      BY <2>4 DEF Select, DrainAt
    <3>4. ASSUME NEW p \in Photos
          PROVE  /\ upload'[p] = IF p \in live THEN "selected" ELSE "idle"
                 /\ p \in live => charged[p] = 0
      BY <1>0, <3>1, <3>3 DEF ChargeInv
    <3> QED
      BY <1>0, <3>1, <3>2, <3>3, <3>4 DEF ChargeInv
  <2>5. CASE CommitSent
    <3>1. /\ drain'.plan = drain.plan /\ drain'.attempted = drain.attempted
          /\ charged' = charged /\ upload' = upload /\ drain'.at = "record"
      BY <1>0, <2>5 DEF CommitSent, Drain
    <3> QED
      BY <1>0, <3>1 DEF ChargeInv
  <2>6. CASE RecordFailed
    <3>1. /\ drain'.plan = drain.plan /\ drain'.attempted = drain.attempted
          /\ \A p \in Photos : upload'[p] = "idle"
      BY <1>0, <2>6 DEF RecordFailed, Drain
    <3>2. PICK failed : failed = Outcome("failed") \cap Queued
      OBVIOUS
    <3>3. charged' = [p \in Photos |-> IF p \in failed THEN charged[p] + 1 ELSE charged[p]]
      BY <2>6, <3>2 DEF RecordFailed
    <3>4. ASSUME NEW p \in Photos
          PROVE  /\ charged'[p] \in Nat /\ charged'[p] <= 1
                 /\ charged'[p] # 0 => p \in drain.attempted
      <4>1. p \in failed => upload[p] # "idle"
        BY <3>2 DEF Outcome
      <4>2. /\ p \in failed => charged[p] = 0 /\ p \in drain.attempted
            /\ charged[p] \in Nat /\ charged[p] <= 1
            /\ charged[p] # 0 => p \in drain.attempted
        BY <1>0, <4>1 DEF ChargeInv
      <4>3. charged'[p] = IF p \in failed THEN charged[p] + 1 ELSE charged[p]
        BY <3>3
      <4> QED
        BY <4>2, <4>3
    <3>5. charged' \in [Photos -> Nat]
      BY <3>3, <3>4
    <3> QED
      BY <3>1, <3>4, <3>5 DEF ChargeInv
  <2>7. CASE Decide
    <3>1. /\ drain'.plan \subseteq drain.plan /\ drain'.attempted = drain.attempted
          /\ charged' = charged /\ upload' = upload
          /\ drain.at \in {"decide", "select"} /\ drain'.at \in {"wind", "plan"}
      BY <1>0, <2>7 DEF Decide, DrainAt, Drain
    <3> QED
      BY <1>0, <3>1 DEF ChargeInv
  <2>8. CASE Wind
    BY <1>0, <2>8 DEF Wind, DrainAt, ChargeInv
  <2> QED
    BY <1>2, <2>1, <2>2, <2>3, <2>4, <2>5, <2>6, <2>7, <2>8 DEF DrainStep, RequestStep
<1>3. CASE Kill
  BY <1>0, <1>3 DEF Kill, ChargeInv
<1>4. ASSUME NEW p \in Photos, UploadStep(p) \/ WireStep(p)
      PROVE  ChargeInv'
  <2>1. drain' = drain /\ charged' = charged
    BY <1>4 DEF UploadStep, WireStep, UploadFrame
  <2>2. ASSUME NEW x \in Photos, upload'[x] # "idle"
        PROVE  upload[x] # "idle"
    BY <1>0, <1>4, <2>2 DEF UploadStep, WireStep, Start, Put, UploadFails, Confirmed, Answered,
                            Abandoned, StrayLands, Become
  <2> QED
    BY <1>a, <2>1, <2>2
<1>5. ASSUME NEW p \in Photos, EnqueueStep(p)
      PROVE  ChargeInv'
  BY <1>5, <1>a DEF EnqueueStep
<1>6. CASE UNCHANGED vars
  BY <1>6, <1>a DEF vars, memory
<1> QED
  BY <1>1, <1>2, <1>3, <1>4, <1>5, <1>6 DEF Next

\* A drain charges a photo at most one of its attempts, however many passes it
\* runs: drainUploadQueue plans only what is not yet in its attempted set, and
\* everything in a chunk is in that set and uncharged until recordFailedAttempts.
THEOREM DrainChargesOnce == Spec => []OneChargePerDrain
<1>1. Init => ChargeInv
  BY DEF Init, ChargeInv, NoCharge, Off
<1>2. Spec => []ChargeInv
  BY <1>1, ChargeStep, TypeAlways, PTL DEF Spec
<1>3. ChargeInv => OneChargePerDrain
  BY DEF ChargeInv, OneChargePerDrain
<1> QED
  BY <1>2, <1>3, PTL

-----------------------------------------------------------------------------
(* What the crew removed stays out *)

\* A rewrite that adds no row.
LEMMA RowlessShrinks ==
  ASSUME RowlessInv, NEW actor, NEW doomed, Rewrites(actor, doomed),
         UNCHANGED <<worker, call>>, DOMAIN Newest' \subseteq DOMAIN ReadQueue
  PROVE  RowlessInv'
<1>1. \A q \in Views' : DOMAIN q \subseteq DOMAIN ReadQueue
  BY DEF Rewrites
<1>2. \A p \in Photos :
        worker[p] \in Rowless \/ call[p] = "unseen" => p \notin DOMAIN ReadQueue
  BY DEF Rewrites, RowlessInv
<1> QED
  BY <1>1, <1>2 DEF RowlessInv

LEMMA RemovedShrinks ==
  ASSUME RemovedInv, NEW actor, NEW doomed, Rewrites(actor, doomed),
         UNCHANGED <<worker, call, draft, removed, overtaken, cancelled>>,
         DOMAIN Newest' \subseteq DOMAIN ReadQueue
  PROVE  RemovedInv'
BY DEF RemovedInv, Rewrites, Gone, MayOwn

LEMMA CrewOut ==
  ASSUME TypeInv, RowlessInv, RemovedInv, CrewStep
  PROVE  RowlessInv' /\ RemovedInv'
<1>0. DiskInv /\ UNCHANGED <<worker, call>>
  BY DEF TypeInv, CrewStep
<1>1. CASE Dismiss
  <2>1. PICK failed, out :
          /\ failed \subseteq DOMAIN ReadQueue /\ out \subseteq failed
          /\ Sheds(Crew, failed)
          /\ removed' = removed \cup out /\ out \cap draft = {}
          /\ \A p \in out : ~ MayOwn(p)
          /\ overtaken' = overtaken \cup {p \in failed \ out : ~ Keeps(p)}
    BY <1>0, <1>1, DismissWrites
  <2>2. /\ DOMAIN Newest' = DOMAIN ReadQueue \ failed
        /\ Newest = ReadQueue /\ Views = {ReadQueue}
    BY <2>1 DEF Sheds, Rewrites
  <2>3. DOMAIN ReadQueue \subseteq Photos
    BY <1>0, ReadType, QueueForm
  <2>4. RowlessInv'
    BY <1>0, <2>1, <2>2, RowlessShrinks DEF Sheds
  <2>5. \A p \in out : worker[p] \notin {"copy", "persist"}
    BY <2>1, <2>2, <2>3 DEF RowlessInv, Rowless
  <2>6. draft' = draft /\ cancelled' = cancelled
    BY <1>1 DEF Dismiss
  <2>7. (removed' \cup cancelled') \cap DOMAIN Newest' = {}
    BY <2>1, <2>2, <2>6 DEF RemovedInv
  <2>8. cancelled' \subseteq Gone' /\ removed' \cap draft' = {}
    BY <2>1, <2>6 DEF RemovedInv, Gone
  <2>9. ASSUME NEW p \in removed'
        PROVE  (worker'[p] \in {"copy", "persist"} => p \in cancelled') /\ ~ MayOwn(p)'
    BY <1>0, <2>1, <2>5, <2>6, <2>9 DEF RemovedInv, MayOwn
  <2>10. RemovedInv'
    BY <2>7, <2>8, <2>9 DEF RemovedInv
  <2> QED
    BY <2>4, <2>10
<1>2. ASSUME NEW p \in Photos, Remove(p)
      PROVE  RowlessInv' /\ RemovedInv'
  <2>1. /\ draft' = draft \ {p} /\ LockFree
        /\ \/ removed' = removed \cup {p} /\ overtaken' = overtaken /\ ~ MayOwn(p)
           \/ removed' = removed /\ overtaken' = overtaken \cup {p}
        /\ cancelled' = IF worker[p] # "none" THEN cancelled \cup {p} ELSE cancelled
        /\ worker[p] # "none" => p \in cancelled'
    BY <1>2 DEF Remove
  <2>2. DOMAIN Newest' = DOMAIN Newest \ {p} /\ RowlessInv'
    <3>1. CASE p \in Queued
      <4>1. Sheds(Crew, {p})
        BY <1>0, <1>2, <3>1, RemoveWrites
      <4> QED
        BY <1>0, <4>1, RowlessShrinks DEF Sheds, Rewrites
    <3>2. CASE p \notin Queued
      <4>1. Newest' = Newest /\ Views' = Views
        BY <1>2, <3>2, Pauses DEF Remove
      <4>2. p \notin DOMAIN Newest
        BY <2>1, <3>2, FreeViews DEF Queued
      <4> QED
        BY <1>0, <4>1, <4>2 DEF RowlessInv
    <3> QED
      BY <3>1, <3>2
  <2>3. \A x \in removed' : ~ MayOwn(x)'
    BY <1>0, <2>1 DEF RemovedInv, MayOwn
  <2>4. RemovedInv'
    BY <1>0, <2>1, <2>2, <2>3 DEF RemovedInv, Gone
  <2> QED
    BY <2>2, <2>4
<1>3. ASSUME NEW p \in Photos, Wait(p) \/ WaitOver(p)
      PROVE  RowlessInv' /\ RemovedInv'
  <2>1. NoWrite /\ UNCHANGED <<draft, cancelled, removed, overtaken>>
    BY <1>3 DEF Wait, WaitOver
  <2> QED
    BY <1>0, <2>1, Pauses DEF RowlessInv, RemovedInv, Gone, MayOwn
<1> QED
  BY <1>1, <1>2, <1>3 DEF CrewStep

LEMMA DrainOut ==
  ASSUME TypeInv, RowlessInv, RemovedInv, DrainStep \/ RequestStep
  PROVE  RowlessInv' /\ RemovedInv'
<1>0. /\ DiskInv /\ ChargeableInv
      /\ UNCHANGED <<worker, call, draft, removed, overtaken, cancelled>>
  BY DEF TypeInv, DrainStep, RequestStep, DrainFrame
<1>a. ASSUME NoWrite
      PROVE  RowlessInv' /\ RemovedInv'
  BY <1>0, <1>a, Pauses DEF RowlessInv, RemovedInv, Gone, MayOwn
<1>b. ASSUME NEW actor, NEW doomed, Rewrites(actor, doomed),
             DOMAIN Newest' \subseteq DOMAIN ReadQueue
      PROVE  RowlessInv' /\ RemovedInv'
  BY <1>0, <1>b, RowlessShrinks, RemovedShrinks
<1>1. CASE Reconcile
  <2>1. CASE Unstuck(ReadQueue) # ReadQueue
    BY <1>0, <1>1, <1>b, <2>1, ReconcileWrites DEF SameRows
  <2>2. CASE Unstuck(ReadQueue) = ReadQueue
    BY <1>a, <1>1, <2>2 DEF Reconcile
  <2> QED
    BY <2>1, <2>2
<1>2. CASE CommitSent
  <2>1. CASE Outcome("ok") # {}
    BY <1>0, <1>2, <1>b, <2>1, CommitWrites DEF Sheds
  <2>2. CASE Outcome("ok") = {}
    BY <1>a, <1>2, <2>2 DEF CommitSent
  <2> QED
    BY <2>1, <2>2
<1>3. CASE RecordFailed
  <2>1. CASE Outcome("failed") \cap Queued # {}
    BY <1>0, <1>3, <1>b, <2>1, RecordWrites
  <2>2. CASE Outcome("failed") \cap Queued = {}
    BY <1>a, <1>3, <2>2 DEF RecordFailed
  <2> QED
    BY <2>1, <2>2
<1>4. CASE StartDrain \/ RequestDrain \/ Plan \/ Select \/ Decide \/ Wind
  BY <1>a, <1>4 DEF StartDrain, RequestDrain, Plan, Select, Decide, Wind
<1> QED
  BY <1>1, <1>2, <1>3, <1>4 DEF DrainStep, RequestStep

\* A step of an enqueue or of a call that rewrites nothing.
LEMMA OutPauses ==
  ASSUME RowlessInv, RemovedInv, NoWrite, UNCHANGED <<removed, overtaken>>,
         NEW p \in Photos,
         \A x \in Photos : x # p => worker'[x] = worker[x] /\ call'[x] = call[x],
         worker'[p] \in Rowless \/ call'[p] = "unseen" => \A q \in Views : p \notin DOMAIN q,
         cancelled' \subseteq cancelled, cancelled \subseteq cancelled' \cup {p},
         draft' \subseteq draft, removed \subseteq Photos,
         p \in removed => /\ worker'[p] \in {"copy", "persist"} => p \in cancelled'
                         /\ call'[p] \notin {"made", "unseen"}
  PROVE  RowlessInv' /\ RemovedInv'
<1>1. Newest' = Newest /\ Views' = Views
  BY Pauses
<1>2. RowlessInv'
  BY <1>1 DEF RowlessInv
<1>3. ASSUME NEW x \in removed
      PROVE  /\ worker'[x] \in {"copy", "persist"} => x \in cancelled'
             /\ call'[x] \notin {"made", "unseen"}
  BY DEF RemovedInv, MayOwn
<1>4. RemovedInv'
  BY <1>1, <1>3 DEF RemovedInv, Gone, MayOwn
<1> QED
  BY <1>2, <1>4

LEMMA EnqueueOut ==
  ASSUME TypeInv, RowlessInv, RemovedInv, NEW p \in Photos, EnqueueStep(p)
  PROVE  RowlessInv' /\ RemovedInv'
<1>0. /\ DiskInv /\ UNCHANGED <<removed, overtaken>>
      /\ worker \in [Photos -> Steps] /\ call \in [Photos -> Calls]
      /\ call[p] = "behind" => worker[p] \in Persisted
      /\ draft \subseteq Photos /\ removed \subseteq Photos
  BY DEF TypeInv, WorkerInv, EnqueueStep
<1>a. CASE Call(p)
  <2>1. /\ NoWrite /\ UNCHANGED <<worker, draft, cancelled>> /\ p \in draft
        /\ call' = [call EXCEPT ![p] = "made"]
    BY <1>a DEF Call, Turn
  <2>2. p \notin removed
    BY <2>1 DEF RemovedInv
  <2>3. call'[p] = "made" /\ \A x \in Photos : x # p => call'[x] = call[x]
    BY <1>0, <2>1
  <2>4. worker'[p] \in Rowless \/ call'[p] = "unseen" => \A q \in Views : p \notin DOMAIN q
    BY <2>1, <2>3 DEF RowlessInv
  <2> QED
    BY <1>0, <2>1, <2>2, <2>3, <2>4, OutPauses
<1>b. CASE Snapshot(p)
  <2>1. /\ NoWrite /\ LockFree /\ UNCHANGED <<worker, draft, cancelled>> /\ call[p] = "made"
        /\ call' = [call EXCEPT ![p] = IF p \in Queued THEN "seen" ELSE "unseen"]
    BY <1>b DEF Snapshot, Turn
  <2>2. p \notin removed
    BY <2>1 DEF RemovedInv, MayOwn
  <2>3. /\ call'[p] = "unseen" => p \notin Queued
        /\ \A x \in Photos : x # p => call'[x] = call[x]
    BY <1>0, <2>1
  <2>4. worker'[p] \in Rowless \/ call'[p] = "unseen" => \A q \in Views : p \notin DOMAIN q
    BY <2>1, <2>3, FreeViews DEF RowlessInv, Queued
  <2> QED
    BY <1>0, <2>1, <2>2, <2>3, <2>4, OutPauses
<1>1. CASE Claim(p)
  <2>1. /\ NoWrite /\ cancelled' = cancelled /\ call[p] \in {"seen", "unseen", "behind"}
        /\ \/ draft' = draft \ {p} /\ worker' = worker
           \/ draft' = draft /\ worker' = worker
           \/ /\ call[p] # "seen" /\ worker[p] = "none" /\ draft' = draft
              /\ worker' = [worker EXCEPT ![p] = "copy"]
        /\ \E step \in {"none", "waiting"} : call' = [call EXCEPT ![p] = step]
    BY <1>1 DEF Claim, AnswerSkip, Goto, Turn
  <2>2. call'[p] \in {"none", "waiting"} /\ \A x \in Photos : x # p => call'[x] = call[x]
    BY <1>0, <2>1
  <2>3. \A x \in Photos : x # p => worker'[x] = worker[x]
    BY <1>0, <2>1
  <2>4. worker'[p] = worker[p] \/ (worker'[p] = "copy" /\ call[p] = "unseen")
    BY <1>0, <2>1 DEF Persisted
  <2>5. worker'[p] \in Rowless => \A q \in Views : p \notin DOMAIN q
    BY <2>4 DEF RowlessInv
  <2>6. p \in removed /\ worker'[p] \in {"copy", "persist"} => p \in cancelled'
    BY <2>1, <2>4 DEF RemovedInv, MayOwn
  <2>7. draft' \subseteq draft
    BY <2>1
  <2> QED
    BY <1>0, <2>1, <2>2, <2>3, <2>5, <2>6, <2>7, OutPauses
<1>2. CASE Copied(p) \/ DropCopy(p) \/ Compress(p) \/ Staged(p) \/ Tidy(p)
  <2>1. PICK s : /\ worker' = [worker EXCEPT ![p] = s]
                 /\ s # "copy" /\ s # "none"
                 /\ s \in {"persist", "failed"} => worker[p] = "copy"
                 /\ s \in Rowless => worker[p] \in Rowless
    BY <1>2 DEF Copied, DropCopy, Compress, Staged, Tidy, At, Goto, Rowless
  <2>2. NoWrite /\ UNCHANGED <<draft, call, cancelled>>
    BY <1>2 DEF Copied, DropCopy, Compress, Staged, Tidy
  <2>3. worker'[p] = s /\ \A x \in Photos : x # p => worker'[x] = worker[x]
    BY <1>0, <2>1
  <2>4. worker'[p] \in Rowless \/ call'[p] = "unseen" => \A q \in Views : p \notin DOMAIN q
    BY <2>1, <2>2, <2>3 DEF RowlessInv
  <2>5. p \in removed => /\ worker'[p] \in {"copy", "persist"} => p \in cancelled'
                        /\ call'[p] \notin {"made", "unseen"}
    BY <2>1, <2>2, <2>3 DEF RemovedInv, MayOwn
  <2> QED
    BY <1>0, <2>2, <2>3, <2>4, <2>5, OutPauses
<1>3. CASE Persist(p)
  <2>1. /\ worker[p] = "persist" /\ LockFree /\ draft' = draft
        /\ call'[p] # "unseen" /\ (call'[p] = call[p] \/ call'[p] = "behind")
        /\ \A x \in Photos : x # p => call'[x] = call[x]
    BY <1>0, <1>3 DEF Persist, At
  <2>2. CASE Tombstoned(p)
    <3>1. NoWrite /\ cancelled' = cancelled \ {p} /\ worker' = [worker EXCEPT ![p] = "dropped"]
      BY <1>3, <2>2 DEF Persist, Goto
    <3>2. worker'[p] = "dropped" /\ \A x \in Photos : x # p => worker'[x] = worker[x]
      BY <1>0, <3>1
    <3>3. \A q \in Views : p \notin DOMAIN q
      BY <2>1 DEF RowlessInv, Rowless
    <3>4. p \in removed => call'[p] \notin {"made", "unseen"}
      BY <2>1 DEF RemovedInv, MayOwn
    <3> QED
      BY <1>0, <2>1, <3>1, <3>2, <3>3, <3>4, OutPauses
  <2>3. CASE ~ Tombstoned(p)
    <3>1. cancelled' = cancelled /\ worker' = [worker EXCEPT ![p] = "compress"]
      BY <1>3, <2>3 DEF Persist, Goto
    <3>2. Rewrites(p, {}) /\ DOMAIN Newest' = DOMAIN ReadQueue \cup {p}
      BY <1>0, <1>3, <2>3, PersistWrites
    <3>3. \A q \in Views' : DOMAIN q \subseteq DOMAIN ReadQueue \cup {p}
      BY <3>2 DEF Rewrites
    <3>4. Newest = ReadQueue /\ Views = {ReadQueue}
      BY <3>2 DEF Rewrites
    <3>5. RowlessInv'
      BY <1>0, <2>1, <3>1, <3>3, <3>4 DEF RowlessInv, Rowless
    <3>6. p \notin removed /\ p \notin cancelled
      BY <2>1, <2>3 DEF RemovedInv, Tombstoned
    <3>7. \A x \in removed : x # p /\ worker'[x] = worker[x] /\ call'[x] = call[x]
      BY <1>0, <2>1, <3>1, <3>6
    <3>8. RemovedInv'
      BY <1>0, <2>1, <3>1, <3>2, <3>4, <3>6, <3>7 DEF RemovedInv, Gone, MayOwn
    <3> QED
      BY <3>5, <3>8
  <2> QED
    BY <2>2, <2>3
<1>4. CASE Switch(p)
  <2>1. LockFree /\ UNCHANGED <<draft, call, cancelled>>
    BY <1>4 DEF Switch, MyTurn
  <2>2. CASE StillWanted(p)
    <3>1. worker' = [worker EXCEPT ![p] = "tidy"]
      BY <1>4, <2>2 DEF Switch, Goto
    <3>2. Rewrites(p, {}) /\ DOMAIN Newest' = DOMAIN ReadQueue
      BY <1>0, <1>4, <2>2, SwitchWrites
    <3>3. \A q \in Views' : DOMAIN q \subseteq DOMAIN ReadQueue
      BY <3>2 DEF Rewrites
    <3>4. Newest = ReadQueue /\ Views = {ReadQueue}
      BY <3>2 DEF Rewrites
    <3>5. RowlessInv'
      BY <1>0, <2>1, <3>1, <3>3, <3>4 DEF RowlessInv, Rowless
    <3>6. RemovedInv'
      BY <1>0, <2>1, <3>1, <3>2, <3>4 DEF RemovedInv, Gone, MayOwn
    <3> QED
      BY <3>5, <3>6
  <2>3. CASE ~ StillWanted(p)
    <3>1. worker' = [worker EXCEPT ![p] = "discard"] /\ NoWrite
      BY <1>4, <2>3 DEF Switch, Goto
    <3>2. Newest = ReadQueue /\ Views = {ReadQueue}
      BY <2>1, FreeViews
    <3>3. p \notin DOMAIN ReadQueue
      BY <2>3, <3>2 DEF StillWanted, Tombstoned, Queued, RemovedInv
    <3>4. worker'[p] = "discard" /\ \A x \in Photos : x # p => worker'[x] = worker[x]
      BY <1>0, <3>1
    <3>5. p \in removed => call'[p] \notin {"made", "unseen"}
      BY <2>1 DEF RemovedInv, MayOwn
    <3> QED
      BY <1>0, <2>1, <3>1, <3>2, <3>3, <3>4, <3>5, OutPauses
  <2> QED
    BY <2>2, <2>3
<1>5. CASE Unstage(p)
  <2>1. /\ LockFree /\ UNCHANGED <<draft, call, cancelled>>
        /\ worker' = [worker EXCEPT ![p] = "done"]
    BY <1>5 DEF Unstage, MyTurn, Goto
  <2>2. CASE StillWanted(p)
    <3>1. Rewrites(p, {}) /\ DOMAIN Newest' = DOMAIN ReadQueue
      BY <1>0, <1>5, <2>2, UnstageWrites DEF SameRows
    <3>2. \A q \in Views' : DOMAIN q \subseteq DOMAIN ReadQueue
      BY <3>1 DEF Rewrites
    <3>3. Newest = ReadQueue /\ Views = {ReadQueue}
      BY <3>1 DEF Rewrites
    <3>4. RowlessInv'
      BY <1>0, <2>1, <3>2, <3>3 DEF RowlessInv, Rowless
    <3>5. RemovedInv'
      BY <1>0, <2>1, <3>1, <3>3 DEF RemovedInv, Gone, MayOwn
    <3> QED
      BY <3>4, <3>5
  <2>3. CASE ~ StillWanted(p)
    <3>1. NoWrite
      BY <1>5, <2>3 DEF Unstage
    <3>2. worker'[p] = "done" /\ \A x \in Photos : x # p => worker'[x] = worker[x]
      BY <1>0, <2>1
    <3>3. p \in removed => call'[p] \notin {"made", "unseen"}
      BY <2>1 DEF RemovedInv, MayOwn
    <3>4. worker'[p] \in Rowless \/ call'[p] = "unseen" => \A q \in Views : p \notin DOMAIN q
      BY <2>1, <3>2 DEF RowlessInv, Rowless
    <3> QED
      BY <1>0, <2>1, <3>1, <3>2, <3>3, <3>4, OutPauses
  <2> QED
    BY <2>2, <2>3
<1>6. CASE Release(p)
  <2>1. /\ worker' = [worker EXCEPT ![p] = "none"]
        /\ cancelled' = cancelled \ {p}
        /\ draft' \subseteq draft /\ NoWrite
        /\ call'[p] = call[p] \/ call'[p] = "none"
        /\ \A x \in Photos : x # p => call'[x] = call[x]
    BY <1>0, <1>6 DEF Release, Goto, TombstonesAfter
  <2>2. worker'[p] = "none" /\ \A x \in Photos : x # p => worker'[x] = worker[x]
    BY <1>0, <2>1
  <2>3. p \in removed => call'[p] \notin {"made", "unseen"}
    BY <2>1 DEF RemovedInv, MayOwn
  <2>4. worker'[p] \in Rowless \/ call'[p] = "unseen" => \A q \in Views : p \notin DOMAIN q
    BY <2>1, <2>2 DEF RowlessInv, Rowless
  <2> QED
    BY <1>0, <2>1, <2>2, <2>3, <2>4, OutPauses
<1> QED
  BY <1>a, <1>b, <1>1, <1>2, <1>3, <1>4, <1>5, <1>6 DEF EnqueueStep

LEMMA OutStep ==
  ASSUME TypeInv, RowlessInv, RemovedInv, [Next]_vars
  PROVE  RowlessInv' /\ RemovedInv'
<1>0. DiskInv
  BY DEF TypeInv
<1>a. ASSUME NoWrite, UNCHANGED <<worker, call, draft, removed, overtaken, cancelled>>
      PROVE  RowlessInv' /\ RemovedInv'
  BY <1>a, Pauses DEF RowlessInv, RemovedInv, Gone, MayOwn
<1>1. CASE WriteStep
  <2>1. WritesOn /\ UNCHANGED <<worker, call, draft, removed, overtaken, cancelled>>
    BY <1>1 DEF WriteStep, WritesOn
  <2>2. Newest' = Newest /\ Views' = {Newest} /\ Newest \in Views
    BY <1>0, <2>1, Proceeds DEF Views
  <2> QED
    BY <2>1, <2>2 DEF RowlessInv, RemovedInv, Gone, MayOwn
<1>2. CASE Kill
  <2>1. /\ worker' = [x \in Photos |-> "none"] /\ cancelled' = {} /\ draft' = draft
        /\ call' = [x \in Photos |-> "none"]
        /\ removed' = removed \ (draft \cup DOMAIN ReadQueue)
    BY <1>2 DEF Kill, Queued
  <2>2. Newest' = ReadQueue
    BY <1>0, <1>2, KillDisk
  <2> QED
    BY <2>1, <2>2 DEF RowlessInv, RemovedInv, Rowless, Gone, MayOwn, TypeInv, WorkerInv
<1>3. ASSUME NEW p \in Photos, UploadStep(p) \/ WireStep(p)
      PROVE  RowlessInv' /\ RemovedInv'
  BY <1>3, <1>a DEF UploadStep, WireStep, UploadFrame, NoWrite
<1>4. CASE UNCHANGED vars
  BY <1>4, <1>a DEF vars, memory, NoWrite
<1> QED
  BY <1>1, <1>2, <1>3, <1>4, CrewOut, DrainOut, EnqueueOut DEF Next

-----------------------------------------------------------------------------
(* A removal that has returned *)

LEMMA TruncatePauses ==
  ASSUME TypeInv, TruncateInv, NoWrite, removed' \subseteq removed,
         \A p \in removed' : Past(p)' => Past(p),
         \A p \in Photos : upload'[p] # "idle" =>
            upload[p] # "idle" \/ (p \in DOMAIN Newest /\ writing.stage = "idle")
  PROVE  TruncateInv'
<1>1. /\ DOMAIN ReadQueue' = DOMAIN ReadQueue /\ DOMAIN Newest' = DOMAIN Newest
      /\ (Standing' <=> Standing) /\ writing' = writing /\ tmp' = tmp
  BY Pauses
<1> QED
  BY <1>1 DEF TruncateInv, Queued

LEMMA TruncateBegins ==
  ASSUME TypeInv, RemovedInv, TruncateInv, NEW actor, NEW doomed, Rewrites(actor, doomed),
         \A p \in removed' : Past(p)' => p \in removed,
         \A p \in Photos : upload'[p] # "idle" => upload[p] # "idle"
  PROVE  TruncateInv'
<1>1. /\ Newest = ReadQueue /\ writing.stage = "idle"
      /\ writing'.stage = "tmp" /\ (writing'.over <=> tmp # {})
      /\ Standing' => DOMAIN ReadQueue' = DOMAIN ReadQueue
  BY DEF Rewrites
<1>2. \A p \in removed : p \notin DOMAIN Newest
  BY DEF RemovedInv
<1>3. \A p \in removed : upload[p] # "idle" => tmp = {}
  BY <1>1, <1>2 DEF TruncateInv, TypeInv, WorkerInv
<1>5. Standing' => \A p \in removed' : Past(p)' => p \notin Queued'
  BY <1>1, <1>2 DEF Queued
<1>6. ASSUME NEW p \in Photos
      PROVE  /\ ~ (writing'.stage \in {"idle", "files"})
             /\ p \in removed' /\ Past(p)' /\ upload'[p] # "idle" => ~ writing'.over
  BY <1>1, <1>3
<1> QED
  BY <1>5, <1>6 DEF TruncateInv

LEMMA TruncateProceeds ==
  ASSUME TypeInv, TruncateInv, WritesOn, upload' = upload
  PROVE  TruncateInv'
<1>1. /\ DOMAIN Newest' = DOMAIN Newest /\ ~ Standing' /\ writing'.stage # "tmp"
      /\ writing'.stage \in {"idle", "files"} =>
           tmp' = {} \/ (tmp' = tmp /\ writing.stage = "files")
  BY Proceeds DEF TypeInv
<1> QED
  BY <1>1 DEF TruncateInv

LEMMA TruncateStep ==
  ASSUME TypeInv, RemovedInv, TruncateInv, [Next]_vars
  PROVE  TruncateInv'
<1>0. /\ DiskInv /\ ChargeableInv /\ upload \in [Photos -> Progress]
      /\ left \cup awaited \subseteq removed
  BY DEF TypeInv, UploadInv, WorkerInv
<1>a. ASSUME NoWrite, UNCHANGED <<removed, left, awaited>>,
             \A p \in Photos : upload'[p] # "idle" => upload[p] # "idle"
      PROVE  TruncateInv'
  <2>1. \A p \in removed' : Past(p)' => Past(p)
    BY <1>a DEF Past, NoWrite
  <2> QED
    BY <1>a, <2>1, TruncatePauses
<1>b. ASSUME NEW actor, NEW doomed, Rewrites(actor, doomed), UNCHANGED removed,
             \A p \in Photos : upload'[p] # "idle" => upload[p] # "idle"
      PROVE  TruncateInv'
  BY <1>b, TruncateBegins
<1>1. CASE WriteStep
  BY <1>1, TruncateProceeds DEF WriteStep, WritesOn
<1>2. CASE CrewStep
  <2>0. upload' = upload
    BY <1>2 DEF CrewStep
  <2>1. ASSUME NEW actor, NEW doomed, Rewrites(actor, doomed), actor = Crew,
               UNCHANGED <<left, awaited>>
        PROVE  TruncateInv'
    <3>1. \A p \in removed' : Past(p)' => p \in removed
      BY <1>0, <2>1 DEF Past, Rewrites
    <3> QED
      BY <2>0, <2>1, <3>1, TruncateBegins
  <2>2. CASE Dismiss
    BY <1>0, <2>1, <2>2, DismissWrites DEF Dismiss, Sheds
  <2>3. ASSUME NEW p \in Photos, Remove(p)
        PROVE  TruncateInv'
    <3>1. CASE p \in Queued
      BY <1>0, <2>1, <2>3, <3>1, RemoveWrites DEF Remove, Sheds
    <3>2. CASE p \notin Queued
      <4>1. NoWrite /\ LockFree
        BY <2>3, <3>2 DEF Remove
      <4>2. /\ DOMAIN Newest' = DOMAIN Newest /\ ~ Standing' /\ writing' = writing /\ tmp' = tmp
            /\ writing.stage = "idle"
        BY <4>1, Pauses, FreeViews
      <4> QED
        BY <2>0, <4>2 DEF TruncateInv
    <3> QED
      BY <3>1, <3>2
  <2>4. ASSUME NEW p \in Photos, Wait(p) \/ WaitOver(p)
        PROVE  TruncateInv'
    <3>1. NoWrite /\ removed' = removed
      BY <2>4 DEF Wait, WaitOver
    <3>2. \A x \in removed' : Past(x)' => Past(x)
      BY <2>4, <3>1 DEF Wait, WaitOver, Past, Awaits, NoWrite
    <3> QED
      BY <2>0, <3>1, <3>2, TruncatePauses
  <2> QED
    BY <1>2, <2>2, <2>3, <2>4 DEF CrewStep
<1>3. CASE DrainStep \/ RequestStep
  <2>0. UNCHANGED <<removed, left, awaited>>
    BY <1>3 DEF DrainStep, RequestStep, DrainFrame
  <2>1. CASE Reconcile
    <3>1. CASE Unstuck(ReadQueue) # ReadQueue
      BY <1>0, <1>b, <2>0, <2>1, <3>1, ReconcileWrites DEF Reconcile
    <3>2. CASE Unstuck(ReadQueue) = ReadQueue
      BY <1>a, <2>0, <2>1, <3>2 DEF Reconcile
    <3> QED
      BY <3>1, <3>2
  <2>2. CASE CommitSent
    <3>0. upload' = upload
      BY <2>2 DEF CommitSent
    <3>1. CASE Outcome("ok") # {}
      BY <1>0, <1>b, <2>0, <2>2, <3>0, <3>1, CommitWrites DEF Sheds
    <3>2. CASE Outcome("ok") = {}
      BY <1>a, <2>0, <2>2, <3>0, <3>2 DEF CommitSent
    <3> QED
      BY <3>1, <3>2
  <2>3. CASE RecordFailed
    <3>0. \A p \in Photos : upload'[p] = "idle"
      BY <2>3 DEF RecordFailed
    <3>1. CASE Outcome("failed") \cap Queued # {}
      BY <1>0, <1>b, <2>0, <2>3, <3>0, <3>1, RecordWrites
    <3>2. CASE Outcome("failed") \cap Queued = {}
      BY <1>a, <2>0, <2>3, <3>0, <3>2 DEF RecordFailed
    <3> QED
      BY <3>1, <3>2
  <2>4. CASE Select
    <3>1. /\ LockFree /\ NoWrite
          /\ \A p \in Photos : upload'[p] = upload[p] \/ p \in Queued
      BY <2>4 DEF Select
    <3>2. Newest = ReadQueue /\ writing.stage = "idle"
      BY <3>1, FreeViews
    <3>3. \A p \in removed' : Past(p)' => Past(p)
      BY <2>0, <3>1 DEF Past, NoWrite
    <3> QED
      BY <2>0, <3>1, <3>2, <3>3, TruncatePauses DEF Queued
  <2>5. CASE StartDrain \/ RequestDrain \/ Plan \/ Decide \/ Wind
    BY <1>a, <2>0, <2>5 DEF StartDrain, RequestDrain, Plan, Decide, Wind
  <2> QED
    BY <1>3, <2>1, <2>2, <2>3, <2>4, <2>5 DEF DrainStep, RequestStep
<1>4. CASE Kill
  <2>1. \A p \in Photos : upload'[p] = "idle"
    BY <1>4 DEF Kill
  <2>2. writing'.stage = "idle" /\ ~ Standing'
    BY <1>0, <1>4, KillDisk DEF Idle, Standing
  <2> QED
    BY <2>1, <2>2 DEF TruncateInv
<1>5. ASSUME NEW p \in Photos, UploadStep(p) \/ WireStep(p)
      PROVE  TruncateInv'
  <2>1. NoWrite /\ UNCHANGED <<removed, left, awaited>>
    BY <1>5 DEF UploadStep, WireStep, UploadFrame, NoWrite
  <2>2. ASSUME NEW x \in Photos, upload'[x] # "idle"
        PROVE  upload[x] # "idle"
    BY <1>0, <1>5, <2>2 DEF UploadStep, WireStep, Start, Put, UploadFails, Confirmed, Answered,
                            Abandoned, StrayLands, Become
  <2> QED
    BY <1>a, <2>1, <2>2
<1>6. ASSUME NEW p \in Photos, EnqueueStep(p)
      PROVE  TruncateInv'
  <2>0. UNCHANGED <<removed, left, awaited, upload>>
    BY <1>6 DEF EnqueueStep
  <2>1. CASE Persist(p) /\ ~ Tombstoned(p)
    BY <1>0, <1>b, <2>0, <2>1, PersistWrites
  <2>2. CASE Switch(p) /\ StillWanted(p)
    BY <1>0, <1>b, <2>0, <2>2, SwitchWrites
  <2>3. CASE Unstage(p) /\ StillWanted(p)
    BY <1>0, <1>b, <2>0, <2>3, UnstageWrites
  <2>4. CASE \/ Persist(p) /\ Tombstoned(p)
             \/ Switch(p) /\ ~ StillWanted(p)
             \/ Unstage(p) /\ ~ StillWanted(p)
             \/ Call(p) \/ Snapshot(p) \/ Claim(p) \/ Copied(p) \/ DropCopy(p) \/ Compress(p)
             \/ Staged(p) \/ Tidy(p) \/ Release(p)
    BY <1>a, <2>0, <2>4 DEF Persist, Switch, Unstage, Call, Snapshot, Claim, Copied, DropCopy,
                            Compress, Staged, Tidy, Release
  <2> QED
    BY <1>6, <2>1, <2>2, <2>3, <2>4 DEF EnqueueStep
<1>7. CASE UNCHANGED vars
  BY <1>7, <1>a DEF vars, memory, NoWrite
<1> QED
  BY <1>1, <1>2, <1>3, <1>4, <1>5, <1>6, <1>7 DEF Next

LEMMA LeftStep ==
  ASSUME TypeInv, RemovedInv, TruncateInv, LeftInv, [Next]_vars
  PROVE  LeftInv'
<1>0. upload \in [Photos -> Progress] /\ left \subseteq removed /\ removed \subseteq Photos
  BY DEF TypeInv, UploadInv, WorkerInv
<1>a. ASSUME left' = left,
             \A p \in left : upload'[p] = "confirming" => upload[p] = "confirming"
      PROVE  LeftInv'
  BY <1>a DEF LeftInv
<1>1. CASE WriteStep
  BY <1>1, <1>a DEF WriteStep
<1>2. CASE CrewStep
  <2>0. upload' = upload
    BY <1>2 DEF CrewStep
  <2>1. ASSUME NEW p \in Photos, Wait(p) \/ WaitOver(p)
        PROVE  LeftInv'
    <3>1. \/ left' = left
          \/ left' = left \cup {p} /\ p \notin Active
      BY <2>1 DEF Wait, WaitOver, ToAwait
    <3>2. p \notin Active => upload[p] # "confirming"
      BY DEF Active
    <3> QED
      BY <2>0, <3>1, <3>2 DEF LeftInv
  <2> QED
    BY <1>2, <1>a, <2>0, <2>1 DEF CrewStep, Dismiss, Remove
<1>3. CASE DrainStep \/ RequestStep
  <2>1. left' = left
    BY <1>3 DEF DrainStep, RequestStep, DrainFrame
  <2>2. \A p \in Photos : upload'[p] \in {upload[p], "selected", "idle"}
    BY <1>3 DEF DrainStep, RequestStep, StartDrain, RequestDrain, Reconcile, Plan, Select,
                CommitSent, RecordFailed, Decide, Wind
  <2> QED
    BY <1>0, <1>a, <2>1, <2>2
<1>4. CASE Kill
  BY <1>4 DEF Kill, LeftInv
<1>5. ASSUME NEW p \in Photos, UploadStep(p) \/ WireStep(p)
      PROVE  LeftInv'
  <2>0. left' = left
    BY <1>5 DEF UploadStep, WireStep, UploadFrame
  <2>1. CASE Put(p)
    <3>1. ASSUME p \in left
          PROVE  p \notin Queued
      <4>1. p \in removed /\ Past(p) /\ upload[p] # "idle" /\ p \notin DOMAIN Newest
        BY <1>0, <2>1, <3>1 DEF Put, Past, RemovedInv
      <4>2. CASE writing.stage = "tmp"
        BY <4>1, <4>2 DEF TruncateInv, Standing
      <4>3. CASE writing.stage # "tmp"
        BY <4>1, <4>3 DEF Newest, Queued
      <4> QED
        BY <4>2, <4>3
    <3> QED
      BY <1>0, <1>a, <2>0, <2>1, <3>1 DEF Put, ShouldConfirm, Become
  <2>2. CASE \/ Start(p) \/ UploadFails(p) \/ Confirmed(p) \/ Answered(p)
             \/ Abandoned(p) \/ StrayLands(p)
    BY <1>0, <1>a, <2>0, <2>2 DEF Start, UploadFails, Confirmed, Answered, Abandoned, StrayLands,
                                  Become
  <2> QED
    BY <1>5, <2>1, <2>2 DEF UploadStep, WireStep
<1>6. ASSUME NEW p \in Photos, EnqueueStep(p)
      PROVE  LeftInv'
  BY <1>6, <1>a DEF EnqueueStep
<1>7. CASE UNCHANGED vars
  BY <1>7, <1>a DEF vars, memory
<1> QED
  BY <1>1, <1>2, <1>3, <1>4, <1>5, <1>6, <1>7 DEF Next

OutInv == RowlessInv /\ RemovedInv /\ TruncateInv /\ LeftInv

LEMMA OutAlways == Spec => []OutInv
<1>1. Init => OutInv
  <2>1. ASSUME Init
        PROVE  OutInv
    <3>1. LockFree /\ tmp = {} /\ index = {} /\ bak = {}
      BY <2>1 DEF Init, LockFree
    <3>2. ReadQueue = << >> /\ Newest = ReadQueue /\ ~ Standing
      BY <3>1, ReadCopy, FreeViews
    <3>3. DOMAIN Newest = {}
      BY <3>2, EmptyQueue
    <3>4. /\ removed = {} /\ cancelled = {} /\ left = {}
          /\ \A p \in Photos : worker[p] = "none" /\ call[p] = "none" /\ upload[p] = "idle"
      BY <2>1 DEF Init
    <3> QED
      BY <3>2, <3>3, <3>4 DEF OutInv, RowlessInv, RemovedInv, TruncateInv, LeftInv, Rowless
  <2> QED
    BY <2>1
<1>2. TypeInv /\ OutInv /\ [Next]_vars => OutInv'
  BY OutStep, TruncateStep, LeftStep DEF OutInv
<1> QED
  BY <1>1, <1>2, TypeAlways, PTL DEF Spec

\* What the crew removed does not come back: an enqueue that removeQueuedUploads
\* found in flight meets its tombstone before it persists a row, no call that could
\* still own the photo is under way (a removal during one is not in `removed`), no
\* rewrite adds a row that its own read under the lock did not have, and a relaunch
\* reads either the newest index or, while a .tmp left by no kill is written, one
\* without the photo.
THEOREM RemovedPhotosStayOut == Spec => []RemovedStaysOut
<1>1. ASSUME OutInv
      PROVE  RemovedStaysOut
  <2>1. SUFFICES ASSUME ~ Exposed, ~ Awaits(Crew), NEW p \in removed
                 PROVE  p \notin Queued
    BY DEF RemovedStaysOut
  <2>2. p \notin DOMAIN Newest
    BY <1>1 DEF OutInv, RemovedInv
  <2>3. CASE writing.stage = "tmp"
    BY <1>1, <2>1, <2>3 DEF OutInv, TruncateInv, Exposed, Awaits, Standing, Past
  <2>4. CASE writing.stage # "tmp"
    BY <2>2, <2>4 DEF Newest, Queued
  <2> QED
    BY <2>3, <2>4
<1> QED
  BY <1>1, OutAlways, PTL

\* Once removeQueuedUploadsAndWait has returned, no confirm of the photo lands
\* that was not on the wire with nothing left to await: an upload that looks at
\* the queue after the removal (shouldConfirm) does not find the photo there.
THEOREM NoLateConfirm == Spec => NoConfirmAfterWait
<1>1. TypeInv /\ OutInv /\ [Next]_vars
        => [\A p \in left : p \in gallery' => p \in gallery \cup stray]_vars
  <2>1. SUFFICES ASSUME OutInv, [Next]_vars, NEW p \in left, p \in gallery', p \notin gallery
                 PROVE  p \in stray
    OBVIOUS
  <2>2. PICK x \in Photos : Confirmed(x) \/ StrayLands(x)
    BY <2>1 DEF Next, vars, WriteStep, CrewStep, DrainStep, RequestStep, DrainFrame, Kill,
                EnqueueStep, UploadStep, WireStep, Start, Put, UploadFails, Answered, Abandoned
  <2>3. CASE Confirmed(x)
    BY <2>1, <2>3 DEF Confirmed, OutInv, LeftInv
  <2>4. CASE StrayLands(x)
    BY <2>1, <2>4 DEF StrayLands
  <2> QED
    BY <2>2, <2>3, <2>4
<1> QED
  BY <1>1, TypeAlways, OutAlways, PTL DEF Spec, NoConfirmAfterWait

-----------------------------------------------------------------------------
(* A captured photo is kept *)

LEMMA ViewsTyped ==
  ASSUME DiskInv
  PROVE  /\ Newest \in Views
         /\ \A q \in Views : /\ DOMAIN q \subseteq Photos
                             /\ \A p \in DOMAIN q : q[p].at \in {"orig", "jpg"}
<1>1. Newest \in QueueSet /\ ReadQueue \in QueueSet
  BY ReadType
<1>2. \A q \in Views : q \in QueueSet
  BY <1>1 DEF Views
<1>3. Newest \in Views
  BY DEF Views
<1> QED
  BY <1>2, <1>3, QueueForm DEF Row

\* Nothing happens to the photos but that the server may get one.
LEMMA KeptFrame ==
  ASSUME KeptInv, NoWrite, UNCHANGED <<files, worker, Copies, Gone>>,
         gallery \subseteq gallery',
         \A p \in Photos : upload'[p] \in {"landed", "ok"} => p \in gallery'
  PROVE  KeptInv'
<1>1. Views' = Views /\ Newest' = Newest /\ writing' = writing
  BY Pauses
<1>2. WholeInv'
  BY <1>1 DEF KeptInv, WholeInv
<1>3. HeldInv'
  BY <1>1 DEF KeptInv, HeldInv
<1>4. FileInv'
  BY <1>1 DEF KeptInv, FileInv
<1>5. DoomedInv'
  BY <1>1 DEF KeptInv, DoomedInv
<1> QED
  BY <1>2, <1>3, <1>4, <1>5 DEF KeptInv

\* An enqueue moves on without a rewrite.
LEMMA KeptMoves ==
  ASSUME TypeInv, KeptInv, NoWrite, UNCHANGED <<Gone, gallery, upload>>,
         NEW p \in Photos, NEW s, worker' = [worker EXCEPT ![p] = s],
         \A x \in Photos : x # p => files'[x] = files[x],
         Copies \subseteq Copies' \cup {p},
         p \in Copies' \/ p \notin Copies \/ \A q \in Views : p \in gallery \cup Gone \cup DOMAIN q,
         \A q \in Views : p \in DOMAIN q => files'[p][q[p].at] = "whole",
         s \in Persisted => p \in gallery \cup Gone \cup DOMAIN Newest,
         s = "persist" => files'[p].orig = "whole",
         s = "switch" => files'[p].jpg = "whole",
         s # "tidy",
         \A q \in Views : p \in DOMAIN q /\ s \in Compressing => q[p].at = "orig",
         \A f : <<p, f>> \in writing.doomed =>
            s \notin {"copy", "persist"} /\ (f = "jpg" => s \notin Compressing)
  PROVE  KeptInv'
<1>1. Views' = Views /\ Newest' = Newest /\ writing' = writing
  BY Pauses
<1>2. /\ worker'[p] = s /\ \A x \in Photos : x # p => worker'[x] = worker[x]
      /\ \A q \in Views : DOMAIN q \subseteq Photos
  BY ViewsTyped DEF TypeInv, WorkerInv
<1>3. WholeInv'
  BY <1>1, <1>2 DEF KeptInv, WholeInv
<1>4. HeldInv'
  BY <1>1, <1>2 DEF KeptInv, HeldInv
<1>5. FileInv'
  BY <1>1, <1>2 DEF KeptInv, FileInv
<1>6. DoomedInv'
  <2>1. ASSUME NEW x \in Photos, NEW f \in {"orig", "jpg"}, <<x, f>> \in writing.doomed
        PROVE  /\ x \in DOMAIN Newest => Newest[x].at # f
               /\ worker'[x] \notin {"copy", "persist"}
               /\ f = "jpg" => worker'[x] \notin Compressing
    <3>1. CASE x = p
      BY <1>2, <2>1, <3>1 DEF KeptInv, DoomedInv
    <3>2. CASE x # p
      BY <1>2, <2>1, <3>2 DEF KeptInv, DoomedInv
    <3> QED
      BY <3>1, <3>2
  <2> QED
    BY <1>1, <2>1 DEF DoomedInv
<1> QED
  BY <1>3, <1>4, <1>5, <1>6 DEF KeptInv

\* An enqueue leaves its photo to the queue, or gives it up.
LEMMA KeptRests ==
  ASSUME TypeInv, KeptInv, NoWrite, UNCHANGED <<Gone, gallery, upload>>,
         NEW p \in Photos, NEW s \in {"none", "dropped", "discard", "done", "failed"},
         worker' = [worker EXCEPT ![p] = s],
         \A x \in Photos : x # p => files'[x] = files[x],
         Copies \subseteq Copies' \cup {p},
         p \in Copies' \/ p \notin Copies \/ \A q \in Views : p \in gallery \cup Gone \cup DOMAIN q,
         \A q \in Views : p \in DOMAIN q => files'[p][q[p].at] = "whole",
         s \in Persisted => p \in gallery \cup Gone \cup DOMAIN Newest
  PROVE  KeptInv'
<1>1. s \notin Compressing /\ s \notin {"copy", "persist", "switch", "tidy"}
  BY DEF Compressing
<1> QED
  BY <1>1, KeptMoves

\* One file of a photo goes.
LEMMA FileDropped ==
  ASSUME FilesInv, NEW p \in Photos, NEW f \in {"orig", "jpg"}, DeleteFiles({<<p, f>>})
  PROVE  /\ \A x \in Photos : x # p => files'[x] = files[x]
         /\ \A g \in {"orig", "jpg"} : g # f => files'[p][g] = files[p][g]
<1>1. PICK doomed : doomed = {<<p, f>>}
  OBVIOUS
<1>2. DeleteFiles(doomed)
  BY <1>1
<1>3. ASSUME NEW g \in {"orig", "jpg"}, g # f
      PROVE  files'[p][g] = files[p][g]
  <2>1. <<p, g>> \notin doomed
    BY <1>1, <1>3
  <2> QED
    BY <1>2, <2>1, FilesDeleted
<1>4. \A x \in Photos : x # p => files'[x] = files[x]
  BY DEF DeleteFiles, FilesInv
<1> QED
  BY <1>3, <1>4

\* A rewrite in which every row keeps its file.
LEMMA KeptRewritten ==
  ASSUME TypeInv, KeptInv, UNCHANGED <<files, Copies, Gone, gallery>>,
         NEW actor, NEW doomed, Rewrites(actor, doomed),
         DOMAIN Newest' = DOMAIN ReadQueue,
         \A x \in DOMAIN ReadQueue : Newest'[x].at = ReadQueue[x].at,
         \A x \in Photos : worker'[x] = worker[x] \/ (worker[x] \in Persisted /\ worker'[x] = "done"),
         \A x \in Photos : upload'[x] \in {"landed", "ok"} => upload[x] \in {"landed", "ok"},
         \A x \in Photos : \A f \in {"orig", "jpg"} : <<x, f>> \in doomed =>
            worker'[x] = "none" /\ ~ (x \in DOMAIN Newest' /\ Newest'[x].at = f)
  PROVE  KeptInv'
<1>1. /\ Newest = ReadQueue /\ ReadQueue \in Views /\ Views' \subseteq {Newest', ReadQueue}
      /\ writing'.doomed = doomed
  BY DEF Rewrites
<1>2. \A q \in Views' : /\ DOMAIN q = DOMAIN ReadQueue /\ DOMAIN q \subseteq Photos
                        /\ \A x \in DOMAIN q : q[x].at = ReadQueue[x].at
  BY <1>1, ViewsTyped DEF TypeInv
<1>3. WholeInv'
  BY <1>1, <1>2 DEF KeptInv, WholeInv
<1>4. HeldInv'
  <2>1. \A q \in Views' : Photos \subseteq Copies' \cup gallery' \cup Gone' \cup DOMAIN q
    BY <1>1, <1>2 DEF KeptInv, HeldInv
  <2>2. ASSUME NEW x \in Photos
        PROVE  /\ worker'[x] \in Persisted => x \in gallery' \cup Gone' \cup DOMAIN Newest'
               /\ upload'[x] \in {"landed", "ok"} => x \in gallery'
    BY <1>1 DEF KeptInv, HeldInv
  <2> QED
    BY <2>1, <2>2 DEF HeldInv
<1>5. FileInv'
  <2>1. \A x \in Photos : worker'[x] = worker[x] \/ worker'[x] = "done"
    OBVIOUS
  <2>2. ASSUME NEW x \in Photos, NEW q \in Views', x \in DOMAIN q
        PROVE  /\ worker'[x] \in Compressing => q[x].at = "orig"
               /\ worker'[x] = "tidy" => q[x].at = "jpg"
    <3>1. q[x].at = ReadQueue[x].at /\ x \in DOMAIN Newest
      BY <1>1, <1>2, <2>2
    <3>2. /\ worker[x] \in Compressing => ReadQueue[x].at = "orig"
          /\ worker[x] = "tidy" => ReadQueue[x].at = "jpg"
      BY <1>1, <3>1 DEF KeptInv, FileInv
    <3> QED
      BY <2>1, <3>1, <3>2 DEF Compressing
  <2>3. \A x \in Photos : /\ worker'[x] = "persist" => files'[x].orig = "whole"
                          /\ worker'[x] = "switch" => files'[x].jpg = "whole"
    BY <2>1 DEF KeptInv, FileInv
  <2> QED
    BY <2>2, <2>3 DEF FileInv
<1>6. DoomedInv'
  BY <1>1 DEF DoomedInv, Compressing
<1> QED
  BY <1>3, <1>4, <1>5, <1>6 DEF KeptInv

\* A rewrite that takes rows out, of photos that are somewhere else.
LEMMA KeptShed ==
  ASSUME TypeInv, RowlessInv, KeptInv, UNCHANGED <<files, worker, upload, gallery>>,
         NEW actor, NEW ps, Sheds(actor, ps),
         Copies \cup Gone \subseteq Copies' \cup Gone', Gone \subseteq Gone',
         \A x \in ps \cap DOMAIN ReadQueue : x \in Copies' \cup gallery \cup Gone',
         \A x \in ps \cap DOMAIN ReadQueue : worker[x] \in Persisted => x \in gallery \cup Gone'
  PROVE  KeptInv'
<1>1. /\ Newest = ReadQueue /\ ReadQueue \in Views /\ Views' \subseteq {Newest', ReadQueue}
      /\ writing'.doomed = {<<p, ReadQueue[p].at>> : p \in ps \cap DOMAIN ReadQueue}
      /\ DOMAIN Newest' = DOMAIN ReadQueue \ ps
      /\ \A x \in DOMAIN Newest' : Newest'[x] = ReadQueue[x]
  BY DEF Sheds, Rewrites
<1>2. \A q \in Views' : /\ DOMAIN q \subseteq DOMAIN ReadQueue
                        /\ DOMAIN ReadQueue \ ps \subseteq DOMAIN q
                        /\ \A x \in DOMAIN q : q[x] = ReadQueue[x]
  BY <1>1
<1>3. DOMAIN ReadQueue \subseteq Photos
  BY <1>1, ViewsTyped DEF TypeInv
<1>4. WholeInv'
  BY <1>1, <1>2 DEF KeptInv, WholeInv
<1>5. HeldInv'
  <2>1. ASSUME NEW q \in Views', NEW x \in Photos
        PROVE  x \in Copies' \cup gallery' \cup Gone' \cup DOMAIN q
    BY <1>1, <1>2 DEF KeptInv, HeldInv
  <2>2. ASSUME NEW x \in Photos
        PROVE  /\ worker'[x] \in Persisted => x \in gallery' \cup Gone' \cup DOMAIN Newest'
               /\ upload'[x] \in {"landed", "ok"} => x \in gallery'
    BY <1>1 DEF KeptInv, HeldInv
  <2> QED
    BY <2>1, <2>2 DEF HeldInv
<1>6. FileInv'
  <2>1. ASSUME NEW x \in Photos, NEW q \in Views', x \in DOMAIN q
        PROVE  /\ worker[x] \in Compressing => q[x].at = "orig"
               /\ worker[x] = "tidy" => q[x].at = "jpg"
    BY <1>1, <1>2, <2>1 DEF KeptInv, FileInv
  <2> QED
    BY <2>1 DEF KeptInv, FileInv
<1>7. DoomedInv'
  <2>1. SUFFICES ASSUME NEW p \in Photos, NEW f \in {"orig", "jpg"}, <<p, f>> \in writing'.doomed
                 PROVE  /\ p \in DOMAIN Newest' => Newest'[p].at # f
                        /\ worker'[p] \notin {"copy", "persist"}
                        /\ f = "jpg" => worker'[p] \notin Compressing
    BY DEF DoomedInv
  <2>2. p \in ps \cap DOMAIN ReadQueue /\ f = ReadQueue[p].at
    BY <1>1, <2>1
  <2>3. worker[p] \notin Rowless
    BY <1>1, <2>2 DEF RowlessInv
  <2>4. worker[p] \in Compressing => f = "orig"
    BY <1>1, <2>2 DEF KeptInv, FileInv
  <2> QED
    BY <1>1, <2>2, <2>3, <2>4 DEF Rowless
<1> QED
  BY <1>4, <1>5, <1>6, <1>7 DEF KeptInv

LEMMA WriteKept ==
  ASSUME TypeInv, KeptInv, WriteStep
  PROVE  KeptInv'
<1>0. UNCHANGED <<Copies, worker, Gone, upload, gallery>> /\ WritesOn /\ DiskInv /\ FilesInv
  BY DEF WriteStep, WritesOn, TypeInv, Copies, Gone
<1>1. /\ Newest' = Newest /\ Views' = {Newest} /\ Newest \in Views
      /\ writing'.doomed = writing.doomed \/ writing'.doomed = {}
      /\ DOMAIN Newest \subseteq Photos
      /\ \A p \in DOMAIN Newest : Newest[p].at \in {"orig", "jpg"}
  BY <1>0, Proceeds, ViewsTyped DEF Idle
<1>2. ASSUME NEW p \in Photos, NEW f \in {"orig", "jpg"}
      PROVE  files'[p][f] = files[p][f] \/ <<p, f>> \in writing.doomed
  <2>1. CASE DropFiles
    BY <1>0, <2>1, FilesDeleted DEF DropFiles
  <2>2. CASE FillTmp \/ BackUp \/ Move
    BY <2>2 DEF FillTmp, BackUp, Move
  <2> QED
    BY <1>0, <2>1, <2>2 DEF WritesOn
<1>3. WholeInv'
  <2>1. ASSUME NEW p \in DOMAIN Newest
        PROVE  files'[p][Newest[p].at] = "whole"
    <3>1. PICK f \in {"orig", "jpg"} : f = Newest[p].at
      BY <1>1
    <3>2. p \in Photos /\ files[p][f] = "whole" /\ <<p, f>> \notin writing.doomed
      BY <1>1, <3>1 DEF KeptInv, WholeInv, DoomedInv
    <3> QED
      BY <1>2, <3>1, <3>2
  <2> QED
    BY <1>1, <2>1 DEF WholeInv
<1>4. HeldInv'
  BY <1>0, <1>1 DEF KeptInv, HeldInv
<1>5. FileInv'
  <2>1. ASSUME NEW p \in Photos
        PROVE  /\ worker[p] = "persist" => files'[p]["orig"] = "whole"
               /\ worker[p] = "switch" => files'[p]["jpg"] = "whole"
    <3>1. /\ worker[p] = "persist" => files[p]["orig"] = "whole" /\ <<p, "orig">> \notin writing.doomed
          /\ worker[p] = "switch" => files[p]["jpg"] = "whole" /\ <<p, "jpg">> \notin writing.doomed
      BY DEF KeptInv, FileInv, DoomedInv, Compressing
    <3> QED
      BY <1>2, <3>1
  <2>2. ASSUME NEW p \in Photos, p \in DOMAIN Newest
        PROVE  /\ worker[p] \in Compressing => Newest[p].at = "orig"
               /\ worker[p] = "tidy" => Newest[p].at = "jpg"
    BY <1>1, <2>2 DEF KeptInv, FileInv
  <2> QED
    BY <1>0, <1>1, <2>1, <2>2 DEF FileInv
<1>6. DoomedInv'
  BY <1>0, <1>1 DEF KeptInv, DoomedInv
<1> QED
  BY <1>3, <1>4, <1>5, <1>6 DEF KeptInv

LEMMA KillKept ==
  ASSUME TypeInv, KeptSafe, Kill
  PROVE  KeptSafe'
<1>1. SUFFICES ASSUME ~ rolledBack'
               PROVE  KeptInv'
  BY DEF KeptSafe
<1>2. /\ Views' = {ReadQueue} /\ Newest' = ReadQueue /\ ReadQueue \in Views /\ KeptInv
      /\ writing'.doomed = {}
  BY <1>1, KillDisk DEF KeptSafe, TypeInv, Idle
<1>3. /\ \A p \in Photos : worker'[p] = "none" /\ upload'[p] = "idle"
      /\ UNCHANGED <<files, gallery>> /\ Copies \subseteq Copies'
      /\ Gone \subseteq Gone' \cup Copies' \cup DOMAIN ReadQueue
  BY DEF Kill, Queued, Copies, Gone, TypeInv, WorkerInv
<1>4. WholeInv'
  BY <1>2, <1>3 DEF KeptInv, WholeInv
<1>5. HeldInv'
  BY <1>2, <1>3 DEF KeptInv, HeldInv, Persisted
<1>6. FileInv'
  BY <1>2, <1>3 DEF FileInv, Compressing
<1>7. DoomedInv'
  BY <1>2 DEF DoomedInv
<1> QED
  BY <1>4, <1>5, <1>6, <1>7 DEF KeptInv

LEMMA CrewKept ==
  ASSUME TypeInv, OutInv, KeptInv, CrewStep
  PROVE  KeptInv'
<1>0. /\ DiskInv /\ RowlessInv /\ UNCHANGED <<files, call, worker, upload, gallery>>
      /\ \A p \in Photos : upload[p] \in {"landed", "ok"} => p \in gallery
  BY DEF TypeInv, OutInv, WorkerInv, CrewStep, Dismiss, Remove, Wait, WaitOver, KeptInv, HeldInv
<1>1. CASE Dismiss
  <2>1. PICK failed, out :
          /\ failed \subseteq DOMAIN ReadQueue /\ out \subseteq failed
          /\ Sheds(Crew, failed)
          /\ removed' = removed \cup out
          /\ overtaken' = overtaken \cup {p \in failed \ out : ~ Keeps(p)}
    BY <1>0, <1>1, DismissWrites
  <2>2. Copies' = Copies /\ Gone \subseteq Gone'
    BY <1>0, <1>1, <2>1 DEF Dismiss, Copies, Gone
  <2>3. ASSUME NEW x \in failed
        PROVE  x \in Copies' \cup Gone' /\ (worker[x] \in Persisted => x \in Gone')
    <3>1. x \in Gone' \/ Keeps(x)
      BY <2>1 DEF Gone
    <3> QED
      BY <2>2, <3>1 DEF Keeps, Copies, Persisted
  <2> QED
    BY <1>0, <2>1, <2>2, <2>3, KeptShed
<1>2. ASSUME NEW p \in Photos, Remove(p)
      PROVE  KeptInv'
  <2>1. Copies' = Copies \ {p} /\ Gone' = Gone \cup {p}
    BY <1>0, <1>2 DEF Remove, Copies, Gone
  <2>2. CASE p \in Queued
    <3>1. Sheds(Crew, {p})
      BY <1>0, <1>2, <2>2, RemoveWrites
    <3> QED
      BY <1>0, <2>1, <3>1, KeptShed
  <2>3. CASE p \notin Queued
    <3>1. Views' = Views /\ Newest' = Newest /\ writing' = writing
      BY <1>2, <2>3, Pauses DEF Remove
    <3>2. WholeInv' /\ FileInv' /\ DoomedInv'
      BY <1>0, <3>1 DEF KeptInv, WholeInv, FileInv, DoomedInv
    <3>3. HeldInv'
      BY <1>0, <2>1, <3>1 DEF KeptInv, HeldInv
    <3> QED
      BY <3>2, <3>3 DEF KeptInv
  <2> QED
    BY <2>2, <2>3
<1>3. ASSUME NEW p \in Photos, Wait(p) \/ WaitOver(p)
      PROVE  KeptInv'
  <2>1. NoWrite /\ UNCHANGED <<Copies, Gone>>
    BY <1>0, <1>3 DEF Wait, WaitOver, Copies, Gone
  <2> QED
    BY <1>0, <2>1, KeptFrame
<1> QED
  BY <1>1, <1>2, <1>3 DEF CrewStep

LEMMA DrainKept ==
  ASSUME TypeInv, OutInv, KeptInv, DrainStep \/ RequestStep
  PROVE  KeptInv'
<1>0. /\ DiskInv /\ ChargeableInv /\ RowlessInv /\ FilesInv /\ upload \in [Photos -> Progress]
      /\ UNCHANGED <<worker, Copies, Gone, gallery>>
      /\ \A p \in Photos : upload[p] \in {"landed", "ok"} => p \in gallery
  BY DEF TypeInv, UploadInv, OutInv, DrainStep, RequestStep, DrainFrame, KeptInv, HeldInv,
         Copies, Gone
<1>1. CASE Reconcile
  <2>0. upload' = upload
    BY <1>1 DEF Reconcile
  <2>1. CASE Unstuck(ReadQueue) # ReadQueue
    <3>1. PICK doomed : doomed = Orphans(Unstuck(ReadQueue))
      OBVIOUS
    <3>2. /\ Rewrites(Drainer, doomed) /\ SameRows(ReadQueue, Newest')
          /\ Newest' = Unstuck(ReadQueue) /\ files' = files
      BY <1>0, <1>1, <2>1, <3>1, ReconcileWrites DEF Reconcile
    <3>3. \A x \in Photos : \A f \in {"orig", "jpg"} : <<x, f>> \in doomed =>
            worker[x] = "none" /\ ~ (x \in DOMAIN Newest' /\ Newest'[x].at = f)
      BY <3>1, <3>2 DEF Orphans
    <3> QED
      BY <1>0, <2>0, <3>2, <3>3, KeptRewritten DEF SameRows, SameRow
  <2>2. CASE Unstuck(ReadQueue) = ReadQueue
    <3>1. PICK doomed : doomed = Orphans(ReadQueue)
      OBVIOUS
    <3>2. NoWrite /\ LockFree /\ DeleteFiles(doomed)
      BY <1>1, <2>2, <3>1 DEF Reconcile
    <3>3. /\ Views' = Views /\ Newest' = Newest /\ writing' = writing
          /\ Views = {ReadQueue} /\ writing.doomed = {}
      BY <3>2, Pauses, FreeViews
    <3>4. \A x \in Photos : \A f \in {"orig", "jpg"} :
            /\ files'[x][f] = files[x][f] \/ <<x, f>> \in doomed
            /\ <<x, f>> \in doomed =>
                 worker[x] = "none" /\ ~ (x \in DOMAIN ReadQueue /\ ReadQueue[x].at = f)
      BY <1>0, <3>1, <3>2, FilesDeleted DEF Orphans
    <3>5. WholeInv'
      <4>1. ASSUME NEW x \in DOMAIN ReadQueue
            PROVE  files'[x][ReadQueue[x].at] = "whole"
        <5>1. PICK f \in {"orig", "jpg"} : f = ReadQueue[x].at
          BY <1>0, <3>3, ViewsTyped
        <5>2. x \in Photos /\ files[x][f] = "whole"
          BY <1>0, <3>3, <5>1, ViewsTyped DEF KeptInv, WholeInv
        <5> QED
          BY <3>4, <5>1, <5>2
      <4> QED
        BY <3>3, <4>1 DEF WholeInv
    <3>6. HeldInv'
      BY <1>0, <2>0, <3>3 DEF KeptInv, HeldInv
    <3>7. FileInv'
      <4>1. ASSUME NEW x \in Photos
            PROVE  /\ worker[x] = "persist" => files'[x]["orig"] = "whole"
                   /\ worker[x] = "switch" => files'[x]["jpg"] = "whole"
        <5>1. /\ worker[x] = "persist" => files[x]["orig"] = "whole"
              /\ worker[x] = "switch" => files[x]["jpg"] = "whole"
          BY DEF KeptInv, FileInv
        <5> QED
          BY <3>4, <5>1
      <4> QED
        BY <1>0, <3>3, <4>1 DEF KeptInv, FileInv
    <3>8. DoomedInv'
      BY <3>3 DEF DoomedInv
    <3> QED
      BY <3>5, <3>6, <3>7, <3>8 DEF KeptInv
  <2> QED
    BY <2>1, <2>2
<1>2. CASE CommitSent
  <2>0. upload' = upload /\ files' = files
    BY <1>2 DEF CommitSent
  <2>1. CASE Outcome("ok") # {}
    <3>1. Sheds(Drainer, Outcome("ok"))
      BY <1>0, <1>2, <2>1, CommitWrites
    <3>2. \A x \in Outcome("ok") : x \in gallery
      BY <1>0 DEF Outcome
    <3> QED
      BY <1>0, <2>0, <3>1, <3>2, KeptShed
  <2>2. CASE Outcome("ok") = {}
    BY <1>0, <1>2, <2>0, <2>2, KeptFrame DEF CommitSent
  <2> QED
    BY <2>1, <2>2
<1>3. CASE RecordFailed
  <2>0. files' = files /\ \A p \in Photos : upload'[p] = "idle"
    BY <1>3 DEF RecordFailed
  <2>1. CASE Outcome("failed") \cap Queued # {}
    <3>1. /\ Rewrites(Drainer, {}) /\ DOMAIN Newest' = DOMAIN ReadQueue
          /\ \A p \in DOMAIN ReadQueue : Newest'[p].at = ReadQueue[p].at
      BY <1>0, <1>3, <2>1, RecordWrites
    <3> QED
      BY <1>0, <2>0, <3>1, KeptRewritten
  <2>2. CASE Outcome("failed") \cap Queued = {}
    BY <1>0, <1>3, <2>0, <2>2, KeptFrame DEF RecordFailed
  <2> QED
    BY <2>1, <2>2
<1>4. CASE StartDrain \/ RequestDrain \/ Plan \/ Select \/ Decide \/ Wind
  <2>1. NoWrite /\ files' = files /\ \A p \in Photos : upload'[p] \in {upload[p], "selected"}
    BY <1>0, <1>4 DEF StartDrain, RequestDrain, Plan, Select, Decide, Wind
  <2> QED
    BY <1>0, <2>1, KeptFrame
<1> QED
  BY <1>1, <1>2, <1>3, <1>4 DEF DrainStep, RequestStep

LEMMA UploadKept ==
  ASSUME TypeInv, KeptInv, NEW p \in Photos, UploadStep(p) \/ WireStep(p)
  PROVE  KeptInv'
<1>1. NoWrite /\ UNCHANGED <<files, worker, Copies, Gone>>
  BY DEF UploadStep, WireStep, UploadFrame, NoWrite, Copies, Gone
<1>2. upload \in [Photos -> Progress] /\ \A x \in Photos : upload[x] \in {"landed", "ok"} => x \in gallery
  BY DEF TypeInv, UploadInv, KeptInv, HeldInv
<1>3. /\ gallery \subseteq gallery'
      /\ \A x \in Photos : upload'[x] \in {"landed", "ok"} => x \in gallery'
  BY <1>2 DEF UploadStep, WireStep, Start, Put, UploadFails, Confirmed, Answered,
              Abandoned, StrayLands, Become
<1> QED
  BY <1>1, <1>3, KeptFrame

\* A persist turns a call that saw nothing back, which gives up no copy.
LEMMA PersistCopies ==
  ASSUME TypeInv, NEW p \in Photos, Persist(p)
  PROVE  Copies' = Copies
<1>1. draft' = draft /\ draft \subseteq Photos /\ call \in [Photos -> Calls]
  BY DEF Persist, TypeInv, WorkerInv
<1>2. \A x \in Photos : call'[x] = "seen" <=> call[x] = "seen"
  BY <1>1 DEF Persist
<1> QED
  BY <1>1, <1>2 DEF Copies

LEMMA PersistKept ==
  ASSUME TypeInv, OutInv, KeptInv, NEW p \in Photos, Persist(p), ~ Tombstoned(p),
         UNCHANGED <<Gone, gallery, upload>>
  PROVE  KeptInv'
<1>1. /\ worker[p] = "persist" /\ worker' = [worker EXCEPT ![p] = "compress"]
      /\ UNCHANGED <<files, Copies>>
  BY PersistCopies DEF Persist, At, Goto
<1>2. /\ Rewrites(p, {}) /\ DOMAIN Newest' = DOMAIN ReadQueue \cup {p}
      /\ \A x \in DOMAIN ReadQueue : Newest'[x] = ReadQueue[x]
      /\ p \notin DOMAIN ReadQueue => Newest'[p] = Original
  BY PersistWrites DEF TypeInv
<1>3. /\ Newest = ReadQueue /\ ReadQueue \in Views /\ Views' \subseteq {Newest', ReadQueue}
      /\ writing'.doomed = {}
  BY <1>2 DEF Rewrites
<1>4. /\ worker'[p] = "compress" /\ \A x \in Photos : x # p => worker'[x] = worker[x]
      /\ DOMAIN ReadQueue \subseteq Photos /\ p \notin DOMAIN ReadQueue
  BY <1>1, <1>3, ViewsTyped DEF TypeInv, WorkerInv, OutInv, RowlessInv, Rowless
<1>5. files[p]["orig"] = "whole" /\ Newest'[p].at = "orig"
  BY <1>1, <1>2, <1>4, OriginalRow, QueueAssumption DEF KeptInv, FileInv
<1>6. WholeInv'
  BY <1>1, <1>2, <1>3, <1>4, <1>5 DEF KeptInv, WholeInv
<1>7. HeldInv'
  <2>1. \A q \in Views' : Photos \subseteq Copies' \cup gallery' \cup Gone' \cup DOMAIN q
    BY <1>1, <1>2, <1>3 DEF KeptInv, HeldInv
  <2>2. ASSUME NEW x \in Photos
        PROVE  /\ worker'[x] \in Persisted => x \in gallery' \cup Gone' \cup DOMAIN Newest'
               /\ upload'[x] \in {"landed", "ok"} => x \in gallery'
    BY <1>2, <1>3, <1>4 DEF KeptInv, HeldInv
  <2> QED
    BY <2>1, <2>2 DEF HeldInv
<1>8. FileInv'
  <2>1. ASSUME NEW x \in Photos, NEW q \in Views', x \in DOMAIN q
        PROVE  /\ worker'[x] \in Compressing => q[x].at = "orig"
               /\ worker'[x] = "tidy" => q[x].at = "jpg"
    <3>1. CASE x = p
      BY <1>3, <1>4, <1>5, <2>1, <3>1
    <3>2. CASE x # p
      <4>1. x \in DOMAIN ReadQueue /\ q[x] = ReadQueue[x] /\ worker'[x] = worker[x]
        BY <1>2, <1>3, <1>4, <2>1, <3>2
      <4> QED
        BY <1>3, <4>1 DEF KeptInv, FileInv
    <3> QED
      BY <3>1, <3>2
  <2>2. \A x \in Photos : /\ worker'[x] = "persist" => files'[x].orig = "whole"
                          /\ worker'[x] = "switch" => files'[x].jpg = "whole"
    BY <1>1, <1>4 DEF KeptInv, FileInv
  <2> QED
    BY <2>1, <2>2 DEF FileInv
<1>9. DoomedInv'
  BY <1>3 DEF DoomedInv
<1> QED
  BY <1>6, <1>7, <1>8, <1>9 DEF KeptInv

LEMMA SwitchKept ==
  ASSUME TypeInv, OutInv, KeptInv, NEW p \in Photos, Switch(p), StillWanted(p),
         UNCHANGED <<Gone, gallery, upload>>
  PROVE  KeptInv'
<1>1. /\ worker[p] = "switch" /\ worker' = [worker EXCEPT ![p] = "tidy"]
      /\ UNCHANGED <<files, Copies>>
  BY DEF Switch, At, Goto, Copies
<1>2. /\ Rewrites(p, {}) /\ p \in DOMAIN ReadQueue /\ DOMAIN Newest' = DOMAIN ReadQueue
      /\ Newest'[p].at = "jpg"
      /\ \A x \in DOMAIN ReadQueue : x # p => Newest'[x] = ReadQueue[x]
  BY SwitchWrites DEF TypeInv
<1>3. /\ Newest = ReadQueue /\ ReadQueue \in Views /\ Views' \subseteq {Newest', ReadQueue}
      /\ writing'.doomed = {} /\ writing'.owner = p
  BY <1>2 DEF Rewrites
<1>4. /\ worker'[p] = "tidy" /\ \A x \in Photos : x # p => worker'[x] = worker[x]
      /\ DOMAIN ReadQueue \subseteq Photos
  BY <1>1, <1>3, ViewsTyped DEF TypeInv, WorkerInv
<1>5. files[p]["jpg"] = "whole"
  BY <1>1 DEF KeptInv, FileInv
<1>6. WholeInv'
  <2>1. ASSUME NEW x \in DOMAIN ReadQueue
        PROVE  files[x][ReadQueue[x].at] = "whole" /\ files[x][Newest'[x].at] = "whole"
    BY <1>2, <1>3, <1>5 DEF KeptInv, WholeInv
  <2> QED
    BY <1>1, <1>2, <1>3, <2>1 DEF WholeInv
<1>7. HeldInv'
  <2>1. \A q \in Views' : Photos \subseteq Copies' \cup gallery' \cup Gone' \cup DOMAIN q
    BY <1>1, <1>2, <1>3 DEF KeptInv, HeldInv
  <2>2. ASSUME NEW x \in Photos
        PROVE  /\ worker'[x] \in Persisted => x \in gallery' \cup Gone' \cup DOMAIN Newest'
               /\ upload'[x] \in {"landed", "ok"} => x \in gallery'
    BY <1>2, <1>3, <1>4 DEF KeptInv, HeldInv
  <2> QED
    BY <2>1, <2>2 DEF HeldInv
<1>8. FileInv'
  <2>1. ASSUME NEW x \in Photos, NEW q \in Views', x \in DOMAIN q
        PROVE  /\ worker'[x] \in Compressing => q[x].at = "orig"
               /\ worker'[x] = "tidy" /\ (q = Newest' \/ writing'.owner # x) => q[x].at = "jpg"
    <3>1. CASE x = p
      BY <1>2, <1>3, <1>4, <2>1, <3>1 DEF Compressing
    <3>2. CASE x # p
      <4>1. x \in DOMAIN ReadQueue /\ q[x] = ReadQueue[x] /\ worker'[x] = worker[x]
        BY <1>2, <1>3, <1>4, <2>1, <3>2
      <4> QED
        BY <1>3, <4>1 DEF KeptInv, FileInv
    <3> QED
      BY <3>1, <3>2
  <2>2. \A x \in Photos : /\ worker'[x] = "persist" => files'[x].orig = "whole"
                          /\ worker'[x] = "switch" => files'[x].jpg = "whole"
    BY <1>1, <1>4 DEF KeptInv, FileInv
  <2> QED
    BY <2>1, <2>2 DEF FileInv
<1>9. DoomedInv'
  BY <1>3 DEF DoomedInv
<1> QED
  BY <1>6, <1>7, <1>8, <1>9 DEF KeptInv

LEMMA EnqueueKept ==
  ASSUME TypeInv, OutInv, KeptInv, NEW p \in Photos, EnqueueStep(p)
  PROVE  KeptInv'
<1>0. /\ UNCHANGED <<Gone, gallery, upload>> /\ worker \in [Photos -> Steps]
      /\ call \in [Photos -> Calls] /\ Copies \subseteq Photos /\ draft \subseteq Photos
      /\ call[p] = "behind" => worker[p] \in Persisted
      /\ DiskInv /\ FilesInv /\ {"part", "whole", "none"} \subseteq FileStates
      /\ \A q \in Views : \A x \in DOMAIN q : q[x].at \in {"orig", "jpg"}
      /\ Newest \in Views
  BY ViewsTyped DEF EnqueueStep, TypeInv, WorkerInv, FileStates, Gone, Copies
<1>a. CASE Call(p)
  <2>1. NoWrite /\ UNCHANGED <<files, worker>>
    BY <1>a DEF Call
  <2>2. Copies' = Copies
    BY <1>0, <1>a DEF Call, Turn, Copies
  <2>3. \A x \in Photos : upload[x] \in {"landed", "ok"} => x \in gallery
    BY DEF KeptInv, HeldInv
  <2> QED
    BY <1>0, <2>1, <2>2, <2>3, KeptFrame
<1>b. CASE Snapshot(p)
  <2>1. LockFree /\ NoWrite /\ UNCHANGED <<files, worker>>
    BY <1>b DEF Snapshot
  <2>2. /\ Views' = Views /\ Newest' = Newest /\ writing' = writing /\ Views = {ReadQueue}
    BY <2>1, Pauses, FreeViews
  <2>3. Copies \subseteq Copies' \cup DOMAIN ReadQueue
    BY <1>0, <1>b DEF Snapshot, Turn, Copies, Queued
  <2>4. WholeInv' /\ FileInv' /\ DoomedInv'
    BY <2>1, <2>2 DEF KeptInv, WholeInv, FileInv, DoomedInv
  <2>5. HeldInv'
    BY <1>0, <2>1, <2>2, <2>3 DEF KeptInv, HeldInv
  <2> QED
    BY <2>4, <2>5 DEF KeptInv
<1>1. CASE Claim(p)
  <2>1. LockFree /\ NoWrite /\ call[p] \in {"seen", "unseen", "behind"}
    BY <1>1 DEF Claim
  <2>2. /\ Views' = Views /\ Newest' = Newest /\ writing' = writing
        /\ Views = {ReadQueue} /\ Newest = ReadQueue /\ writing.doomed = {}
    BY <2>1, Pauses, FreeViews
  <2>3. CASE AnswerSkip(p) /\ draft' = draft \ {p} /\ Turn(p, "none") /\ UNCHANGED <<worker, files>>
    <3>1. Copies' = Copies
      BY <1>0, <2>3 DEF AnswerSkip, Turn, Copies
    <3>2. \A x \in Photos : upload[x] \in {"landed", "ok"} => x \in gallery
      BY DEF KeptInv, HeldInv
    <3> QED
      BY <1>0, <2>1, <2>3, <3>1, <3>2, KeptFrame
  <2>4. CASE ~ AnswerSkip(p) /\ Turn(p, "waiting") /\ UNCHANGED <<draft, worker, files>>
    <3>1. Copies' = Copies
      BY <1>0, <2>4 DEF AnswerSkip, Turn, Copies
    <3>2. \A x \in Photos : upload[x] \in {"landed", "ok"} => x \in gallery
      BY DEF KeptInv, HeldInv
    <3> QED
      BY <1>0, <2>1, <2>4, <3>1, <3>2, KeptFrame
  <2>5. CASE /\ ~ AnswerSkip(p) /\ worker[p] = "none" /\ worker' = [worker EXCEPT ![p] = "copy"]
             /\ files' = [files EXCEPT ![p].orig = "part"] /\ Turn(p, "none") /\ draft' = draft
    <3>1. \A x \in Photos : x # p => files'[x] = files[x]
      BY <1>0, <2>5, FileWritten
    <3>2. call[p] = "unseen"
      BY <1>0, <2>1, <2>5 DEF AnswerSkip, Persisted
    <3>3. \A q \in Views : p \notin DOMAIN q
      BY <3>2 DEF OutInv, RowlessInv
    <3>4. Copies' = Copies
      BY <1>0, <2>5, <3>2 DEF Turn, Copies
    <3> QED
      BY <1>0, <2>1, <2>2, <2>5, <3>1, <3>3, <3>4, KeptMoves DEF Persisted, Compressing
  <2> QED
    BY <1>1, <2>3, <2>4, <2>5 DEF Claim, Goto
<1>2. CASE Copied(p)
  <2>1. worker[p] = "copy" /\ NoWrite /\ Copies' = Copies
    BY <1>2 DEF Copied, At, Copies
  <2>2. \A q \in Views : p \notin DOMAIN q
    BY <2>1 DEF OutInv, RowlessInv, Rowless
  <2>3. \A f \in {"orig", "jpg"} : <<p, f>> \notin writing.doomed
    BY <2>1 DEF KeptInv, DoomedInv
  <2>4. \A f : <<p, f>> \in writing.doomed => f \in {"orig", "jpg"}
    BY <1>0 DEF DiskInv, Writing, FileNames
  <2>5. CASE worker' = [worker EXCEPT ![p] = "persist"] /\ files' = [files EXCEPT ![p].orig = "whole"]
    <3>1. files'[p].orig = "whole" /\ \A x \in Photos : x # p => files'[x] = files[x]
      BY <1>0, <2>5, FileWritten
    <3> QED
      BY <1>0, <2>1, <2>2, <2>3, <2>4, <2>5, <3>1, KeptMoves DEF Persisted, Compressing
  <2>6. CASE worker' = [worker EXCEPT ![p] = "failed"] /\ files' = files
    BY <1>0, <2>1, <2>2, <2>6, KeptMoves DEF Persisted, Compressing
  <2> QED
    BY <1>2, <2>5, <2>6 DEF Copied, Goto
<1>3. CASE Persist(p)
  <2>1. CASE Tombstoned(p)
    <3>1. /\ NoWrite /\ worker' = [worker EXCEPT ![p] = "dropped"] /\ UNCHANGED <<files, Copies>>
          /\ worker[p] = "persist"
      BY <1>3, <2>1, PersistCopies DEF Persist, Goto, At
    <3>2. p \in Gone
      BY <2>1 DEF Tombstoned, OutInv, RemovedInv
    <3>3. \A q \in Views : p \in DOMAIN q => files'[p][q[p].at] = "whole"
      BY <3>1 DEF KeptInv, WholeInv
    <3>4. PICK s \in {"dropped"} : worker' = [worker EXCEPT ![p] = s]
      BY <3>1
    <3> QED
      BY <1>0, <3>1, <3>2, <3>3, <3>4, KeptRests
  <2>2. CASE ~ Tombstoned(p)
    BY <1>0, <1>3, <2>2, PersistKept
  <2> QED
    BY <2>1, <2>2
<1>4. CASE DropCopy(p)
  <2>1. /\ worker[p] = "dropped" /\ NoWrite /\ Copies' = Copies /\ worker' = [worker EXCEPT ![p] = "done"]
        /\ DeleteFiles({<<p, "orig">>})
    BY <1>4 DEF DropCopy, At, Goto, Copies
  <2>2. \A q \in Views : p \notin DOMAIN q
    BY <2>1 DEF OutInv, RowlessInv, Rowless
  <2>3. \A x \in Photos : x # p => files'[x] = files[x]
    BY <2>1 DEF DeleteFiles, TypeInv, FilesInv
  <2>4. p \in gallery \cup Gone \cup DOMAIN Newest
    BY <2>1 DEF KeptInv, HeldInv, Persisted
  <2> QED
    BY <1>0, <2>1, <2>2, <2>3, <2>4, KeptMoves DEF Compressing
<1>5. CASE Compress(p)
  <2>1. worker[p] = "compress" /\ NoWrite /\ Copies' = Copies
    BY <1>5 DEF Compress, At, Copies
  <2>2. /\ p \in gallery \cup Gone \cup DOMAIN Newest
        /\ \A q \in Views : p \in DOMAIN q => q[p].at = "orig" /\ files[p]["orig"] = "whole"
    BY <2>1 DEF KeptInv, HeldInv, FileInv, WholeInv, Persisted, Compressing
  <2>3. PICK s \in {"stage", "unstage"} :
          /\ worker' = [worker EXCEPT ![p] = s]
          /\ files' = [files EXCEPT ![p].jpg = "part"] \/ files' = files
    BY <1>5 DEF Compress, Goto
  <2>4. files'[p]["orig"] = files[p]["orig"] /\ \A x \in Photos : x # p => files'[x] = files[x]
    BY <1>0, <2>3, FileWritten
  <2>5. \A f : <<p, f>> \in writing.doomed =>
          s \notin {"copy", "persist"} /\ (f = "jpg" => s \notin Compressing)
    BY <2>1, <2>3 DEF KeptInv, DoomedInv, Compressing
  <2> QED
    BY <1>0, <2>1, <2>2, <2>3, <2>4, <2>5, KeptMoves
<1>6. CASE Staged(p)
  <2>1. worker[p] = "stage" /\ NoWrite /\ Copies' = Copies
    BY <1>6 DEF Staged, At, Copies
  <2>2. /\ p \in gallery \cup Gone \cup DOMAIN Newest
        /\ \A q \in Views : p \in DOMAIN q => q[p].at = "orig" /\ files[p]["orig"] = "whole"
    BY <2>1 DEF KeptInv, HeldInv, FileInv, WholeInv, Persisted, Compressing
  <2>3. CASE worker' = [worker EXCEPT ![p] = "switch"] /\ files' = [files EXCEPT ![p].jpg = "whole"]
    <3>1. /\ files'[p]["orig"] = files[p]["orig"] /\ files'[p].jpg = "whole"
          /\ \A x \in Photos : x # p => files'[x] = files[x]
      BY <1>0, <2>3, FileWritten
    <3>2. \A f : <<p, f>> \in writing.doomed => f # "jpg"
      BY <2>1 DEF KeptInv, DoomedInv, Compressing
    <3> QED
      BY <1>0, <2>1, <2>2, <2>3, <3>1, <3>2, KeptMoves
  <2>4. CASE worker' = [worker EXCEPT ![p] = "unstage"] /\ DeleteFiles({<<p, "jpg">>})
    <3>1. files'[p]["orig"] = files[p]["orig"]
      BY <1>0, <2>4, FileDropped
    <3>2. \A x \in Photos : x # p => files'[x] = files[x]
      BY <1>0, <2>4, FileDropped
    <3>3. \A f : <<p, f>> \in writing.doomed => f # "jpg"
      BY <2>1 DEF KeptInv, DoomedInv, Compressing
    <3> QED
      BY <1>0, <2>1, <2>2, <2>4, <3>1, <3>2, <3>3, KeptMoves
  <2> QED
    BY <1>6, <2>3, <2>4 DEF Staged, Goto
<1>7. CASE Switch(p)
  <2>1. CASE StillWanted(p)
    BY <1>0, <1>7, <2>1, SwitchKept
  <2>2. CASE ~ StillWanted(p)
    <3>1. /\ NoWrite /\ worker' = [worker EXCEPT ![p] = "discard"] /\ UNCHANGED <<files, Copies>>
          /\ worker[p] = "switch"
      BY <1>7, <2>2 DEF Switch, Goto, At, Copies
    <3>2. /\ p \in gallery \cup Gone \cup DOMAIN Newest
          /\ \A q \in Views : p \in DOMAIN q => files[p][q[p].at] = "whole"
      BY <3>1 DEF KeptInv, HeldInv, WholeInv, Persisted
    <3>3. PICK s \in {"discard"} : worker' = [worker EXCEPT ![p] = s]
      BY <3>1
    <3> QED
      BY <1>0, <3>1, <3>2, <3>3, KeptRests
  <2> QED
    BY <2>1, <2>2
<1>8. CASE Tidy(p)
  <2>1. /\ NoWrite /\ Copies' = Copies /\ worker' = [worker EXCEPT ![p] = "done"]
        /\ worker[p] \in {"tidy", "discard"} /\ writing.owner # p
    BY <1>8 DEF Tidy, At, Goto, Awaits, Copies
  <2>2. p \in gallery \cup Gone \cup DOMAIN Newest
    BY <2>1 DEF KeptInv, HeldInv, Persisted
  <2>3. \A x \in Photos : x # p => files'[x] = files[x]
    BY <1>8 DEF Tidy, DeleteFiles, TypeInv, FilesInv
  <2>4. ASSUME NEW q \in Views, p \in DOMAIN q
        PROVE  files'[p][q[p].at] = "whole"
    <3>1. worker[p] = "tidy"
      BY <2>1, <2>4 DEF OutInv, RowlessInv, Rowless
    <3>2. q[p].at = "jpg" /\ files[p]["jpg"] = "whole"
      BY <2>1, <2>4, <3>1 DEF KeptInv, FileInv, WholeInv
    <3>3. DeleteFiles({<<p, "orig">>})
      BY <1>8, <3>1 DEF Tidy, At
    <3> QED
      BY <1>0, <3>2, <3>3, FileDropped
  <2>5. PICK s \in {"done"} : worker' = [worker EXCEPT ![p] = s]
    BY <2>1
  <2> QED
    BY <1>0, <2>1, <2>2, <2>3, <2>4, <2>5, KeptRests
<1>9. CASE Unstage(p)
  <2>1. /\ worker[p] = "unstage" /\ worker' = [worker EXCEPT ![p] = "done"]
        /\ UNCHANGED <<files, Copies>>
    BY <1>9 DEF Unstage, Goto, At, Copies
  <2>2. CASE StillWanted(p)
    <3>1. Rewrites(p, {}) /\ SameRows(ReadQueue, Newest')
      BY <1>0, <1>9, <2>2, UnstageWrites
    <3>2. \A x \in Photos : worker'[x] = worker[x] \/ (worker[x] \in Persisted /\ worker'[x] = "done")
      BY <1>0, <2>1 DEF Persisted
    <3> QED
      BY <1>0, <2>1, <3>1, <3>2, KeptRewritten DEF SameRows, SameRow
  <2>3. CASE ~ StillWanted(p)
    <3>1. NoWrite
      BY <1>9, <2>3 DEF Unstage
    <3>2. /\ p \in gallery \cup Gone \cup DOMAIN Newest
          /\ \A q \in Views : p \in DOMAIN q => files[p][q[p].at] = "whole"
      BY <2>1 DEF KeptInv, HeldInv, WholeInv, Persisted
    <3>3. PICK s \in {"done"} : worker' = [worker EXCEPT ![p] = s]
      BY <2>1
    <3> QED
      BY <1>0, <2>1, <3>1, <3>2, <3>3, KeptRests
  <2> QED
    BY <2>2, <2>3
<1>10. CASE Release(p)
  <2>1. /\ NoWrite /\ LockFree /\ files' = files /\ worker' = [worker EXCEPT ![p] = "none"]
        /\ Copies \subseteq Copies' \cup {p}
        /\ worker[p] = "done" \/ p \in Copies' \/ p \notin Copies
    BY <1>0, <1>10 DEF Release, MyTurn, Goto, Copies
  <2>2. Views = {Newest}
    BY <2>1, FreeViews
  <2>3. /\ worker[p] = "done" => \A q \in Views : p \in gallery \cup Gone \cup DOMAIN q
        /\ \A q \in Views : p \in DOMAIN q => files[p][q[p].at] = "whole"
    BY <2>2 DEF KeptInv, HeldInv, WholeInv, Persisted
  <2>4. PICK s \in {"none"} : worker' = [worker EXCEPT ![p] = s]
    BY <2>1
  <2>5. s \notin Persisted
    BY DEF Persisted
  <2>6. \/ p \in Copies' \/ p \notin Copies
        \/ \A q \in Views : p \in gallery \cup Gone \cup DOMAIN q
    BY <2>1, <2>3
  <2> QED
    BY <1>0, <2>1, <2>3, <2>4, <2>5, <2>6, KeptRests
<1> QED
  BY <1>a, <1>b, <1>1, <1>2, <1>3, <1>4, <1>5, <1>6, <1>7, <1>8, <1>9, <1>10 DEF EnqueueStep

LEMMA KeptStep ==
  ASSUME TypeInv, OutInv, KeptSafe, [Next]_vars
  PROVE  KeptSafe'
<1>1. CASE Kill
  BY <1>1, KillKept
<1>2. ASSUME rolledBack' = rolledBack, KeptInv => KeptInv'
      PROVE  KeptSafe'
  BY <1>2 DEF KeptSafe
<1>3. CASE WriteStep
  BY <1>2, <1>3, WriteKept DEF WriteStep
<1>4. CASE CrewStep
  BY <1>2, <1>4, CrewKept DEF CrewStep
<1>5. CASE DrainStep \/ RequestStep
  BY <1>2, <1>5, DrainKept DEF DrainStep, RequestStep, DrainFrame
<1>6. ASSUME NEW p \in Photos, UploadStep(p) \/ WireStep(p)
      PROVE  KeptSafe'
  BY <1>2, <1>6, UploadKept DEF UploadStep, WireStep, UploadFrame
<1>7. ASSUME NEW p \in Photos, EnqueueStep(p)
      PROVE  KeptSafe'
  BY <1>2, <1>7, EnqueueKept DEF EnqueueStep
<1>8. CASE UNCHANGED vars
  <2>1. /\ NoWrite /\ UNCHANGED <<files, worker, Copies, Gone, upload, gallery, rolledBack>>
    BY <1>8 DEF vars, memory, NoWrite, Copies, Gone
  <2>2. KeptInv => KeptInv'
    BY <2>1, KeptFrame DEF KeptInv, HeldInv
  <2> QED
    BY <1>2, <2>1, <2>2
<1> QED
  BY <1>1, <1>3, <1>4, <1>5, <1>6, <1>7, <1>8 DEF Next

\* A captured photo is never lost, in the state a relaunch would find after a kill
\* at any point: the caller keeps its copy until the row is in the index, or until
\* a call that saw it there answers; a row names a file only once it is whole, a
\* file goes only when no index a relaunch could read names it, and a row goes only
\* when the server has the photo or the crew took it out.  Only a photo taken out
\* while a call for it had its answer to come counts as overtaken.
THEOREM CapturesAreKept == Spec => []CaptureKept
<1>1. Init => KeptSafe
  <2>1. ASSUME Init
        PROVE  KeptInv
    <3>1. LockFree /\ tmp = {} /\ index = {} /\ bak = {}
      BY <2>1 DEF Init, LockFree
    <3>2. ReadQueue = << >> /\ Views = {ReadQueue} /\ writing.doomed = {}
      BY <3>1, ReadCopy, FreeViews
    <3>3. \A q \in Views : DOMAIN q = {}
      BY <3>2, EmptyQueue
    <3>4. Copies = Photos /\ \A p \in Photos : worker[p] = "none" /\ upload[p] = "idle"
      BY <2>1 DEF Init, Copies
    <3> QED
      BY <3>2, <3>3, <3>4
         DEF KeptInv, WholeInv, HeldInv, FileInv, DoomedInv, Persisted, Compressing
  <2> QED
    BY <2>1 DEF KeptSafe
<1>2. Spec => []KeptSafe
  BY <1>1, KeptStep, TypeAlways, OutAlways, PTL DEF Spec
<1>3. ASSUME TypeInv, KeptSafe
      PROVE  CaptureKept
  <2>1. SUFFICES ASSUME ~ Exposed, NEW p \in Photos
                 PROVE  p \in draft \cup gallery \cup removed \cup overtaken \/ Durable(p)
    BY DEF CaptureKept
  <2>2. KeptInv /\ ReadQueue \in Views
    BY <1>3, <2>1 DEF KeptSafe, Exposed, Views, Standing, Newest
  <2>3. p \in Queued => Durable(p)
    BY <2>2 DEF KeptInv, WholeInv, Durable, Queued
  <2>4. p \in draft \cup gallery \cup removed \cup overtaken \cup Queued
    BY <2>2 DEF KeptInv, HeldInv, Queued, Copies, Gone
  <2> QED
    BY <2>3, <2>4
<1> QED
  BY <1>2, <1>3, TypeAlways, PTL

=============================================================================
