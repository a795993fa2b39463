------------------------ MODULE GlassesForwardProofs ------------------------
(***************************************************************************)
(* Theorems about GlassesForward, for every set of clips and every bound.  *)
(***************************************************************************)
EXTENDS GlassesForward, TLAPS

-----------------------------------------------------------------------------
(* The invariants *)

N == Len(rows)
Last == rows[N]

\* A row that waits has an attempt left, counting those a fault or a repair
\* gave back.
AttemptsLeft ==
  \A i \in Rows :
    /\ rows[i].attempts <= MaxAttempts + faults + repairs
    /\ rows[i].status = "pending" => rows[i].attempts < MaxAttempts + faults + repairs

\* The rows are a chain: every one but the last is dead and replaced.
Chain ==
  \A i \in Rows :
    /\ i < N => rows[i].status = "dead" /\ rows[i].superseded
    /\ i = N => ~ rows[i].superseded

\* A claim is of a row there is, and has one handler.
OneHandler ==
  /\ \A h \in handlers : h.row \in Rows /\ h.att <= rows[h.row].attempts
  /\ \A g, h \in handlers : g.row = h.row /\ g.att = h.att => g = h

\* A completion took a row there is for live, or none.
CallsOnRows == \A call \in calls : call.row # 0 => call.row \in Rows

TypeInv == TypeOK /\ AttemptsLeft /\ Chain /\ OneHandler /\ CallsOnRows

\* The handler of the claim that holds the last row.
Current(h) == h.row = N /\ Last.status = "processing" /\ h.att = Last.attempts

Creating == \E h \in handlers : h.phase = "creating"

\* What a handler believes of the create while its claim holds: it knows what
\* the row knows, and one that was refused is alone.
KnowsRow(h) ==
  /\ h.phase = "start" => h.known = Last.known /\ h.marked = Last.marked
  /\ h.phase = "refused" => creates = 0 /\ ~ Creating

\* Whatever may have created the walkthrough has left a marker or the id on the
\* last row, and a create that is under way is the only one.
CreateInv ==
  /\ creates <= 1
  /\ \A h \in handlers : h.phase = "creating" =>
       creates = 0 /\ \A g \in handlers : g.phase = "creating" => g = h
  /\ creates > 0 \/ Creating => N > 0 /\ (Last.known \/ Last.marked)
  /\ \A h \in handlers : Current(h) => KnowsRow(h)

CreateClean == slips \cap {"crossed", "outOfDate"} = {}

\* What a handler has done about the last row while its claim holds.
WorksRow(h) ==
  /\ h.phase \notin {"thrown", "buried"} => h.todo = Last.artifacts
  /\ h.phase \in {"uploaded", "finished"} => h.todo \subseteq delivered
  /\ h.phase = "finished" => Last.extra = {}

\* Every clip the phone was told is filed is on the last row or delivered; when
\* that row is completed they are delivered, and so is its own list.
ClipInv ==
  /\ N = 0 => acked = {}
  /\ N > 0 => /\ acked \subseteq delivered \cup Last.artifacts \cup Last.extra
              /\ Last.status = "completed" => acked \cup Last.artifacts \subseteq delivered
  /\ \A h \in handlers : Current(h) => WorksRow(h)

ClipClean == slips \cap {"crossed", "outOfDate", "missed"} = {}

CreateSafe == CreateClean => CreateInv
ClipSafe == ClipClean => ClipInv

-----------------------------------------------------------------------------
(* Sequences and rows *)

LEMMA SeqChange ==
  ASSUME NEW S, NEW s \in Seq(S), NEW i \in 1 .. Len(s), NEW x \in S
  PROVE  /\ [s EXCEPT ![i] = x] \in Seq(S)
         /\ Len([s EXCEPT ![i] = x]) = Len(s)
         /\ [s EXCEPT ![i] = x][i] = x
         /\ \A k \in 1 .. Len(s) : k # i => [s EXCEPT ![i] = x][k] = s[k]
OBVIOUS

LEMMA SeqMake ==
  ASSUME NEW S, NEW n \in Nat, NEW f, f = [i \in 1 .. n |-> f[i]], \A i \in 1 .. n : f[i] \in S
  PROVE  f \in Seq(S) /\ Len(f) = n
<1>1. f \in [1 .. n -> S]
  OBVIOUS
<1> QED
  BY <1>1

LEMMA SeqAdd ==
  ASSUME NEW S, NEW s \in Seq(S), NEW x \in S
  PROVE  /\ Append(s, x) \in Seq(S)
         /\ Len(Append(s, x)) = Len(s) + 1
         /\ Append(s, x)[Len(s) + 1] = x
         /\ \A k \in 1 .. Len(s) : Append(s, x)[k] = s[k]
OBVIOUS

\* The edits of a row.
Claimed(r, a) == [r EXCEPT !.status = "processing", !.attempts = a]
WithStatus(r, s) == [r EXCEPT !.status = s]
WithMarker(r, b) == [r EXCEPT !.marked = b]
Learned(r) == [r EXCEPT !.known = TRUE, !.marked = FALSE]
WithList(r, A) == [r EXCEPT !.artifacts = A]
FoldedRow(r, A) == [r EXCEPT !.artifacts = A, !.extra = {}, !.closed = TRUE]
Closed(r, A) == [r EXCEPT !.artifacts = A, !.status = "dead"]
WithExtra(r, E) == [r EXCEPT !.extra = E]
Replaced(r) == [r EXCEPT !.superseded = TRUE]
Announced(r) == [r EXCEPT !.alerted = TRUE]
Repaired(r, k) == [r EXCEPT !.status = "pending", !.known = k, !.marked = k]

\* What the edits leave alone.
SameLists(r, s) == s.artifacts = r.artifacts /\ s.extra = r.extra
SameCreate(r, s) == s.known = r.known /\ s.marked = r.marked
SameClaim(r, s) == s.status = r.status /\ s.attempts = r.attempts
SameNotes(r, s) == s.alerted = r.alerted /\ s.superseded = r.superseded

LEMMA ClaimedRow ==
  ASSUME NEW r \in Row, NEW a \in Attempts
  PROVE  /\ Claimed(r, a) \in Row
         /\ Claimed(r, a).status = "processing" /\ Claimed(r, a).attempts = a
         /\ SameLists(r, Claimed(r, a)) /\ SameCreate(r, Claimed(r, a))
         /\ SameNotes(r, Claimed(r, a))
BY DEF Claimed, Row, SameLists, SameCreate, SameNotes

LEMMA StatusRow ==
  ASSUME NEW r \in Row, NEW s \in {"pending", "processing", "completed", "dead"}
  PROVE  /\ WithStatus(r, s) \in Row
         /\ WithStatus(r, s).status = s /\ WithStatus(r, s).attempts = r.attempts
         /\ SameLists(r, WithStatus(r, s)) /\ SameCreate(r, WithStatus(r, s))
         /\ SameNotes(r, WithStatus(r, s))
BY DEF WithStatus, Row, SameLists, SameCreate, SameNotes

LEMMA MarkerRow ==
  ASSUME NEW r \in Row, NEW b \in BOOLEAN
  PROVE  /\ WithMarker(r, b) \in Row
         /\ WithMarker(r, b).marked = b /\ WithMarker(r, b).known = r.known
         /\ SameLists(r, WithMarker(r, b)) /\ SameClaim(r, WithMarker(r, b))
         /\ SameNotes(r, WithMarker(r, b))
BY DEF WithMarker, Row, SameLists, SameClaim, SameNotes

LEMMA LearnedRow ==
  ASSUME NEW r \in Row
  PROVE  /\ Learned(r) \in Row
         /\ Learned(r).known = TRUE
         /\ SameLists(r, Learned(r)) /\ SameClaim(r, Learned(r)) /\ SameNotes(r, Learned(r))
BY DEF Learned, Row, SameLists, SameClaim, SameNotes

LEMMA ListRow ==
  ASSUME NEW r \in Row, NEW A, A \subseteq Clips
  PROVE  /\ WithList(r, A) \in Row
         /\ WithList(r, A).artifacts = A /\ WithList(r, A).extra = r.extra
         /\ SameCreate(r, WithList(r, A)) /\ SameClaim(r, WithList(r, A))
         /\ SameNotes(r, WithList(r, A))
BY DEF WithList, Row, SameCreate, SameClaim, SameNotes

LEMMA FoldedRowIs ==
  ASSUME NEW r \in Row, NEW A, A \subseteq Clips
  PROVE  /\ FoldedRow(r, A) \in Row
         /\ FoldedRow(r, A).artifacts = A /\ FoldedRow(r, A).extra = {}
         /\ SameCreate(r, FoldedRow(r, A)) /\ SameClaim(r, FoldedRow(r, A))
         /\ SameNotes(r, FoldedRow(r, A))
BY DEF FoldedRow, Row, SameCreate, SameClaim, SameNotes

LEMMA ClosedRow ==
  ASSUME NEW r \in Row, NEW A, A \subseteq Clips
  PROVE  /\ Closed(r, A) \in Row
         /\ Closed(r, A).status = "dead" /\ Closed(r, A).attempts = r.attempts
         /\ Closed(r, A).artifacts = A /\ Closed(r, A).extra = r.extra
         /\ SameCreate(r, Closed(r, A)) /\ SameNotes(r, Closed(r, A))
BY DEF Closed, Row, SameCreate, SameNotes

LEMMA ExtraRow ==
  ASSUME NEW r \in Row, NEW E, E \subseteq Clips
  PROVE  /\ WithExtra(r, E) \in Row
         /\ WithExtra(r, E).extra = E /\ WithExtra(r, E).artifacts = r.artifacts
         /\ SameCreate(r, WithExtra(r, E)) /\ SameClaim(r, WithExtra(r, E))
         /\ SameNotes(r, WithExtra(r, E))
BY DEF WithExtra, Row, SameCreate, SameClaim, SameNotes

LEMMA ReplacedRow ==
  ASSUME NEW r \in Row
  PROVE  /\ Replaced(r) \in Row /\ Replaced(r).superseded
         /\ SameClaim(r, Replaced(r))
BY DEF Replaced, Row, SameClaim

LEMMA AnnouncedRow ==
  ASSUME NEW r \in Row
  PROVE  /\ Announced(r) \in Row /\ Announced(r).superseded = r.superseded
         /\ SameLists(r, Announced(r)) /\ SameCreate(r, Announced(r))
         /\ SameClaim(r, Announced(r))
BY DEF Announced, Row, SameLists, SameCreate, SameClaim

LEMMA RepairedRow ==
  ASSUME NEW r \in Row, NEW k \in BOOLEAN
  PROVE  /\ Repaired(r, k) \in Row
         /\ Repaired(r, k).status = "pending" /\ Repaired(r, k).attempts = r.attempts
         /\ Repaired(r, k).known = k /\ Repaired(r, k).marked = k
         /\ SameLists(r, Repaired(r, k)) /\ SameNotes(r, Repaired(r, k))
BY DEF Repaired, Row, SameLists, SameNotes

-----------------------------------------------------------------------------
(* The last row *)

\* A step that changes the last row alone.
LastBecomes(row) ==
  /\ row \in Row
  /\ rows' \in Seq(Row)
  /\ Len(rows') = N
  /\ rows'[N] = row
  /\ \A i \in Rows : i # N => rows'[i] = rows[i]

LEMMA RowsTyped ==
  ASSUME TypeInv
  PROVE  /\ rows \in Seq(Row) /\ N \in Nat /\ N <= MaxRows /\ Rows = 1 .. N
         /\ \A i \in Rows : rows[i] \in Row
         /\ N > 0 => N \in Rows /\ Last \in Row
BY DEF TypeInv, TypeOK, N, Rows, Last

\* A row that is live, or that nothing has replaced, is the last.
LEMMA ActiveIsLast ==
  ASSUME TypeInv, NEW i \in Rows, rows[i].status # "dead" \/ ~ rows[i].superseded
  PROVE  i = N /\ N > 0 /\ N \in Rows /\ Last \in Row /\ rows[i] = Last
<1>1. i \in Nat /\ i > 0 /\ i <= N /\ N \in Nat
  BY RowsTyped
<1>2. ~ (i < N)
  BY DEF TypeInv, Chain
<1>3. i = N
  BY <1>1, <1>2
<1> QED
  BY <1>1, <1>3, RowsTyped DEF Last

LEMMA EditLast ==
  ASSUME TypeInv, N > 0, NEW row \in Row, rows' = [rows EXCEPT ![N] = row]
  PROVE  LastBecomes(row)
BY RowsTyped, SeqChange DEF LastBecomes, N

LEMMA SameLast ==
  ASSUME TypeInv, N > 0, rows' = rows
  PROVE  LastBecomes(Last)
BY RowsTyped DEF LastBecomes, Last, N

\* A write of a handler hits the last row or none.
LEMMA HitsLast ==
  ASSUME TypeInv, NEW h
  PROVE  \/ Hits(h) = {}
         \/ /\ Hits(h) = {N} /\ N > 0 /\ N \in Rows
            /\ Last.status = "processing" /\ Last.attempts = h.att
<1>1. \A i \in Hits(h) : i = N /\ N > 0 /\ N \in Rows /\ Last = rows[i]
  BY ActiveIsLast DEF Hits
<1> QED
  BY <1>1 DEF Hits

LEMMA HitsCurrent ==
  ASSUME TypeInv, NEW h
  PROVE  h.row \in Hits(h) <=> h.row = N /\ N \in Hits(h)
BY HitsLast

LEMMA WriteEffect ==
  ASSUME TypeInv, NEW h \in handlers, NEW changed, Write(h, changed),
         N > 0 => changed[N] \in Row
  PROVE  \/ Hits(h) = {} /\ rows' = rows /\ slips' = slips
         \/ /\ Hits(h) = {N} /\ N > 0
            /\ Last.status = "processing" /\ Last.attempts = h.att
            /\ LastBecomes(changed[N])
            /\ (slips' = slips /\ Current(h)) \/ slips' = slips \cup {"crossed"}
<1>1. CASE Hits(h) = {}
  <2>1. rows' = [i \in Rows |-> rows[i]] /\ slips' = slips
    BY <1>1 DEF Write
  <2>2. rows = [i \in Rows |-> rows[i]]
    BY RowsTyped DEF Rows
  <2> QED
    BY <1>1, <2>1, <2>2
<1>2. CASE Hits(h) # {}
  <2>1. /\ Hits(h) = {N} /\ N > 0 /\ N \in Rows
        /\ Last.status = "processing" /\ Last.attempts = h.att
    BY <1>2, HitsLast
  <2>2. rows' = [i \in Rows |-> IF i = N THEN changed[N] ELSE rows[i]]
    BY <2>1 DEF Write
  <2>3. \A i \in Rows : rows'[i] \in Row /\ rows'[i] = IF i = N THEN changed[N] ELSE rows[i]
    BY <2>1, <2>2, RowsTyped
  <2>4. rows' \in Seq(Row) /\ Len(rows') = N
    <3>1. Rows = 1 .. N /\ N \in Nat
      BY RowsTyped
    <3> QED
      BY <2>2, <2>3, <3>1, SeqMake
  <2>5. (slips' = slips /\ Current(h)) \/ slips' = slips \cup {"crossed"}
    BY <2>1 DEF Write, Current
  <2> QED
    BY <2>1, <2>3, <2>4, <2>5 DEF LastBecomes
<1> QED
  BY <1>1, <1>2

-----------------------------------------------------------------------------
(* Type correctness *)

Bound == MaxAttempts + faults + repairs

\* The counters of faults and repairs only rise.
CountersKept ==
  /\ faults' \in 0 .. MaxFaults /\ repairs' \in 0 .. MaxRepairs
  /\ faults' >= faults /\ repairs' >= repairs

LEMMA Counters ==
  ASSUME TypeInv
  PROVE  /\ faults \in Nat /\ repairs \in Nat /\ MaxAttempts \in Nat /\ Bound \in Nat
         /\ faults <= MaxFaults /\ repairs <= MaxRepairs
         /\ MaxFaults \in Nat /\ MaxRepairs \in Nat /\ MaxRows \in Nat
         /\ Bound <= MaxAttempts + MaxFaults + MaxRepairs
         /\ MaxAttempts > 0
BY ForwardAssumption DEF TypeInv, TypeOK, Bound

LEMMA CountersNext ==
  ASSUME TypeInv, CountersKept
  PROVE  Bound' \in Nat /\ Bound' >= Bound /\ Bound' <= MaxAttempts + MaxFaults + MaxRepairs
BY Counters DEF CountersKept, Bound

LEMMA RowAttempts ==
  ASSUME TypeInv, NEW i \in Rows
  PROVE  /\ rows[i].attempts \in Nat /\ rows[i].attempts <= Bound
         /\ rows[i].status = "pending" => rows[i].attempts < Bound
<1>1. rows[i].attempts \in Attempts
  BY RowsTyped DEF Row
<1> QED
  BY <1>1, Counters DEF Attempts, TypeInv, AttemptsLeft, Bound

\* What the rows owe to TypeInv after a step.
RowsFit ==
  /\ rows \in Seq(Row) /\ N <= MaxRows /\ AttemptsLeft /\ Chain

\* Claims there are stay in range.
RowsGrow ==
  \A i \in Rows : i \in Rows' /\ rows'[i].attempts >= rows[i].attempts

\* A row that may be the last one.
Fits(row) ==
  /\ row.attempts <= MaxAttempts + faults' + repairs'
  /\ row.status = "pending" => row.attempts < MaxAttempts + faults' + repairs'
  /\ ~ row.superseded

LEMMA EditFits ==
  ASSUME TypeInv, N > 0, CountersKept, NEW row, LastBecomes(row), Fits(row),
         row.attempts >= Last.attempts
  PROVE  RowsFit' /\ RowsGrow
<1>1. Rows' = Rows /\ N' = N /\ N \in Rows /\ N \in Nat /\ Rows = 1 .. N /\ N <= MaxRows
  BY RowsTyped DEF LastBecomes, Rows, N
<1>2. \A i \in Rows : rows'[i] = IF i = N THEN row ELSE rows[i]
  BY <1>1 DEF LastBecomes
<1>3. AttemptsLeft'
  <2> SUFFICES ASSUME NEW i \in Rows
               PROVE  /\ rows'[i].attempts <= MaxAttempts + faults' + repairs'
                      /\ rows'[i].status = "pending" =>
                           rows'[i].attempts < MaxAttempts + faults' + repairs'
    BY <1>1 DEF AttemptsLeft
  <2>1. CASE i = N
    BY <1>2, <2>1 DEF Fits
  <2>2. CASE i # N
    BY <1>2, <2>2, RowAttempts, Counters, CountersNext DEF Bound
  <2> QED
    BY <2>1, <2>2
<1>4. Chain'
  BY <1>1, <1>2 DEF Chain, Fits, TypeInv
<1>5. RowsGrow
  <2> SUFFICES ASSUME NEW i \in Rows PROVE rows'[i].attempts >= rows[i].attempts
    BY <1>1 DEF RowsGrow
  <2>1. rows[i].attempts \in Nat
    BY RowAttempts
  <2> QED
    BY <1>2, <2>1 DEF Last
<1> QED
  BY <1>1, <1>3, <1>4, <1>5 DEF RowsFit, LastBecomes

LEMMA NoEditFits ==
  ASSUME TypeInv, CountersKept, rows' = rows
  PROVE  RowsFit' /\ RowsGrow
<1>1. Rows' = Rows /\ N' = N
  BY DEF Rows, N
<1>2. AttemptsLeft'
  BY <1>1, RowAttempts, Counters, CountersNext DEF AttemptsLeft, Bound
<1>3. Chain'
  BY <1>1 DEF Chain, TypeInv
<1>4. RowsGrow
  BY <1>1, RowAttempts DEF RowsGrow
<1> QED
  BY <1>1, <1>2, <1>3, <1>4, RowsTyped DEF RowsFit

\* What the handlers owe to TypeInv after a step.
HandlersFit == handlers \subseteq Handler /\ OneHandler

LEMMA NewAttempts ==
  ASSUME TypeInv, RowsFit'
  PROVE  \A i \in Rows' : rows'[i] \in Row /\ rows'[i].attempts \in Nat
<1>1. rows' \in Seq(Row) /\ Rows' = 1 .. Len(rows')
  BY DEF RowsFit, Rows
<1>2. \A i \in Rows' : rows'[i] \in Row
  BY <1>1
<1>3. \A i \in Rows' : rows'[i].attempts \in Attempts
  BY <1>2 DEF Row
<1>4. \A a \in Attempts : a \in Nat
  BY Counters DEF Attempts
<1> QED
  BY <1>2, <1>3, <1>4

LEMMA FewerHandlers ==
  ASSUME TypeInv, RowsGrow, RowsFit', handlers' \subseteq handlers
  PROVE  HandlersFit'
<1>1. \A h \in handlers : h.row \in Rows /\ h.att <= rows[h.row].attempts /\ h.att \in Nat
  BY Counters DEF TypeInv, TypeOK, OneHandler, Handler, Attempts
<1>2. \A i \in Rows' : rows'[i].attempts \in Nat
  BY NewAttempts
<1>3. \A i \in Rows : rows[i].attempts \in Nat
  BY RowAttempts
<1>4. \A h \in handlers : h.row \in Rows' /\ h.att <= rows'[h.row].attempts
  BY <1>1, <1>2, <1>3 DEF RowsGrow
<1> QED
  BY <1>4 DEF HandlersFit, OneHandler, TypeInv, TypeOK

Phases == {"start", "creating", "refused", "created", "uploading", "uploaded",
           "thrown", "buried", "finished"}

\* The handler that h becomes on its way to phase p.
MovesTo(h, p, k) ==
  /\ k \in Handler /\ k.phase = p
  /\ k.row = h.row /\ k.att = h.att /\ k.todo = h.todo
  /\ k.known = h.known /\ k.marked = h.marked
  /\ handlers' = (handlers \ {h}) \cup {k}

LEMMA EnterMoves ==
  ASSUME TypeInv, NEW h \in handlers, NEW p \in Phases, Enter(h, p)
  PROVE  \E k : MovesTo(h, p, k)
<1>1. h \in Handler
  BY DEF TypeInv, TypeOK
<1>2. PICK k : k = [h EXCEPT !.phase = p]
  OBVIOUS
<1>3. /\ k \in Handler /\ k.phase = p
      /\ k.row = h.row /\ k.att = h.att /\ k.todo = h.todo
      /\ k.known = h.known /\ k.marked = h.marked
  BY <1>1, <1>2 DEF Handler, Phases
<1> QED
  BY <1>2, <1>3 DEF Enter, Become, MovesTo

LEMMA MovedHandlers ==
  ASSUME TypeInv, RowsGrow, RowsFit', NEW h \in handlers, NEW p, NEW k, MovesTo(h, p, k)
  PROVE  HandlersFit'
<1>1. \A g \in handlers : g.row \in Rows /\ g.att <= rows[g.row].attempts /\ g.att \in Nat
  BY Counters DEF TypeInv, TypeOK, OneHandler, Handler, Attempts
<1>2. \A i \in Rows' : rows'[i].attempts \in Nat
  BY NewAttempts
<1>3. \A i \in Rows : rows[i].attempts \in Nat
  BY RowAttempts
<1>4. \A g \in handlers : g.row \in Rows' /\ g.att <= rows'[g.row].attempts
  BY <1>1, <1>2, <1>3 DEF RowsGrow
<1>5. \A g \in handlers' : g = k \/ g \in handlers \ {h}
  BY DEF MovesTo
<1>6. k.row = h.row /\ k.att = h.att /\ k \in Handler
  BY DEF MovesTo
<1>7. \A f, g \in handlers : f.row = g.row /\ f.att = g.att => f = g
  BY DEF TypeInv, OneHandler
<1>8. \A f, g \in handlers' : f.row = g.row /\ f.att = g.att => f = g
  BY <1>5, <1>6, <1>7
<1>9. handlers' \subseteq Handler
  BY <1>5, <1>6 DEF TypeInv, TypeOK
<1>10. \A g \in handlers' : g.row \in Rows' /\ g.att <= rows'[g.row].attempts
  BY <1>4, <1>5, <1>6
<1> QED
  BY <1>8, <1>9, <1>10 DEF HandlersFit, OneHandler

\* The rows a write of a handler would make of the last one.
LEMMA Changed ==
  ASSUME TypeInv, N > 0
  PROVE  /\ Marked[N] = WithMarker(Last, TRUE)
         /\ Unmarked[N] = WithMarker(Last, FALSE)
         /\ Checkpointed[N] = Learned(Last)
         /\ Folded[N] = IF Last.extra = {} THEN Last
                        ELSE FoldedRow(Last, Last.artifacts \cup Last.extra)
         /\ Last.artifacts \cup Last.extra \subseteq Clips
<1>1. N \in Rows /\ Last \in Row
  BY RowsTyped
<1>2. Marked[N] = WithMarker(Last, TRUE)
  BY <1>1 DEF Marked, WithMarker, Last
<1>3. Unmarked[N] = WithMarker(Last, FALSE)
  BY <1>1 DEF Unmarked, WithMarker, Last
<1>4. Checkpointed[N] = Learned(Last)
  BY <1>1 DEF Checkpointed, Learned, Last
<1>5. Folded[N] = IF Last.extra = {} THEN Last
                  ELSE FoldedRow(Last, Last.artifacts \cup Last.extra)
  BY <1>1 DEF Folded, FoldedRow, Last
<1>6. Last.artifacts \cup Last.extra \subseteq Clips
  BY <1>1 DEF Row
<1> QED
  BY <1>2, <1>3, <1>4, <1>5, <1>6

\* The writes by name.
HandlerWrites(h) ==
  Write(h, Marked) \/ Write(h, Unmarked) \/ Write(h, Checkpointed) \/ Write(h, Folded)

LEMMA WriteFits ==
  ASSUME TypeInv, CountersKept, NEW h \in handlers, HandlerWrites(h) \/ NoWrite
  PROVE  RowsFit' /\ RowsGrow /\ slips' \in {slips, slips \cup {"crossed"}}
<1>1. CASE NoWrite
  BY <1>1, NoEditFits DEF NoWrite
<1>2. ASSUME NEW changed, Write(h, changed),
             N > 0 => /\ changed[N] \in Row /\ SameClaim(Last, changed[N])
                      /\ changed[N].superseded = Last.superseded
      PROVE  RowsFit' /\ RowsGrow /\ slips' \in {slips, slips \cup {"crossed"}}
  <2>1. CASE rows' = rows /\ slips' = slips
    BY <2>1, NoEditFits
  <2>2. CASE /\ N > 0 /\ LastBecomes(changed[N])
             /\ slips' = slips \/ slips' = slips \cup {"crossed"}
    <3>1. PICK row : row = changed[N]
      OBVIOUS
    <3>2. /\ row.attempts = Last.attempts /\ row.status = Last.status
          /\ row.superseded = Last.superseded /\ N \in Rows
      BY <1>2, <2>2, <3>1, RowsTyped DEF SameClaim
    <3>3. /\ Last.attempts \in Nat /\ Last.attempts <= Bound
          /\ Last.status = "pending" => Last.attempts < Bound
          /\ ~ Last.superseded
      BY <3>2, RowAttempts DEF Last, TypeInv, Chain
    <3>4. Fits(row)
      BY <3>2, <3>3, Counters, CountersNext DEF Fits, Bound
    <3>5. RowsFit' /\ RowsGrow
      BY <2>2, <3>1, <3>2, <3>3, <3>4, EditFits
    <3> QED
      BY <2>2, <3>5
  <2> QED
    BY <1>2, <2>1, <2>2, WriteEffect
<1>3. ASSUME N > 0
      PROVE  \A changed \in {Marked, Unmarked, Checkpointed, Folded} :
               /\ changed[N] \in Row /\ SameClaim(Last, changed[N])
               /\ changed[N].superseded = Last.superseded
  <2>1. Last \in Row /\ Last.artifacts \cup Last.extra \subseteq Clips
    BY <1>3, RowsTyped, Changed
  <2>2. Marked[N] \in Row /\ SameClaim(Last, Marked[N])
        /\ Marked[N].superseded = Last.superseded
    BY <1>3, <2>1, Changed, MarkerRow DEF SameNotes
  <2>3. Unmarked[N] \in Row /\ SameClaim(Last, Unmarked[N])
        /\ Unmarked[N].superseded = Last.superseded
    BY <1>3, <2>1, Changed, MarkerRow DEF SameNotes
  <2>4. Checkpointed[N] \in Row /\ SameClaim(Last, Checkpointed[N])
        /\ Checkpointed[N].superseded = Last.superseded
    BY <1>3, <2>1, Changed, LearnedRow DEF SameNotes
  <2>5. Folded[N] \in Row /\ SameClaim(Last, Folded[N])
        /\ Folded[N].superseded = Last.superseded
    <3>1. CASE Last.extra = {}
      BY <1>3, <2>1, <3>1, Changed DEF SameClaim
    <3>2. CASE Last.extra # {}
      BY <1>3, <2>1, <3>2, Changed, FoldedRowIs DEF SameNotes
    <3> QED
      BY <3>1, <3>2
  <2> QED
    BY <2>2, <2>3, <2>4, <2>5
<1>4. CASE HandlerWrites(h)
  BY <1>2, <1>3, <1>4 DEF HandlerWrites
<1> QED
  BY <1>1, <1>4

\* The shape of a handler's step but its last.
Proceeds(h) ==
  /\ HandlerWrites(h) \/ NoWrite
  /\ \E p \in Phases : Enter(h, p)

LEMMA HandlerShape ==
  ASSUME TypeInv, NEW h \in handlers, HandlerStep(h)
  PROVE  /\ Proceeds(h) \/ Settle(h)
         /\ CountersKept
         /\ UNCHANGED <<calls, acked, asked, repairs>>
         /\ creates' \in {creates, creates + 1}
         /\ delivered \subseteq delivered' /\ delivered' \subseteq Clips
<1>0. /\ faults \in Nat /\ repairs \in Nat /\ faults <= MaxFaults /\ repairs <= MaxRepairs
      /\ MaxFaults \in Nat /\ MaxRepairs \in Nat
      /\ delivered \subseteq Clips /\ h.todo \subseteq Clips
  BY Counters DEF TypeInv, TypeOK, Handler
<1>1. UNCHANGED <<calls, acked, asked, repairs>>
  BY DEF HandlerStep
<1>2. faults' = faults \/ Fault
  BY DEF HandlerStep, Bury, Resume, Mark, Create, Retract, Checkpoint, Upload, Fold, Settle
<1>3. CountersKept
  BY <1>0, <1>1, <1>2 DEF Fault, CountersKept
<1>4. creates' \in {creates, creates + 1}
  BY DEF HandlerStep, Bury, Resume, Mark, Create, Retract, Checkpoint, Upload, Fold, Settle
<1>5. delivered \subseteq delivered' /\ delivered' \subseteq Clips
  BY <1>0 DEF HandlerStep, Bury, Resume, Mark, Create, Retract, Checkpoint, Upload, Fold, Settle
<1> SUFFICES Proceeds(h) \/ Settle(h)
  BY <1>1, <1>3, <1>4, <1>5
<1>6. ASSUME NEW p \in Phases, Enter(h, p), HandlerWrites(h) \/ NoWrite
      PROVE  Proceeds(h)
  BY <1>6 DEF Proceeds
<1>7. Phases = {"start", "creating", "refused", "created", "uploading", "uploaded",
                "thrown", "buried", "finished"}
  BY DEF Phases
<1>8. CASE Bury(h)
  <2>1. Enter(h, "buried") /\ NoWrite
    BY <1>8 DEF Bury
  <2> QED
    BY <1>6, <1>7, <2>1
<1>9. CASE Resume(h)
  <2>1. Enter(h, "uploading") /\ NoWrite
    BY <1>9 DEF Resume
  <2> QED
    BY <1>6, <1>7, <2>1
<1>10. CASE Create(h)
  <2>1. NoWrite /\ (Enter(h, "created") \/ Enter(h, "refused") \/ Enter(h, "thrown"))
    BY <1>10 DEF Create
  <2> QED
    BY <1>6, <1>7, <2>1
<1>11. CASE Upload(h)
  <2>1. NoWrite /\ (Enter(h, "uploaded") \/ Enter(h, "thrown"))
    BY <1>11 DEF Upload
  <2> QED
    BY <1>6, <1>7, <2>1
<1>12. CASE Mark(h)
  <2>1. /\ Write(h, Marked) \/ NoWrite
        /\ \E p \in {"thrown", "creating"} : Enter(h, p)
    BY <1>12 DEF Mark
  <2> QED
    BY <1>6, <1>7, <2>1 DEF HandlerWrites
<1>13. CASE Retract(h)
  <2>1. (Write(h, Unmarked) \/ NoWrite) /\ Enter(h, "thrown")
    BY <1>13 DEF Retract
  <2> QED
    BY <1>6, <1>7, <2>1 DEF HandlerWrites
<1>14. CASE Checkpoint(h)
  <2>1. /\ Write(h, Checkpointed) \/ NoWrite
        /\ Enter(h, "uploading") \/ Enter(h, "thrown")
    BY <1>14 DEF Checkpoint
  <2> QED
    BY <1>6, <1>7, <2>1 DEF HandlerWrites
<1>15. CASE Fold(h)
  <2>1. /\ Write(h, Folded) \/ NoWrite
        /\ \E p \in {"buried", "finished", "thrown"} : Enter(h, p)
    BY <1>15 DEF Fold
  <2> QED
    BY <1>6, <1>7, <2>1 DEF HandlerWrites
<1> QED
  BY <1>8, <1>9, <1>10, <1>11, <1>12, <1>13, <1>14, <1>15
     DEF HandlerStep

\* The queue's last write about a handler.
LEMMA SettleEffect ==
  ASSUME TypeInv, NEW h \in handlers, Settle(h)
  PROVE  /\ handlers' = handlers \ {h}
         /\ \/ ~ Current(h) /\ rows' = rows /\ slips' = slips
            \/ /\ Current(h) /\ N > 0 /\ Outcome(h) \in {"completed", "dead", "pending"}
               /\ Outcome(h) = "pending" => h.att < MaxAttempts
               /\ Outcome(h) = "completed" => h.phase = "finished"
               /\ LastBecomes(WithStatus(Last, Outcome(h)))
               /\ slips' \in {slips, slips \cup {"hushed"}}
<1>0. handlers' = handlers \ {h}
  BY DEF Settle
<1>1. h.row \in Rows /\ h \in Handler
  BY DEF TypeInv, TypeOK, OneHandler
<1>2. CASE h.row \notin Hits(h)
  <2>1. ~ Current(h)
    BY <1>1, <1>2 DEF Current, Hits, Last
  <2> QED
    BY <1>0, <1>2, <2>1 DEF Settle, NoWrite
<1>3. CASE h.row \in Hits(h)
  <2>1. /\ h.row = N /\ N > 0 /\ N \in Rows /\ Last.status = "processing"
        /\ Last.attempts = h.att
    BY <1>3, HitsLast
  <2>2. /\ Outcome(h) \in {"completed", "dead", "pending"}
        /\ Outcome(h) = "pending" => h.att < MaxAttempts
        /\ Outcome(h) = "completed" => h.phase = "finished"
    <3>1. h.att \in Nat /\ MaxAttempts \in Nat
      BY <1>1, Counters DEF Handler, Attempts
    <3> QED
      BY <3>1 DEF Outcome
  <2>3. Last \in Row
    BY <2>1, RowsTyped
  <2>4. PICK row : row = WithStatus(Last, Outcome(h))
    OBVIOUS
  <2>5. row \in Row
    BY <2>2, <2>3, <2>4, StatusRow
  <2>6. rows' = [rows EXCEPT ![N] = row]
    BY <1>3, <2>1, <2>4 DEF Settle, WithStatus, Last
  <2>7. LastBecomes(row)
    BY <2>1, <2>5, <2>6, EditLast
  <2>8. slips' \in {slips, slips \cup {"hushed"}}
    BY <1>3 DEF Settle, Hushed
  <2> QED
    BY <1>0, <2>1, <2>2, <2>4, <2>7, <2>8 DEF Current
<1> QED
  BY <1>2, <1>3

LEMMA ClaimEffect ==
  ASSUME TypeInv, NEW i \in Rows, Claim(i)
  PROVE  /\ i = N /\ N > 0 /\ Last.status = "pending"
         /\ Last.attempts + 1 \in Attempts
         /\ LastBecomes(Claimed(Last, Last.attempts + 1))
         /\ \E k \in Handler :
              /\ handlers' = handlers \cup {k}
              /\ k.row = N /\ k.att = Last.attempts + 1 /\ k.todo = Last.artifacts
              /\ k.known = Last.known /\ k.marked = Last.marked /\ k.phase = "start"
<1>1. i = N /\ N > 0 /\ N \in Rows /\ Last \in Row /\ rows[i] = Last /\ Last.status = "pending"
  BY ActiveIsLast DEF Claim
<1>2. Last.attempts \in Nat /\ Last.attempts < Bound
  BY <1>1, RowAttempts
<1>3. PICK a \in Attempts : a = Last.attempts + 1
  BY <1>2, Counters DEF Attempts
<1>4. PICK row \in Row : row = Claimed(Last, a)
  BY <1>1, ClaimedRow
<1>5. rows' = [rows EXCEPT ![N] = row]
  BY <1>1, <1>3, <1>4 DEF Claim, Claimed
<1>6. LastBecomes(row)
  BY <1>1, <1>5, EditLast
<1>7. PICK k : k = [row |-> N, att |-> a, todo |-> Last.artifacts,
                    known |-> Last.known, marked |-> Last.marked, phase |-> "start"]
  OBVIOUS
<1>8. handlers' = handlers \cup {k}
  BY <1>1, <1>3, <1>7 DEF Claim
<1>9. N \in 1 .. MaxRows
  BY <1>1, RowsTyped, Counters
<1>10. k \in Handler
  BY <1>1, <1>7, <1>9 DEF Handler, Row
<1> QED
  BY <1>1, <1>3, <1>4, <1>6, <1>7, <1>8, <1>10

LEMMA RedeliverEffect ==
  ASSUME TypeInv, NEW i \in Rows, NEW died \in BOOLEAN, Redeliver(i, died)
  PROVE  /\ i = N /\ N > 0 /\ Last.status = "processing"
         /\ LastBecomes(WithStatus(Last, "pending"))
         /\ handlers' \subseteq handlers
<1>1. i = N /\ N > 0 /\ Last \in Row /\ rows[i] = Last /\ Last.status = "processing"
  BY ActiveIsLast DEF Redeliver
<1>2. PICK row \in Row : row = WithStatus(Last, "pending")
  BY <1>1, StatusRow
<1>3. rows' = [rows EXCEPT ![N] = row]
  BY <1>1, <1>2 DEF Redeliver, WithStatus
<1>4. handlers' \subseteq handlers
  BY DEF Redeliver
<1> QED
  BY <1>1, <1>2, <1>3, <1>4, EditLast

LEMMA AmendEffect ==
  ASSUME TypeInv, NEW call \in calls, Amend(call)
  PROVE  /\ N > 0 /\ Last.status = "pending"
         /\ Last.artifacts \cup call.seen \cup call.clips \subseteq Clips
         /\ LastBecomes(WithList(Last, Last.artifacts \cup call.seen \cup call.clips))
<1>0. call \in Call
  BY DEF TypeInv, TypeOK
<1>1. N \in Rows /\ call.row = N /\ N > 0 /\ Last \in Row /\ rows[call.row] = Last
      /\ Last.status = "pending"
  <2>1. call.row \in Rows /\ rows[call.row].status = "pending"
    BY DEF Amend, TypeInv, CallsOnRows
  <2> QED
    BY <2>1, ActiveIsLast
<1>2. Last.artifacts \cup call.seen \cup call.clips \subseteq Clips
  BY <1>0, <1>1 DEF Row, Call
<1>3. PICK row \in Row : row = WithList(Last, Last.artifacts \cup call.seen \cup call.clips)
  BY <1>1, <1>2, ListRow
<1>4. rows' = [rows EXCEPT ![N] = row]
  BY <1>1, <1>3 DEF Amend, WithList
<1> QED
  BY <1>1, <1>2, <1>3, <1>4, EditLast

LEMMA SupersedeEffect ==
  ASSUME TypeInv, NEW call \in calls, Supersede(call)
  PROVE  /\ N > 0 /\ Last.status = "completed"
         /\ call.seen \cup call.clips \subseteq Clips
         /\ LastBecomes(Closed(Last, call.seen \cup call.clips))
<1>0. call \in Call
  BY DEF TypeInv, TypeOK
<1>1. N \in Rows /\ call.row = N /\ N > 0 /\ Last \in Row /\ rows[call.row] = Last
      /\ Last.status = "completed"
  <2>1. call.row \in Rows /\ rows[call.row].status = "completed"
    BY DEF Supersede, TypeInv, CallsOnRows
  <2> QED
    BY <2>1, ActiveIsLast
<1>2. call.seen \cup call.clips \subseteq Clips
  BY <1>0 DEF Call
<1>3. PICK row \in Row : row = Closed(Last, call.seen \cup call.clips)
  BY <1>1, <1>2, ClosedRow
<1>4. rows' = [rows EXCEPT ![N] = row]
  BY <1>1, <1>3 DEF Supersede, Closed
<1> QED
  BY <1>1, <1>2, <1>3, <1>4, EditLast

LEMMA RecordEffect ==
  ASSUME TypeInv, NEW call \in calls, Record(call)
  PROVE  /\ N > 0 /\ Last.status = "processing" /\ call.row = N
         /\ Last.extra \cup Last.artifacts \cup call.seen \cup call.clips \subseteq Clips
         /\ LastBecomes(WithExtra(Last, Last.extra \cup Last.artifacts \cup call.seen \cup call.clips))
<1>0. call \in Call
  BY DEF TypeInv, TypeOK
<1>1. N \in Rows /\ call.row = N /\ N > 0 /\ Last \in Row /\ rows[call.row] = Last
      /\ Last.status = "processing"
  <2>1. call.row \in Rows /\ rows[call.row].status = "processing"
    BY DEF Record, Recordable, TypeInv, CallsOnRows
  <2> QED
    BY <2>1, ActiveIsLast
<1>2. Last.extra \cup Last.artifacts \cup call.seen \cup call.clips \subseteq Clips
  BY <1>0, <1>1 DEF Row, Call
<1>3. PICK row \in Row :
        row = WithExtra(Last, Last.extra \cup Last.artifacts \cup call.seen \cup call.clips)
  BY <1>1, <1>2, ExtraRow
<1>4. rows' = [rows EXCEPT ![N] = row]
  BY <1>1, <1>3 DEF Record, WithExtra
<1> QED
  BY <1>1, <1>2, <1>3, <1>4, EditLast

LEMMA AlertEffect ==
  ASSUME TypeInv, NEW i \in Rows, Alert(i)
  PROVE  /\ N > 0 /\ Last.status = "dead"
         /\ LastBecomes(Announced(Last))
<1>1. i = N /\ N > 0 /\ Last \in Row /\ rows[i] = Last /\ Last.status = "dead"
  BY ActiveIsLast DEF Alert, Alertable
<1>2. PICK row \in Row : row = Announced(Last)
  BY <1>1, AnnouncedRow
<1>3. rows' = [rows EXCEPT ![N] = row]
  BY <1>1, <1>2 DEF Alert, Announced
<1> QED
  BY <1>1, <1>2, <1>3, EditLast

LEMMA RepairEffect ==
  ASSUME TypeInv, NEW i \in Rows, Repair(i)
  PROVE  /\ N > 0 /\ Last.status = "dead" /\ ~ Creating
         /\ \/ /\ ~ Last.known /\ Last.marked
               /\ \E k \in BOOLEAN : k = (creates > 0) /\ LastBecomes(Repaired(Last, k))
            \/ /\ ~ (~ Last.known /\ Last.marked)
               /\ LastBecomes(WithStatus(Last, "pending"))
<1>1. i = N /\ N > 0 /\ Last \in Row /\ rows[i] = Last /\ Last.status = "dead"
  BY ActiveIsLast DEF Repair
<1>2. ~ Creating
  BY DEF Repair, Creating
<1>3. CASE ~ Last.known /\ Last.marked
  <2>0. (creates > 0) \in BOOLEAN
    BY DEF TypeInv, TypeOK
  <2>1. PICK k \in BOOLEAN : k = (creates > 0)
    BY <2>0, Zenon
  <2>2. PICK row \in Row : row = Repaired(Last, k)
    BY <1>1, RepairedRow
  <2>3. rows' = [rows EXCEPT ![N] = row]
    BY <1>1, <1>3, <2>1, <2>2 DEF Repair, Repaired
  <2>4. LastBecomes(row)
    BY <1>1, <2>3, EditLast
  <2> QED
    BY <1>1, <1>2, <1>3, <2>1, <2>2, <2>4
<1>4. CASE ~ (~ Last.known /\ Last.marked)
  <2>1. PICK row \in Row : row = WithStatus(Last, "pending")
    BY <1>1, StatusRow
  <2>2. rows' = [rows EXCEPT ![N] = row]
    BY <1>1, <1>4, <2>1 DEF Repair, WithStatus
  <2>3. LastBecomes(row)
    BY <1>1, <2>2, EditLast
  <2> QED
    BY <1>1, <1>2, <1>4, <2>1, <2>3
<1> QED
  BY <1>3, <1>4

\* A new row ends the chain, and the others name their successor.
EnqueuesNew(call) ==
  /\ LiveRows = {} /\ N < MaxRows
  /\ rows' = Append([i \in Rows |-> [rows[i] EXCEPT !.superseded = TRUE]], NewRow(call))
  /\ Answer(call)
  /\ slips' = IF OutOfDate(call) THEN slips \cup {"outOfDate"} ELSE slips

EnqueuesNothing(call) ==
  /\ \E i \in LiveRows :
       IF call.clips \subseteq rows[i].artifacts
       THEN Answer(call)
       ELSE calls' = (calls \ {call}) \cup {LookAt(call.clips, i)} /\ UNCHANGED acked
  /\ UNCHANGED <<rows, slips>>

LEMMA EnqueueCases ==
  ASSUME NEW call, Enqueue(call)
  PROVE  CallFrame /\ (EnqueuesNew(call) \/ EnqueuesNothing(call))
BY DEF Enqueue, EnqueuesNew, EnqueuesNothing, N

LEMMA NewRowType ==
  ASSUME NEW call \in Call, MaxAttempts \in Nat, MaxFaults \in Nat, MaxRepairs \in Nat
  PROVE  /\ NewRow(call) \in Row
         /\ NewRow(call).status = "pending" /\ NewRow(call).attempts = 0
         /\ NewRow(call).artifacts = call.seen \cup call.clips
         /\ NewRow(call).extra = {}
         /\ NewRow(call).known = call.known /\ NewRow(call).marked = call.marked
         /\ ~ NewRow(call).superseded
BY DEF NewRow, Row, Call, Attempts

LEMMA NewEffect ==
  ASSUME TypeInv, NEW call \in calls, EnqueuesNew(call)
  PROVE  /\ rows' \in Seq(Row) /\ Len(rows') = N + 1 /\ N + 1 <= MaxRows
         /\ Len(rows') \in Rows' /\ Rows' = 1 .. N + 1
         /\ rows'[N + 1] = NewRow(call)
         /\ \A i \in Rows : rows[i].status = "dead" /\ rows'[i] = Replaced(rows[i])
<1>0. call \in Call /\ N \in Nat /\ Rows = 1 .. N /\ \A i \in Rows : rows[i] \in Row
  BY RowsTyped DEF TypeInv, TypeOK
<1>1. PICK new \in Row : new = NewRow(call)
  BY <1>0, NewRowType, Counters
<1>2. PICK old : old = [i \in Rows |-> Replaced(rows[i])]
  OBVIOUS
<1>3. old = [i \in 1 .. N |-> old[i]] /\ \A i \in 1 .. N : old[i] \in Row
  BY <1>0, <1>2, ReplacedRow
<1>4. old \in Seq(Row) /\ Len(old) = N
  BY <1>0, <1>3, SeqMake
<1>5. rows' = Append(old, new)
  BY <1>1, <1>2 DEF EnqueuesNew, Replaced
<1>6. /\ rows' \in Seq(Row) /\ Len(rows') = N + 1 /\ rows'[N + 1] = new
      /\ \A i \in 1 .. N : rows'[i] = old[i]
  BY <1>4, <1>5, SeqAdd
<1>7. N + 1 <= MaxRows
  BY <1>0, Counters DEF EnqueuesNew
<1>8. \A i \in Rows : rows[i].status = "dead"
  BY DEF EnqueuesNew, LiveRows, Live
<1>9. \A i \in Rows : rows'[i] = Replaced(rows[i])
  BY <1>0, <1>2, <1>6
<1>10. Rows' = 1 .. N + 1 /\ Len(rows') \in Rows'
  BY <1>0, <1>6 DEF Rows
<1> QED
  BY <1>1, <1>6, <1>7, <1>8, <1>9, <1>10

LEMMA NewFits ==
  ASSUME TypeInv, CountersKept, NEW call \in calls, EnqueuesNew(call)
  PROVE  RowsFit' /\ RowsGrow
<1>0. call \in Call /\ N \in Nat /\ Rows = 1 .. N
  BY RowsTyped DEF TypeInv, TypeOK
<1>1. /\ rows' \in Seq(Row) /\ Len(rows') = N + 1 /\ N + 1 <= MaxRows
      /\ Rows' = 1 .. N + 1 /\ rows'[N + 1] = NewRow(call)
  BY NewEffect
<1>2. NewRow(call).status = "pending" /\ NewRow(call).attempts = 0 /\ ~ NewRow(call).superseded
  BY <1>0, NewRowType, Counters
<1>3. ASSUME NEW i \in Rows
      PROVE  /\ rows'[i].status = "dead" /\ rows'[i].superseded
             /\ rows'[i].attempts = rows[i].attempts
             /\ rows[i].attempts \in Nat /\ rows[i].attempts <= Bound
  <2>1. rows[i] \in Row /\ rows[i].status = "dead" /\ rows'[i] = Replaced(rows[i])
    BY NewEffect, RowsTyped
  <2> QED
    BY <2>1, ReplacedRow, RowAttempts DEF SameClaim
<1>4. \A i \in Rows' : i \in Rows \/ i = N + 1
  BY <1>0, <1>1
<1>5. Bound' \in Nat /\ Bound' >= Bound /\ Bound \in Nat /\ Bound' > 0
  BY Counters, CountersNext DEF Bound, CountersKept
<1>6. AttemptsLeft'
  <2> SUFFICES ASSUME NEW i \in Rows'
               PROVE  /\ rows'[i].attempts <= Bound'
                      /\ rows'[i].status = "pending" => rows'[i].attempts < Bound'
    BY DEF AttemptsLeft, Bound
  <2>1. CASE i \in Rows
    BY <1>3, <1>5, <2>1
  <2>2. CASE i = N + 1
    BY <1>1, <1>2, <1>5, <2>2
  <2> QED
    BY <1>4, <2>1, <2>2
<1>7. Chain'
  <2>1. N' = N + 1
    BY <1>1 DEF N
  <2> QED
    BY <1>0, <1>1, <1>2, <1>3, <1>4, <2>1 DEF Chain
<1>8. RowsGrow
  BY <1>0, <1>1, <1>3 DEF RowsGrow
<1> QED
  BY <1>1, <1>6, <1>7, <1>8 DEF RowsFit, N

\* What the completions and the counters owe to TypeInv after a step.
CallsFit == calls \subseteq Call /\ CallsOnRows

Windows == {"crossed", "outOfDate", "missed", "hushed"}

CountsFit ==
  /\ acked \subseteq Clips /\ delivered \subseteq Clips
  /\ creates \in Nat
  /\ asked \in 0 .. MaxCalls /\ faults \in 0 .. MaxFaults /\ repairs \in 0 .. MaxRepairs
  /\ slips \subseteq Windows

LEMMA TypeParts ==
  /\ TypeInv <=> RowsFit /\ HandlersFit /\ CallsFit /\ CountsFit
  /\ TypeInv' <=> RowsFit' /\ HandlersFit' /\ CallsFit' /\ CountsFit'
BY DEF TypeInv, TypeOK, RowsFit, HandlersFit, CallsFit, CountsFit, Windows, N

LEMMA FewerCalls ==
  ASSUME TypeInv, RowsGrow, calls' \subseteq calls
  PROVE  CallsFit'
BY DEF TypeInv, TypeOK, CallsFit, CallsOnRows, RowsGrow

LEMMA LookAtCall ==
  ASSUME TypeInv, NEW S, S \subseteq Clips, NEW i \in Rows
  PROVE  /\ LookAt(S, i) \in Call /\ LookAt(S, i).row = i
         /\ LookAt(S, i).clips = S
<1>1. i \in 0 .. MaxRows /\ rows[i] \in Row
  BY RowsTyped, Counters
<1>2. rows[i].artifacts \subseteq Clips
  BY <1>1 DEF Row
<1> QED
  BY <1>1, <1>2 DEF LookAt, Call

LEMMA LookAtDeadCall ==
  ASSUME TypeInv, NEW S, S \subseteq Clips
  PROVE  /\ LookAtDead(S) \in Call /\ LookAtDead(S).row = 0
         /\ LookAtDead(S).clips = S
<1>1. Inherited \subseteq Clips
  <2>1. \A i \in DeadRows : rows[i].artifacts \cup rows[i].extra \subseteq Clips
    <3> SUFFICES ASSUME NEW i \in DeadRows
                 PROVE  rows[i].artifacts \cup rows[i].extra \subseteq Clips
      OBVIOUS
    <3>1. rows[i] \in Row
      BY RowsTyped DEF DeadRows
    <3> QED
      BY <3>1 DEF Row
  <2> QED
    BY <2>1 DEF Inherited
<1>2. Known \in BOOLEAN /\ MaybeCreated \in BOOLEAN
  BY DEF Known, MaybeCreated
<1>3. PICK a, b, c : a = Inherited /\ b = Known /\ c = MaybeCreated
  OBVIOUS
<1>4. LookAtDead(S) = [clips |-> S, row |-> 0, seen |-> a, known |-> b, marked |-> c]
  BY <1>3 DEF LookAtDead
<1>5. a \subseteq Clips /\ b \in BOOLEAN /\ c \in BOOLEAN
  BY <1>1, <1>2, <1>3
<1>6. 0 \in 0 .. MaxRows
  BY Counters
<1> QED
  BY <1>4, <1>5, <1>6 DEF Call

LEMMA OneMoreCall ==
  ASSUME TypeInv, RowsGrow, NEW call \in Call, call.row # 0 => call.row \in Rows,
         calls' \subseteq calls \cup {call}
  PROVE  CallsFit'
BY DEF TypeInv, TypeOK, CallsFit, CallsOnRows, RowsGrow

LEMMA GlassesTypeInit ==
  ASSUME Init
  PROVE  TypeInv
<1>1. rows = << >> /\ Len(rows) = 0 /\ Rows = {}
  BY DEF Init, Rows
<1>2. rows \in Seq(Row) /\ N = 0
  BY <1>1 DEF N
<1> QED
  BY <1>1, <1>2, ForwardAssumption
     DEF Init, TypeInv, TypeOK, AttemptsLeft, Chain, OneHandler, CallsOnRows, N

\* A step that edits the last row, and the handlers it may leave.
LEMMA LastFits ==
  ASSUME TypeInv, N > 0, CountersKept, NEW row, LastBecomes(row),
         row.attempts = Last.attempts \/ row.attempts = Last.attempts + 1,
         row.attempts <= Bound', row.status = "pending" => row.attempts < Bound',
         ~ row.superseded
  PROVE  RowsFit' /\ RowsGrow
<1>1. Last.attempts \in Nat
  BY RowsTyped, RowAttempts DEF Last
<1>2. Fits(row)
  BY DEF Fits, Bound
<1> QED
  BY <1>1, <1>2, EditFits

LEMMA LastRow ==
  ASSUME TypeInv, N > 0
  PROVE  /\ Last \in Row /\ N \in Rows /\ ~ Last.superseded
         /\ Last.attempts \in Nat /\ Last.attempts <= Bound
         /\ Last.status = "pending" => Last.attempts < Bound
         /\ Last.artifacts \subseteq Clips /\ Last.extra \subseteq Clips
<1>1. Last \in Row /\ N \in Rows /\ Last = rows[N]
  BY RowsTyped DEF Last
<1>2. Last.artifacts \subseteq Clips /\ Last.extra \subseteq Clips
  BY <1>1 DEF Row
<1>3. ~ Last.superseded
  BY <1>1 DEF TypeInv, Chain
<1> QED
  BY <1>1, <1>2, <1>3, RowAttempts

\* An edit that leaves the claim and the notes alone, or makes no new claim.
LEMMA QuietEditFits ==
  ASSUME TypeInv, N > 0, CountersKept, NEW row, LastBecomes(row),
         row.attempts = Last.attempts, row.superseded = Last.superseded,
         row.status = "pending" => Last.status = "pending" \/ Bound' > Bound
  PROVE  RowsFit' /\ RowsGrow
BY LastRow, LastFits, Counters, CountersNext

LEMMA CallTypeStep ==
  ASSUME TypeInv, NEW call \in calls, CallStep(call)
  PROVE  TypeInv'
<1>0. call \in Call /\ call.clips \subseteq Clips /\ call.seen \subseteq Clips
      /\ (call.row # 0 => call.row \in Rows)
  BY DEF TypeInv, TypeOK, CallsOnRows, Call
<1>1. CallFrame
  BY DEF CallStep, Amend, Supersede, Record, Refuse, Enqueue
<1>2. CountersKept
  BY <1>1, Counters DEF CallFrame, CountersKept, TypeInv, TypeOK
<1>3. /\ slips' \subseteq slips \cup {"hushed", "missed", "outOfDate"}
      /\ acked' = acked \/ acked' = acked \cup call.clips
  BY DEF CallStep, Amend, Supersede, Record, Refuse, Enqueue, Answer, Hushed, Missed
<1>4. CountsFit'
  BY <1>0, <1>1, <1>3 DEF CallFrame, CountsFit, TypeInv, TypeOK, Windows
<1>5. SUFFICES RowsFit' /\ RowsGrow /\ CallsFit'
  <2>1. HandlersFit'
    BY <1>1, <1>5, FewerHandlers DEF CallFrame
  <2> QED
    BY <1>4, <1>5, <2>1, TypeParts
<1>6. CASE Amend(call)
  <2>1. N > 0 /\ Last.status = "pending"
        /\ Last.artifacts \cup call.seen \cup call.clips \subseteq Clips
        /\ LastBecomes(WithList(Last, Last.artifacts \cup call.seen \cup call.clips))
    BY <1>6, AmendEffect
  <2>2. RowsFit' /\ RowsGrow
    BY <1>2, <2>1, QuietEditFits, ListRow, LastRow DEF SameClaim, SameNotes
  <2> QED
    BY <1>6, <2>2, FewerCalls DEF Amend, Answer
<1>7. CASE Supersede(call)
  <2>1. N > 0 /\ Last.status = "completed"
        /\ call.seen \cup call.clips \subseteq Clips
        /\ LastBecomes(Closed(Last, call.seen \cup call.clips))
    BY <1>7, SupersedeEffect
  <2>2. RowsFit' /\ RowsGrow
    BY <1>2, <2>1, QuietEditFits, ClosedRow, LastRow DEF SameNotes
  <2> QED
    BY <1>7, <2>2, FewerCalls DEF Supersede, Answer
<1>8. CASE Record(call)
  <2>1. N > 0 /\ Last.status = "processing"
        /\ Last.extra \cup Last.artifacts \cup call.seen \cup call.clips \subseteq Clips
        /\ LastBecomes(WithExtra(Last,
             Last.extra \cup Last.artifacts \cup call.seen \cup call.clips))
    BY <1>8, RecordEffect
  <2>2. RowsFit' /\ RowsGrow
    BY <1>2, <2>1, QuietEditFits, ExtraRow, LastRow DEF SameClaim, SameNotes
  <2> QED
    BY <1>8, <2>2, FewerCalls DEF Record, Answer
<1>9. CASE Refuse(call)
  <2>1. RowsFit' /\ RowsGrow
    BY <1>2, <1>9, NoEditFits DEF Refuse
  <2> QED
    BY <1>9, <2>1, FewerCalls DEF Refuse
<1>10. CASE EnqueuesNew(call)
  <2>1. RowsFit' /\ RowsGrow
    BY <1>2, <1>10, NewFits
  <2> QED
    BY <1>10, <2>1, FewerCalls DEF EnqueuesNew, Answer
<1>11. CASE EnqueuesNothing(call)
  <2>1. RowsFit' /\ RowsGrow
    BY <1>2, <1>11, NoEditFits DEF EnqueuesNothing
  <2>2. PICK i \in LiveRows :
          calls' = calls \ {call} \/ calls' = (calls \ {call}) \cup {LookAt(call.clips, i)}
    BY <1>11 DEF EnqueuesNothing, Answer
  <2>3. i \in Rows
    BY DEF LiveRows
  <2>4. LookAt(call.clips, i) \in Call /\ LookAt(call.clips, i).row = i
    BY <1>0, <2>3, LookAtCall
  <2> QED
    BY <2>1, <2>2, <2>3, <2>4, OneMoreCall, FewerCalls
<1> QED
  BY <1>6, <1>7, <1>8, <1>9, <1>10, <1>11, EnqueueCases DEF CallStep

LEMMA HandlerTypeStep ==
  ASSUME TypeInv, NEW h \in handlers, HandlerStep(h)
  PROVE  TypeInv'
<1>1. /\ Proceeds(h) \/ Settle(h)
      /\ CountersKept
      /\ UNCHANGED <<calls, acked, asked, repairs>>
      /\ creates' \in {creates, creates + 1}
      /\ delivered \subseteq delivered' /\ delivered' \subseteq Clips
  BY HandlerShape
<1>2. SUFFICES RowsFit' /\ RowsGrow /\ HandlersFit' /\ slips' \subseteq slips \cup {"crossed", "hushed"}
  <2>1. CallsFit'
    BY <1>1, <1>2, FewerCalls
  <2>2. CountsFit'
    BY <1>1, <1>2 DEF CountsFit, CountersKept, TypeInv, TypeOK, Windows
  <2> QED
    BY <1>2, <2>1, <2>2, TypeParts
<1>3. CASE Proceeds(h)
  <2>1. RowsFit' /\ RowsGrow /\ slips' \in {slips, slips \cup {"crossed"}}
    BY <1>1, <1>3, WriteFits DEF Proceeds
  <2>2. PICK p \in Phases : Enter(h, p)
    BY <1>3 DEF Proceeds
  <2>3. PICK k : MovesTo(h, p, k)
    BY <2>2, EnterMoves
  <2> QED
    BY <2>1, <2>3, MovedHandlers
<1>4. CASE Settle(h)
  <2>1. RowsFit' /\ RowsGrow /\ slips' \subseteq slips \cup {"hushed"}
    <3>1. CASE rows' = rows /\ slips' = slips
      BY <1>1, <3>1, NoEditFits
    <3>2. CASE /\ Current(h) /\ N > 0 /\ Outcome(h) \in {"completed", "dead", "pending"}
               /\ Outcome(h) = "pending" => h.att < MaxAttempts
               /\ LastBecomes(WithStatus(Last, Outcome(h)))
               /\ slips' \in {slips, slips \cup {"hushed"}}
      <4>1. PICK row : row = WithStatus(Last, Outcome(h))
        OBVIOUS
      <4>2. /\ row.status = Outcome(h) /\ row.attempts = Last.attempts
            /\ row.superseded = Last.superseded
        BY <3>2, <4>1, LastRow, StatusRow DEF SameNotes
      <4>3. /\ row.attempts <= Bound' /\ ~ row.superseded
            /\ row.status = "pending" => row.attempts < Bound'
        BY <1>1, <3>2, <4>2, LastRow, Counters, CountersNext DEF Current, Bound
      <4> QED
        BY <1>1, <3>2, <4>1, <4>2, <4>3, LastFits
    <3> QED
      BY <1>4, <3>1, <3>2, SettleEffect
  <2> QED
    BY <1>4, <2>1, SettleEffect, FewerHandlers
<1> QED
  BY <1>1, <1>3, <1>4

LEMMA ClaimTypeStep ==
  ASSUME TypeInv, NEW i \in Rows, Claim(i)
  PROVE  TypeInv'
<1>0. CountersKept
  BY Counters DEF Claim, CountersKept, TypeInv, TypeOK
<1>1. PICK a \in Attempts : a = Last.attempts + 1
  BY ClaimEffect
<1>2. /\ N > 0 /\ Last.status = "pending"
      /\ LastBecomes(Claimed(Last, a))
  BY <1>1, ClaimEffect
<1>3. PICK k \in Handler :
        /\ handlers' = handlers \cup {k} /\ k.row = N /\ k.att = a
  BY <1>1, ClaimEffect
<1>4. PICK row : row = Claimed(Last, a)
  OBVIOUS
<1>5. row.status = "processing" /\ row.attempts = a /\ row.superseded = Last.superseded
  BY <1>2, <1>4, LastRow, ClaimedRow DEF SameNotes
<1>6. RowsFit' /\ RowsGrow
  <2>1. row.attempts <= Bound' /\ ~ row.superseded /\ row.status # "pending"
    BY <1>0, <1>1, <1>2, <1>5, LastRow, Counters, CountersNext
  <2> QED
    BY <1>0, <1>1, <1>2, <1>4, <1>5, <2>1, LastFits
<1>7. HandlersFit'
  <2>1. N \in Rows' /\ rows'[N].attempts = a
    BY <1>2, <1>4, <1>5, <1>6, LastRow DEF LastBecomes, RowsGrow
  <2>2. \A g \in handlers : g.row \in Rows /\ g.att <= rows[g.row].attempts /\ g.att \in Nat
    BY Counters DEF TypeInv, TypeOK, OneHandler, Handler, Attempts
  <2>3. \A j \in Rows : rows[j].attempts \in Nat
    BY RowAttempts
  <2>4. \A j \in Rows' : rows'[j].attempts \in Nat
    BY <1>6, NewAttempts
  <2>5. \A g \in handlers : g.row \in Rows' /\ g.att <= rows'[g.row].attempts
    BY <1>6, <2>2, <2>3, <2>4 DEF RowsGrow
  <2>6. a \in Nat
    BY <1>1, <1>2, LastRow
  <2>7. \A g \in handlers : g.row = N => g.att < a
    BY <1>1, <1>2, <2>2, LastRow DEF Last
  <2>8. \A f, g \in handlers' : f.row = g.row /\ f.att = g.att => f = g
    <3>1. \A g \in handlers : ~ (g.row = k.row /\ g.att = k.att)
      BY <1>3, <2>2, <2>6, <2>7
    <3>2. \A f, g \in handlers : f.row = g.row /\ f.att = g.att => f = g
      BY DEF TypeInv, OneHandler
    <3> QED
      BY <1>3, <3>1, <3>2
  <2>9. handlers' \subseteq Handler
    BY <1>3 DEF TypeInv, TypeOK
  <2>10. \A g \in handlers' : g.row \in Rows' /\ g.att <= rows'[g.row].attempts
    BY <1>3, <2>1, <2>5, <2>6
  <2> QED
    BY <2>8, <2>9, <2>10 DEF HandlersFit, OneHandler
<1>8. CallsFit'
  BY <1>6, FewerCalls DEF Claim
<1>9. CountsFit'
  BY DEF Claim, CountsFit, TypeInv, TypeOK, Windows
<1> QED
  BY <1>6, <1>7, <1>8, <1>9, TypeParts

LEMMA RowTypeStep ==
  ASSUME TypeInv, NEW i \in Rows,
         (\E died \in BOOLEAN : Redeliver(i, died)) \/ Alert(i) \/ Repair(i)
  PROVE  TypeInv'
<1>0. /\ CountersKept
      /\ handlers' \subseteq handlers /\ calls' = calls
      /\ CountsFit'
  <2>1. /\ faults' = faults \/ (faults < MaxFaults /\ faults' = faults + 1)
        /\ repairs' = repairs \/ (repairs < MaxRepairs /\ repairs' = repairs + 1)
        /\ handlers' \subseteq handlers
        /\ UNCHANGED <<calls, acked, creates, delivered, asked, slips>>
    BY DEF Redeliver, Alert, Repair, Fault
  <2>2. CountersKept
    BY <2>1, Counters DEF CountersKept
  <2> QED
    BY <2>1, <2>2 DEF CountersKept, CountsFit, TypeInv, TypeOK, Windows
<1>1. SUFFICES RowsFit' /\ RowsGrow
  BY <1>0, <1>1, FewerHandlers, FewerCalls, TypeParts
<1>2. ASSUME NEW died \in BOOLEAN, Redeliver(i, died)
      PROVE  RowsFit' /\ RowsGrow
  <2>1. Bound' > Bound
    BY <1>2, Counters DEF Redeliver, Fault, Bound
  <2> QED
    BY <1>0, <1>2, <2>1, RedeliverEffect, LastRow, StatusRow, QuietEditFits DEF SameNotes
<1>3. CASE Alert(i)
  BY <1>0, <1>3, AlertEffect, LastRow, AnnouncedRow, QuietEditFits DEF SameClaim
<1>4. CASE Repair(i)
  <2>1. Bound' > Bound
    BY <1>4, Counters DEF Repair, Bound
  <2>2. N > 0 /\ Last \in Row
    BY <1>4, RepairEffect, LastRow
  <2>3. ASSUME NEW k \in BOOLEAN, LastBecomes(Repaired(Last, k))
        PROVE  RowsFit' /\ RowsGrow
    BY <1>0, <2>1, <2>2, <2>3, RepairedRow, QuietEditFits DEF SameNotes
  <2>4. CASE LastBecomes(WithStatus(Last, "pending"))
    BY <1>0, <2>1, <2>2, <2>4, StatusRow, QuietEditFits DEF SameNotes
  <2> QED
    BY <1>4, <2>3, <2>4, RepairEffect
<1> QED
  BY <1>2, <1>3, <1>4

LEMMA LookTypeStep ==
  ASSUME TypeInv, NEW S \in SUBSET Clips \ {{}}, Look(S)
  PROVE  TypeInv'
<1>0. S \subseteq Clips
  OBVIOUS
<1>1. CountersKept /\ rows' = rows /\ handlers' = handlers
  BY Counters DEF Look, CountersKept, TypeInv, TypeOK
<1>2. RowsFit' /\ RowsGrow
  BY <1>1, NoEditFits
<1>3. HandlersFit'
  BY <1>1, <1>2, FewerHandlers
<1>4. CountsFit'
  <2>1. acked' \subseteq Clips
    BY <1>0 DEF Look, TypeInv, TypeOK
  <2>2. asked' \in 0 .. MaxCalls
    BY ForwardAssumption DEF Look, TypeInv, TypeOK
  <2> QED
    BY <2>1, <2>2 DEF Look, CountsFit, TypeInv, TypeOK, Windows
<1>5. CallsFit'
  <2>1. CASE calls' = calls
    BY <1>2, <2>1, FewerCalls
  <2>2. CASE \E j \in LiveRows : calls' = calls \cup {LookAt(S, j)}
    <3>1. PICK j \in Rows : calls' = calls \cup {LookAt(S, j)}
      BY <2>2 DEF LiveRows
    <3> QED
      BY <1>0, <1>2, <3>1, LookAtCall, OneMoreCall
  <2>3. CASE calls' = calls \cup {LookAtDead(S)}
    BY <1>0, <1>2, <2>3, LookAtDeadCall, OneMoreCall
  <2> QED
    BY <2>1, <2>2, <2>3 DEF Look
<1> QED
  BY <1>2, <1>3, <1>4, <1>5, TypeParts

LEMMA GlassesTypeStep ==
  ASSUME TypeInv, [Next]_vars
  PROVE  TypeInv'
<1>1. CASE UNCHANGED vars
  BY <1>1 DEF vars, TypeInv, TypeOK, AttemptsLeft, Chain, OneHandler, CallsOnRows, N, Rows
<1> QED
  BY <1>1, LookTypeStep, CallTypeStep, HandlerTypeStep, ClaimTypeStep, RowTypeStep DEF Next

\* The type invariant: rows, handlers and completions stay in their domains,
\* and no row is tried more often than its attempts, the faults and the repairs
\* allow (claim, lease and settle writes of the forward job).
THEOREM ForwardTypeCorrect == Spec => []TypeOK
<1>1. Spec => []TypeInv
  BY GlassesTypeInit, GlassesTypeStep, PTL DEF Spec
<1> QED
  BY <1>1, PTL DEF TypeInv

-----------------------------------------------------------------------------
(* One create *)

LEMMA LastNext ==
  ASSUME NEW row, LastBecomes(row)
  PROVE  N' = N /\ Last' = row
BY DEF LastBecomes, N, Last

LEMMA LastStays ==
  ASSUME rows' = rows
  PROVE  N' = N /\ Last' = Last
BY DEF N, Last

LEMMA OnlyCurrent ==
  ASSUME TypeInv, NEW g \in handlers, NEW h \in handlers, Current(g), Current(h)
  PROVE  g = h
BY DEF TypeInv, OneHandler, Current

Evidence == N > 0 /\ (Last.known \/ Last.marked)

CreateParts ==
  /\ creates <= 1
  /\ \A h \in handlers : h.phase = "creating" => creates = 0
  /\ \A g, h \in handlers : g.phase = "creating" /\ h.phase = "creating" => g = h
  /\ creates > 0 \/ Creating => Evidence

LEMMA CreateForm ==
  /\ CreateInv <=> CreateParts /\ \A h \in handlers : Current(h) => KnowsRow(h)
  /\ CreateInv' <=> CreateParts' /\ \A h \in handlers' : Current(h)' => KnowsRow(h)'
BY DEF CreateInv, CreateParts, Evidence

\* The handlers of a step that starts no create and ends none.
NoNewCreating == \A g \in handlers' : g.phase = "creating" => g \in handlers

LEMMA CreateQuiet ==
  ASSUME CreateInv, creates' = creates, NoNewCreating,
         creates > 0 \/ Creating' => Evidence',
         \A g \in handlers' : Current(g)' =>
           /\ g.phase = "start" => g.known = Last'.known /\ g.marked = Last'.marked
           /\ g.phase = "refused" => g \in handlers /\ Current(g)
  PROVE  CreateInv'
<1>1. Creating' => Creating
  BY DEF NoNewCreating, Creating
<1>2. CreateParts'
  BY <1>1, CreateForm DEF CreateParts, NoNewCreating
<1>3. ASSUME NEW g \in handlers', Current(g)'
      PROVE  KnowsRow(g)'
  <2>1. g.phase = "refused" => creates' = 0 /\ ~ Creating'
    BY <1>1, <1>3, CreateForm DEF KnowsRow
  <2>2. g.phase = "start" => g.known = Last'.known /\ g.marked = Last'.marked
    BY <1>3
  <2> QED
    BY <2>1, <2>2 DEF KnowsRow
<1> QED
  BY <1>2, <1>3, CreateForm

\* A step that neither creates nor touches what is known of the create.
LEMMA CreateStill ==
  ASSUME CreateInv, creates' = creates, N' = N, SameCreate(Last, Last'),
         \A g \in handlers' :
           \/ g \in handlers /\ (Current(g)' => Current(g))
           \/ g.phase \notin {"creating", "start", "refused"}
  PROVE  CreateInv'
<1>1. NoNewCreating
  BY DEF NoNewCreating
<1>2. Creating' => Creating
  BY <1>1 DEF NoNewCreating, Creating
<1>3. creates > 0 \/ Creating' => Evidence'
  BY <1>2, CreateForm DEF CreateParts, Evidence, SameCreate
<1>4. ASSUME NEW g \in handlers', Current(g)'
      PROVE  /\ g.phase = "start" => g.known = Last'.known /\ g.marked = Last'.marked
             /\ g.phase = "refused" => g \in handlers /\ Current(g)
  BY <1>4, CreateForm DEF KnowsRow, SameCreate
<1> QED
  BY <1>1, <1>3, <1>4, CreateQuiet

LEMMA CreateStillRows ==
  ASSUME CreateInv, creates' = creates, rows' = rows,
         \A g \in handlers' :
           g \in handlers \/ g.phase \notin {"creating", "start", "refused"}
  PROVE  CreateInv'
<1>1. N' = N /\ Last' = Last
  BY LastStays
<1>2. \A g : Current(g)' => Current(g)
  BY <1>1 DEF Current
<1> QED
  BY <1>1, <1>2, CreateStill DEF SameCreate

LEMMA CreateStillLast ==
  ASSUME CreateInv, creates' = creates, NEW row, LastBecomes(row), SameCreate(Last, row),
         row.status = "processing" => SameClaim(Last, row),
         \A g \in handlers' :
           g \in handlers \/ g.phase \notin {"creating", "start", "refused"}
  PROVE  CreateInv'
<1>1. N' = N /\ Last' = row
  BY LastNext
<1>2. \A g : Current(g)' => Current(g)
  BY <1>1 DEF Current, SameClaim
<1> QED
  BY <1>1, <1>2, CreateStill

LEMMA CallCreateStep ==
  ASSUME TypeInv, CreateInv, CreateClean', NEW call \in calls, CallStep(call)
  PROVE  CreateInv'
<1>1. handlers' = handlers /\ creates' = creates
  BY DEF CallStep, Amend, Supersede, Record, Refuse, Enqueue, CallFrame
<1>2. CASE Amend(call)
  <2>1. N > 0 /\ Last.artifacts \cup call.seen \cup call.clips \subseteq Clips
        /\ LastBecomes(WithList(Last, Last.artifacts \cup call.seen \cup call.clips))
    BY <1>2, AmendEffect
  <2> QED
    BY <1>1, <2>1, ListRow, LastRow, CreateStillLast
<1>3. CASE Supersede(call)
  <2>1. N > 0 /\ call.seen \cup call.clips \subseteq Clips
        /\ LastBecomes(Closed(Last, call.seen \cup call.clips))
    BY <1>3, SupersedeEffect
  <2> QED
    BY <1>1, <2>1, ClosedRow, LastRow, CreateStillLast
<1>4. CASE Record(call)
  <2>1. N > 0 /\ Last.extra \cup Last.artifacts \cup call.seen \cup call.clips \subseteq Clips
        /\ LastBecomes(WithExtra(Last,
             Last.extra \cup Last.artifacts \cup call.seen \cup call.clips))
    BY <1>4, RecordEffect
  <2> QED
    BY <1>1, <2>1, ExtraRow, LastRow, CreateStillLast
<1>5. CASE rows' = rows
  BY <1>1, <1>5, CreateStillRows
<1>6. CASE EnqueuesNew(call)
  <2>1. N \in Nat /\ Rows = 1 .. N
    BY RowsTyped
  <2>2. call \in Call
    BY DEF TypeInv, TypeOK
  <2>3. N' = N + 1 /\ Last' = NewRow(call)
    BY NewEffect, <1>6 DEF N, Last
  <2>4. ~ OutOfDate(call)
    BY <1>6 DEF EnqueuesNew, CreateClean
  <2>5. Last'.status = "pending" /\ Last'.known = Known /\ Last'.marked = MaybeCreated
    BY <2>2, <2>3, <2>4, NewRowType, Counters DEF OutOfDate
  <2>6. Evidence => Evidence'
    <3> SUFFICES ASSUME Evidence PROVE Evidence'
      OBVIOUS
    <3>1. N \in Rows /\ Last = rows[N]
      BY <2>1 DEF Evidence, Last
    <3>2. N \in DeadRows
      BY <1>6, <3>1 DEF DeadRows, EnqueuesNew
    <3>3. Known \/ MaybeCreated
      BY <3>1, <3>2 DEF Known, MaybeCreated, Evidence
    <3> QED
      BY <2>1, <2>3, <2>5, <3>3 DEF Evidence
  <2>7. Creating' <=> Creating
    BY <1>1 DEF Creating
  <2>8. creates > 0 \/ Creating' => Evidence'
    BY <2>6, <2>7, CreateForm DEF CreateParts
  <2>9. \A g : ~ Current(g)'
    BY <2>5 DEF Current
  <2> QED
    BY <1>1, <2>8, <2>9, CreateQuiet DEF NoNewCreating
<1> QED
  BY <1>2, <1>3, <1>4, <1>5, <1>6, EnqueueCases DEF CallStep, Refuse, EnqueuesNothing

LEMMA ClaimCreateStep ==
  ASSUME TypeInv, CreateInv, NEW i \in Rows, Claim(i)
  PROVE  CreateInv'
<1>1. PICK a \in Attempts : a = Last.attempts + 1
  BY ClaimEffect
<1>2. N > 0 /\ LastBecomes(Claimed(Last, a))
  BY <1>1, ClaimEffect
<1>3. PICK k \in Handler :
        /\ handlers' = handlers \cup {k} /\ k.phase = "start"
        /\ k.known = Last.known /\ k.marked = Last.marked
  BY ClaimEffect
<1>4. /\ N' = N /\ Last'.attempts = a
      /\ Last'.known = Last.known /\ Last'.marked = Last.marked
  BY <1>2, LastNext, LastRow, ClaimedRow DEF SameCreate
<1>5. \A g \in handlers : ~ Current(g)'
  <2>1. \A g \in handlers : g.att \in Nat /\ (g.row = N => g.att <= Last.attempts)
    BY Counters DEF TypeInv, TypeOK, Handler, Attempts, OneHandler, Last
  <2> QED
    BY <1>1, <1>2, <1>4, <2>1, LastRow DEF Current
<1>6. creates' = creates
  BY DEF Claim
<1>7. NoNewCreating
  BY <1>3 DEF NoNewCreating
<1>8. creates > 0 \/ Creating' => Evidence'
  <2>1. Creating' => Creating
    BY <1>7 DEF NoNewCreating, Creating
  <2> QED
    BY <1>4, <2>1, CreateForm DEF CreateParts, Evidence
<1>9. ASSUME NEW g \in handlers', Current(g)'
      PROVE  /\ g.phase = "start" => g.known = Last'.known /\ g.marked = Last'.marked
             /\ g.phase = "refused" => g \in handlers /\ Current(g)
  BY <1>3, <1>4, <1>5, <1>9
<1> QED
  BY <1>6, <1>7, <1>8, <1>9, CreateQuiet

LEMMA RowCreateStep ==
  ASSUME TypeInv, CreateInv, NEW i \in Rows,
         (\E died \in BOOLEAN : Redeliver(i, died)) \/ Alert(i) \/ Repair(i)
  PROVE  CreateInv'
<1>1. creates' = creates /\ handlers' \subseteq handlers
  BY DEF Redeliver, Alert, Repair
<1>2. ASSUME NEW died \in BOOLEAN, Redeliver(i, died)
      PROVE  CreateInv'
  BY <1>1, <1>2, RedeliverEffect, LastRow, StatusRow, CreateStillLast
<1>3. CASE Alert(i)
  BY <1>1, <1>3, AlertEffect, LastRow, AnnouncedRow, CreateStillLast
<1>4. CASE Repair(i)
  <2>1. N > 0 /\ Last \in Row /\ ~ Creating
    BY <1>4, RepairEffect, LastRow
  <2>2. CASE LastBecomes(WithStatus(Last, "pending"))
    BY <1>1, <2>1, <2>2, StatusRow, CreateStillLast
  <2>3. ASSUME NEW k \in BOOLEAN, k = (creates > 0), LastBecomes(Repaired(Last, k))
        PROVE  CreateInv'
    <3>1. N' = N /\ Last'.known = k /\ Last'.status = "pending"
      <4>1. PICK row : row = Repaired(Last, k)
        OBVIOUS
      <4>2. row.known = k /\ row.status = "pending"
        BY <2>1, <4>1, RepairedRow
      <4> QED
        BY <2>3, <4>1, <4>2, LastNext
    <3>2. ~ Creating'
      BY <1>1, <2>1 DEF Creating
    <3>3. creates > 0 \/ Creating' => Evidence'
      BY <2>1, <2>3, <3>1, <3>2 DEF Evidence
    <3>4. \A g : ~ Current(g)'
      BY <3>1 DEF Current
    <3> QED
      BY <1>1, <3>3, <3>4, CreateQuiet DEF NoNewCreating
  <2> QED
    BY <1>4, <2>2, <2>3, RepairEffect
<1> QED
  BY <1>2, <1>3, <1>4

\* With no claim crossed, a write lands on the handler's own row or nowhere.
LEMMA OwnWrite ==
  ASSUME TypeInv, NEW h \in handlers, NEW changed, Write(h, changed),
         N > 0 => changed[N] \in Row, "crossed" \notin slips'
  PROVE  \/ Hits(h) = {} /\ rows' = rows
         \/ /\ Hits(h) = {N} /\ N > 0 /\ Current(h)
            /\ LastBecomes(changed[N])
BY WriteEffect

LEMMA MovedCreateStill ==
  ASSUME TypeInv, CreateInv, NEW h \in handlers, NEW p, NEW k, MovesTo(h, p, k),
         p \notin {"creating", "start", "refused"}, creates' = creates,
         \/ rows' = rows
         \/ \E row : LastBecomes(row) /\ SameCreate(Last, row) /\ SameClaim(Last, row)
  PROVE  CreateInv'
<1>1. \A g \in handlers' : g \in handlers \/ g.phase \notin {"creating", "start", "refused"}
  BY DEF MovesTo
<1>2. CASE rows' = rows
  BY <1>1, <1>2, CreateStillRows
<1>3. ASSUME NEW row, LastBecomes(row), SameCreate(Last, row), SameClaim(Last, row)
      PROVE  CreateInv'
  BY <1>1, <1>3, CreateStillLast
<1> QED
  BY <1>2, <1>3

\* Once the current handler has moved, no other holds the last row's claim.
LEMMA OthersLapsed ==
  ASSUME TypeInv, NEW h \in handlers, Current(h), NEW p, NEW k, MovesTo(h, p, k),
         NEW row, LastBecomes(row), SameClaim(Last, row)
  PROVE  \A g \in handlers' : Current(g)' => g = k
<1>1. N' = N /\ Last' = row
  BY LastNext
<1>2. \A g : Current(g)' => Current(g)
  BY <1>1 DEF Current, SameClaim
<1>3. \A g \in handlers : Current(g) => g = h
  BY OnlyCurrent
<1> QED
  BY <1>2, <1>3 DEF MovesTo

LEMMA MarkCreateStep ==
  ASSUME TypeInv, CreateInv, CreateClean', NEW h \in handlers, Mark(h)
  PROVE  CreateInv'
<1>0. creates' = creates /\ h.phase = "start" /\ ~ h.known /\ ~ h.marked
      /\ "crossed" \notin slips'
  BY DEF Mark, CreateClean
<1>1. ASSUME NoWrite \/ Hits(h) = {}, Enter(h, "thrown")
      PROVE  CreateInv'
  <2>2. rows' = rows
    <3>1. CASE NoWrite
      BY <3>1 DEF NoWrite
    <3>2. CASE Hits(h) = {}
      <4>1. rows' = [i \in Rows |-> rows[i]] \/ rows' = rows
        BY <3>2 DEF Mark, Write, NoWrite
      <4>2. rows = [i \in Rows |-> rows[i]]
        BY RowsTyped DEF Rows
      <4> QED
        BY <4>1, <4>2
    <3> QED
      BY <1>1, <3>1, <3>2
  <2>3. PICK k : MovesTo(h, "thrown", k)
    BY <1>1, EnterMoves DEF Phases
  <2> QED
    BY <1>0, <2>2, <2>3, MovedCreateStill
<1>2. ASSUME Write(h, Marked), Hits(h) # {}
      PROVE  CreateInv'
  <2>1. N > 0 => Marked[N] = WithMarker(Last, TRUE) /\ Marked[N] \in Row
    BY Changed, LastRow, MarkerRow
  <2>2. N > 0 /\ Current(h) /\ LastBecomes(WithMarker(Last, TRUE))
    BY <1>0, <1>2, <2>1, OwnWrite
  <2>3. PICK row : row = WithMarker(Last, TRUE)
    OBVIOUS
  <2>4. SameClaim(Last, row) /\ row.marked = TRUE
    BY <2>2, <2>3, LastRow, MarkerRow
  <2>5. N' = N /\ Last' = row
    BY <2>2, <2>3, LastNext
  <2>6. Evidence'
    BY <2>2, <2>4, <2>5 DEF Evidence
  <2>7. creates = 0 /\ ~ Creating
    <3>1. ~ Last.known /\ ~ Last.marked
      BY <1>0, <2>2, CreateForm DEF KnowsRow
    <3>2. creates \in Nat
      BY DEF TypeInv, TypeOK
    <3> QED
      BY <3>1, <3>2, CreateForm DEF CreateParts, Evidence
  <2>8. PICK p \in {"thrown", "creating"} : Enter(h, p)
    BY <1>2 DEF Mark
  <2>9. PICK k : MovesTo(h, p, k)
    BY <2>8, EnterMoves DEF Phases
  <2>10. \A g \in handlers' : Current(g)' => KnowsRow(g)'
    <3>1. k.phase \notin {"start", "refused"}
      BY <2>8, <2>9 DEF MovesTo
    <3>2. LastBecomes(row)
      BY <2>2, <2>3
    <3>3. \A g \in handlers' : Current(g)' => g = k
      BY <2>2, <2>4, <2>9, <3>2, OthersLapsed
    <3> QED
      BY <3>1, <3>3 DEF KnowsRow
  <2>11. \A g \in handlers' : g.phase = "creating" => g = k
    BY <2>7, <2>9 DEF MovesTo, Creating
  <2>12. CreateParts'
    BY <1>0, <2>6, <2>7, <2>11 DEF CreateParts
  <2> QED
    BY <2>10, <2>12, CreateForm
<1> QED
  BY <1>1, <1>2 DEF Mark

LEMMA CreateCreateStep ==
  ASSUME TypeInv, CreateInv, NEW h \in handlers, Create(h)
  PROVE  CreateInv'
<1>0. h.phase = "creating" /\ creates = 0 /\ creates' \in {0, 1} /\ rows' = rows
  BY CreateForm DEF Create, CreateParts, NoWrite
<1>1. PICK p \in {"created", "refused", "thrown"} :
        Enter(h, p) /\ (p = "refused" => creates' = 0)
  BY <1>0 DEF Create
<1>2. PICK k : MovesTo(h, p, k)
  BY <1>1, EnterMoves DEF Phases
<1>3. N' = N /\ Last' = Last
  BY <1>0, LastStays
<1>4. ~ Creating'
  <2>1. \A g \in handlers : g.phase = "creating" => g = h
    BY <1>0, CreateForm DEF CreateParts
  <2> QED
    BY <1>1, <1>2, <2>1 DEF Creating, MovesTo
<1>5. Evidence'
  <2>1. Creating
    BY <1>0 DEF Creating
  <2> QED
    BY <1>3, <2>1, CreateForm DEF CreateParts, Evidence
<1>6. CreateParts'
  BY <1>0, <1>4, <1>5 DEF CreateParts, Creating
<1>7. ASSUME NEW g \in handlers', Current(g)'
      PROVE  KnowsRow(g)'
  <2>1. CASE g = k
    BY <1>1, <1>2, <1>4, <2>1 DEF KnowsRow, MovesTo
  <2>2. CASE g \in handlers
    <3>1. Current(g)
      BY <1>3, <1>7 DEF Current
    <3>2. KnowsRow(g) /\ Creating
      BY <1>0, <2>2, <3>1, CreateForm DEF Creating
    <3> QED
      BY <1>3, <3>2 DEF KnowsRow
  <2> QED
    BY <1>2, <1>7, <2>1, <2>2 DEF MovesTo
<1> QED
  BY <1>6, <1>7, CreateForm

LEMMA RetractCreateStep ==
  ASSUME TypeInv, CreateInv, CreateClean', NEW h \in handlers, Retract(h)
  PROVE  CreateInv'
<1>0. creates' = creates /\ h.phase = "refused" /\ "crossed" \notin slips'
  BY DEF Retract, CreateClean
<1>1. PICK k : MovesTo(h, "thrown", k)
  BY EnterMoves DEF Retract, Phases
<1>2. CASE rows' = rows
  BY <1>0, <1>1, <1>2, MovedCreateStill
<1>3. CASE Write(h, Unmarked) /\ rows' # rows
  <2>1. N > 0 => Unmarked[N] = WithMarker(Last, FALSE) /\ Unmarked[N] \in Row
    BY Changed, LastRow, MarkerRow
  <2>2. N > 0 /\ Current(h) /\ LastBecomes(WithMarker(Last, FALSE))
    BY <1>0, <1>3, <2>1, OwnWrite
  <2>3. PICK row : row = WithMarker(Last, FALSE)
    OBVIOUS
  <2>4. SameClaim(Last, row)
    BY <2>2, <2>3, LastRow, MarkerRow
  <2>5. creates = 0 /\ ~ Creating
    BY <1>0, <2>2, CreateForm DEF KnowsRow
  <2>6. ~ Creating'
    BY <1>1, <2>5 DEF Creating, MovesTo
  <2>7. \A g \in handlers' : Current(g)' => KnowsRow(g)'
    BY <1>1, <2>2, <2>3, <2>4, OthersLapsed DEF KnowsRow, MovesTo
  <2>8. CreateParts'
    BY <1>0, <2>5, <2>6 DEF CreateParts, Creating
  <2> QED
    BY <2>7, <2>8, CreateForm
<1> QED
  BY <1>2, <1>3 DEF Retract, NoWrite

LEMMA CheckpointCreateStep ==
  ASSUME TypeInv, CreateInv, CreateClean', NEW h \in handlers, Checkpoint(h)
  PROVE  CreateInv'
<1>0. creates' = creates /\ "crossed" \notin slips'
  BY DEF Checkpoint, CreateClean
<1>1. PICK p \in {"uploading", "thrown"} : Enter(h, p)
  BY DEF Checkpoint
<1>2. PICK k : MovesTo(h, p, k)
  BY <1>1, EnterMoves DEF Phases
<1>3. CASE rows' = rows
  BY <1>0, <1>1, <1>2, <1>3, MovedCreateStill
<1>4. CASE Write(h, Checkpointed) /\ rows' # rows
  <2>1. N > 0 => Checkpointed[N] = Learned(Last) /\ Checkpointed[N] \in Row
    BY Changed, LastRow, LearnedRow
  <2>2. N > 0 /\ Current(h) /\ LastBecomes(Learned(Last))
    BY <1>0, <1>4, <2>1, OwnWrite
  <2>3. PICK row : row = Learned(Last)
    OBVIOUS
  <2>4. SameClaim(Last, row) /\ row.known = TRUE
    BY <2>2, <2>3, LastRow, LearnedRow
  <2>5. N' = N /\ Last' = row
    BY <2>2, <2>3, LastNext
  <2>6. Evidence'
    BY <2>2, <2>4, <2>5 DEF Evidence
  <2>7. \A g \in handlers' : Current(g)' => g = k
    BY <1>2, <2>2, <2>3, <2>4, OthersLapsed
  <2>8. k.phase \notin {"start", "refused", "creating"}
    BY <1>1, <1>2 DEF MovesTo
  <2>9. NoNewCreating
    BY <1>2, <2>8 DEF NoNewCreating, MovesTo
  <2> QED
    BY <1>0, <2>6, <2>7, <2>8, <2>9, CreateQuiet
<1> QED
  BY <1>3, <1>4 DEF Checkpoint, NoWrite

LEMMA FoldCreateStep ==
  ASSUME TypeInv, CreateInv, CreateClean', NEW h \in handlers, Fold(h)
  PROVE  CreateInv'
<1>0. creates' = creates /\ "crossed" \notin slips'
  BY DEF Fold, CreateClean
<1>1. PICK p \in {"buried", "finished", "thrown"} : Enter(h, p)
  BY DEF Fold
<1>2. PICK k : MovesTo(h, p, k)
  BY <1>1, EnterMoves DEF Phases
<1>3. CASE rows' = rows
  BY <1>0, <1>1, <1>2, <1>3, MovedCreateStill
<1>4. CASE Write(h, Folded) /\ rows' # rows
  <2>1. ASSUME N > 0
        PROVE  /\ Folded[N] \in Row
               /\ SameCreate(Last, Folded[N]) /\ SameClaim(Last, Folded[N])
    <3>1. CASE Last.extra = {}
      BY <2>1, <3>1, Changed, LastRow DEF SameCreate, SameClaim
    <3>2. CASE Last.extra # {}
      BY <2>1, <3>2, Changed, LastRow, FoldedRowIs
    <3> QED
      BY <3>1, <3>2
  <2>2. N > 0 /\ LastBecomes(Folded[N])
    BY <1>0, <1>4, <2>1, OwnWrite
  <2>3. PICK row : row = Folded[N]
    OBVIOUS
  <2>4. LastBecomes(row) /\ SameCreate(Last, row) /\ SameClaim(Last, row)
    BY <2>1, <2>2, <2>3
  <2> QED
    BY <1>0, <1>1, <1>2, <2>4, MovedCreateStill
<1> QED
  BY <1>3, <1>4 DEF Fold, NoWrite

LEMMA HandlerCreateStep ==
  ASSUME TypeInv, CreateInv, CreateClean', NEW h \in handlers, HandlerStep(h)
  PROVE  CreateInv'
<1>1. CASE Bury(h)
  <2>1. rows' = rows /\ creates' = creates /\ Enter(h, "buried")
    BY <1>1 DEF Bury, NoWrite
  <2>2. PICK k : MovesTo(h, "buried", k)
    BY <2>1, EnterMoves DEF Phases
  <2> QED
    BY <2>1, <2>2, MovedCreateStill
<1>2. CASE Resume(h)
  <2>1. rows' = rows /\ creates' = creates /\ Enter(h, "uploading")
    BY <1>2 DEF Resume, NoWrite
  <2>2. PICK k : MovesTo(h, "uploading", k)
    BY <2>1, EnterMoves DEF Phases
  <2> QED
    BY <2>1, <2>2, MovedCreateStill
<1>3. CASE Upload(h)
  <2>1. rows' = rows /\ creates' = creates
    BY <1>3 DEF Upload, NoWrite
  <2>2. PICK p \in {"uploaded", "thrown"} : Enter(h, p)
    BY <1>3 DEF Upload
  <2>3. PICK k : MovesTo(h, p, k)
    BY <2>2, EnterMoves DEF Phases
  <2> QED
    BY <2>1, <2>2, <2>3, MovedCreateStill
<1>4. CASE Settle(h)
  <2>1. creates' = creates /\ handlers' \subseteq handlers
    BY <1>4 DEF Settle
  <2>2. CASE rows' = rows
    BY <2>1, <2>2, CreateStillRows
  <2>3. CASE /\ N > 0 /\ Outcome(h) \in {"completed", "dead", "pending"}
             /\ LastBecomes(WithStatus(Last, Outcome(h)))
    <3>1. PICK row : row = WithStatus(Last, Outcome(h))
      OBVIOUS
    <3>2. SameCreate(Last, row) /\ row.status # "processing"
      BY <2>3, <3>1, LastRow, StatusRow
    <3> QED
      BY <2>1, <2>3, <3>1, <3>2, CreateStillLast
  <2> QED
    BY <1>4, <2>2, <2>3, SettleEffect
<1> QED
  BY <1>1, <1>2, <1>3, <1>4, MarkCreateStep, CreateCreateStep, RetractCreateStep,
     CheckpointCreateStep, FoldCreateStep
     DEF HandlerStep

\* The windows, once hit, stay on record.
LEMMA SlipsGrow ==
  ASSUME [Next]_vars
  PROVE  slips \subseteq slips'
<1>1. ASSUME NEW call \in calls, CallStep(call)
      PROVE  slips \subseteq slips'
  BY <1>1 DEF CallStep, Amend, Supersede, Record, Refuse, Enqueue
<1>2. ASSUME NEW h \in handlers, HandlerStep(h)
      PROVE  slips \subseteq slips'
  BY <1>2 DEF HandlerStep, Bury, Resume, Mark, Create, Retract, Checkpoint, Upload, Fold,
              Settle, Write, NoWrite
<1>3. ASSUME NEW i \in Rows,
             Claim(i) \/ (\E died \in BOOLEAN : Redeliver(i, died)) \/ Alert(i) \/ Repair(i)
      PROVE  slips \subseteq slips'
  BY <1>3 DEF Claim, Redeliver, Alert, Repair
<1>4. ASSUME NEW S, Look(S)
      PROVE  slips \subseteq slips'
  BY <1>4 DEF Look
<1> QED
  BY <1>1, <1>2, <1>3, <1>4 DEF Next, vars

LEMMA CreateStep ==
  ASSUME TypeInv, CreateSafe, [Next]_vars
  PROVE  CreateSafe'
<1>1. SUFFICES ASSUME CreateClean' PROVE CreateInv'
  BY DEF CreateSafe
<1>2. CreateInv
  BY <1>1, SlipsGrow DEF CreateSafe, CreateClean
<1>3. CASE UNCHANGED vars
  BY <1>2, <1>3, CreateStillRows DEF vars
<1>4. ASSUME NEW S, Look(S)
      PROVE  CreateInv'
  BY <1>2, <1>4, CreateStillRows DEF Look
<1> QED
  BY <1>1, <1>2, <1>3, <1>4, CallCreateStep, HandlerCreateStep, ClaimCreateStep, RowCreateStep
     DEF Next

\* At most one create of the walk reaches TROCK Scope, whatever dies, expires,
\* is replaced, repeated or repaired around it, as long as no handler's write
\* crosses to another claim and no replacement is made from an outdated read
\* (markScopeCreatePending, checkpointScopeWalkthroughId, the inheriting insert).
THEOREM OneCreatePerWalk == Spec => []OneCreate
<1>1. Init => CreateSafe
  BY ForwardAssumption DEF Init, CreateSafe, CreateInv, Creating
<1>2. CreateSafe => OneCreate
  BY DEF CreateSafe, CreateClean, CreateInv, OneCreate
<1>3. Spec => [](TypeInv /\ CreateSafe)
  BY <1>1, GlassesTypeInit, GlassesTypeStep, CreateStep, PTL DEF Spec
<1> QED
  BY <1>2, <1>3, PTL

-----------------------------------------------------------------------------
(* No clip is lost *)

\* Where the clips the phone was told are filed may be.
Kept ==
  /\ N = 0 => acked = {}
  /\ N > 0 => /\ acked \subseteq delivered \cup Last.artifacts \cup Last.extra
              /\ Last.status = "completed" => acked \cup Last.artifacts \subseteq delivered

LEMMA ClipForm ==
  /\ ClipInv <=> Kept /\ \A h \in handlers : Current(h) => WorksRow(h)
  /\ ClipInv' <=> Kept' /\ \A h \in handlers' : Current(h)' => WorksRow(h)'
BY DEF ClipInv, Kept

\* A step that leaves the lists alone.
LEMMA ClipQuiet ==
  ASSUME ClipInv, delivered \subseteq delivered', acked' = acked,
         N' = N, SameLists(Last, Last'),
         N > 0 /\ Last'.status = "completed" => Last.status = "completed",
         \A g \in handlers' : Current(g)' => WorksRow(g)' \/ (g \in handlers /\ Current(g))
  PROVE  ClipInv'
<1>1. Kept'
  BY ClipForm DEF Kept, SameLists
<1>2. ASSUME NEW g \in handlers, WorksRow(g)
      PROVE  WorksRow(g)'
  BY <1>2 DEF WorksRow, SameLists
<1>3. \A g \in handlers' : Current(g)' => WorksRow(g)'
  BY <1>2, ClipForm
<1> QED
  BY <1>1, <1>3, ClipForm

LEMMA ClipStillRows ==
  ASSUME ClipInv, rows' = rows, delivered \subseteq delivered', acked' = acked,
         \A g \in handlers' : Current(g)' => WorksRow(g)' \/ g \in handlers
  PROVE  ClipInv'
<1>1. N' = N /\ Last' = Last
  BY LastStays
<1>2. \A g : Current(g)' => Current(g)
  BY <1>1 DEF Current
<1> QED
  BY <1>1, <1>2, ClipQuiet DEF SameLists

LEMMA ClipStillLast ==
  ASSUME ClipInv, delivered \subseteq delivered', acked' = acked,
         NEW row, LastBecomes(row), SameLists(Last, row),
         row.status = "completed" => Last.status = "completed",
         row.status = "processing" => SameClaim(Last, row),
         \A g \in handlers' : Current(g)' => WorksRow(g)' \/ g \in handlers
  PROVE  ClipInv'
<1>1. N' = N /\ Last' = row
  BY LastNext
<1>2. \A g : Current(g)' => Current(g)
  BY <1>1 DEF Current, SameClaim
<1> QED
  BY <1>1, <1>2, ClipQuiet

\* A handler on its way, which has not come to its uploads' end.
LEMMA MovedClipStill ==
  ASSUME TypeInv, ClipInv, NEW h \in handlers, NEW p, NEW k, MovesTo(h, p, k),
         h.phase \notin {"thrown", "buried"}, p \notin {"uploaded", "finished"},
         delivered \subseteq delivered', acked' = acked,
         \/ rows' = rows
         \/ \E row : LastBecomes(row) /\ SameLists(Last, row) /\ SameClaim(Last, row)
  PROVE  ClipInv'
<1>1. ASSUME N' = N, SameLists(Last, Last'), SameClaim(Last, Last')
      PROVE  \A g \in handlers' : Current(g)' => WorksRow(g)' \/ g \in handlers
  <2> SUFFICES ASSUME NEW g \in handlers', Current(g)'
               PROVE  WorksRow(g)' \/ g \in handlers
    OBVIOUS
  <2>1. CASE g = k
    <3>1. k.row = h.row /\ k.att = h.att /\ k.todo = h.todo /\ k.phase = p
      BY DEF MovesTo
    <3>2. Current(h)
      BY <1>1, <2>1, <3>1 DEF Current, SameClaim
    <3>3. h.todo = Last.artifacts
      BY <3>2, ClipForm DEF WorksRow
    <3>4. WorksRow(g)'
      BY <1>1, <2>1, <3>1, <3>3 DEF WorksRow, SameLists
    <3> QED
      BY <3>4
  <2>2. CASE g # k
    BY <2>2 DEF MovesTo
  <2> QED
    BY <2>1, <2>2
<1>2. CASE rows' = rows
  <2>1. N' = N /\ Last' = Last
    BY <1>2, LastStays
  <2> QED
    BY <1>1, <1>2, <2>1, ClipStillRows DEF SameLists, SameClaim
<1>3. ASSUME NEW row, LastBecomes(row), SameLists(Last, row), SameClaim(Last, row)
      PROVE  ClipInv'
  <2>1. N' = N /\ Last' = row
    BY <1>3, LastNext
  <2>2. row.status = "completed" => Last.status = "completed"
    BY <1>3 DEF SameClaim
  <2> QED
    BY <1>1, <1>3, <2>1, <2>2, ClipStillLast
<1> QED
  BY <1>2, <1>3

\* A live row is the last, and its list is delivered once it is completed.
LEMMA LiveListKept ==
  ASSUME TypeInv, ClipInv, NEW i \in LiveRows, NEW S, S \subseteq rows[i].artifacts,
         acked' = acked \/ acked' = acked \cup S,
         rows' = rows, handlers' = handlers, delivered' = delivered
  PROVE  ClipInv'
<1>1. i = N /\ N > 0 /\ rows[i] = Last
  BY ActiveIsLast DEF LiveRows, Live
<1>2. N' = N /\ Last' = Last
  BY LastStays
<1>3. Kept'
  BY <1>1, <1>2, ClipForm DEF Kept
<1>4. \A h \in handlers' : Current(h)' => WorksRow(h)'
  BY <1>2, ClipForm DEF Current, WorksRow
<1> QED
  BY <1>3, <1>4, ClipForm

LEMMA CallClipStep ==
  ASSUME TypeInv, ClipInv, ClipClean', NEW call \in calls, CallStep(call)
  PROVE  ClipInv'
<1>0. handlers' = handlers /\ delivered' = delivered /\ call \in Call
  BY DEF CallStep, Amend, Supersede, Record, Refuse, Enqueue, CallFrame, TypeInv, TypeOK
<1>1. CASE Amend(call)
  <2>1. /\ N > 0 /\ Last.status = "pending"
        /\ Last.artifacts \cup call.seen \cup call.clips \subseteq Clips
        /\ LastBecomes(WithList(Last, Last.artifacts \cup call.seen \cup call.clips))
    BY <1>1, AmendEffect
  <2>2. PICK row : row = WithList(Last, Last.artifacts \cup call.seen \cup call.clips)
    OBVIOUS
  <2>3. /\ row.artifacts = Last.artifacts \cup call.seen \cup call.clips
        /\ row.extra = Last.extra /\ row.status = "pending"
    BY <2>1, <2>2, LastRow, ListRow DEF SameClaim
  <2>4. N' = N /\ Last' = row
    BY <2>1, <2>2, LastNext
  <2>5. Kept'
    BY <1>0, <1>1, <2>1, <2>3, <2>4, ClipForm DEF Kept, Amend, Answer
  <2>6. \A h : ~ Current(h)'
    BY <2>3, <2>4 DEF Current
  <2> QED
    BY <2>5, <2>6, ClipForm
<1>2. CASE Supersede(call)
  <2>1. /\ N > 0 /\ Last.status = "completed"
        /\ call.seen \cup call.clips \subseteq Clips
        /\ LastBecomes(Closed(Last, call.seen \cup call.clips))
    BY <1>2, SupersedeEffect
  <2>2. PICK row : row = Closed(Last, call.seen \cup call.clips)
    OBVIOUS
  <2>3. row.artifacts = call.seen \cup call.clips /\ row.status = "dead"
    BY <2>1, <2>2, LastRow, ClosedRow
  <2>4. N' = N /\ Last' = row
    BY <2>1, <2>2, LastNext
  <2>5. Kept'
    BY <1>0, <1>2, <2>1, <2>3, <2>4, ClipForm DEF Kept, Supersede, Answer
  <2>6. \A h : ~ Current(h)'
    BY <2>3, <2>4 DEF Current
  <2> QED
    BY <2>5, <2>6, ClipForm
<1>3. CASE Record(call)
  <2>1. /\ N > 0 /\ Last.status = "processing" /\ call.row = N
        /\ Last.extra \cup Last.artifacts \cup call.seen \cup call.clips \subseteq Clips
        /\ LastBecomes(WithExtra(Last,
             Last.extra \cup Last.artifacts \cup call.seen \cup call.clips))
    BY <1>3, RecordEffect
  <2>2. PICK row : row = WithExtra(Last,
                     Last.extra \cup Last.artifacts \cup call.seen \cup call.clips)
    OBVIOUS
  <2>3. /\ row.extra = Last.extra \cup Last.artifacts \cup call.seen \cup call.clips
        /\ row.artifacts = Last.artifacts
        /\ row.status = "processing" /\ row.attempts = Last.attempts
    BY <2>1, <2>2, LastRow, ExtraRow DEF SameClaim
  <2>4. N' = N /\ Last' = row
    BY <2>1, <2>2, LastNext
  <2>5. Kept'
    BY <1>0, <1>3, <2>1, <2>3, <2>4, ClipForm DEF Kept, Record, Answer
  <2>6. ASSUME NEW g \in handlers', Current(g)'
        PROVE  WorksRow(g)'
    <3>1. Current(g) /\ g \in handlers
      BY <1>0, <2>1, <2>3, <2>4, <2>6 DEF Current
    <3>2. g.phase # "finished"
      <4>1. Missed(N) = {}
        BY <1>3, <2>1 DEF Record, ClipClean, Missed
      <4>2. N \in Hits(g) /\ g.row = N
        BY <2>1, <3>1, LastRow DEF Hits, Current, Last
      <4> QED
        BY <3>1, <4>1, <4>2 DEF Missed
    <3> QED
      BY <1>0, <2>3, <2>4, <3>1, <3>2, ClipForm DEF WorksRow
  <2> QED
    BY <2>5, <2>6, ClipForm
<1>4. CASE Refuse(call)
  BY <1>0, <1>4, ClipStillRows DEF Refuse
<1>5. CASE EnqueuesNothing(call)
  <2>1. PICK i \in LiveRows :
          \/ call.clips \subseteq rows[i].artifacts /\ Answer(call)
          \/ UNCHANGED acked
    BY <1>5 DEF EnqueuesNothing
  <2>2. rows' = rows
    BY <1>5 DEF EnqueuesNothing
  <2>3. CASE acked' = acked
    BY <1>0, <2>2, <2>3, ClipStillRows
  <2>4. CASE call.clips \subseteq rows[i].artifacts /\ acked' = acked \cup call.clips
    BY <1>0, <2>2, <2>4, LiveListKept
  <2> QED
    BY <2>1, <2>3, <2>4 DEF Answer
<1>6. CASE EnqueuesNew(call)
  <2>1. N \in Nat /\ Rows = 1 .. N
    BY RowsTyped
  <2>2. N' = N + 1 /\ Last' = NewRow(call)
    BY NewEffect, <1>6 DEF N, Last
  <2>3. Inherited \subseteq call.seen
    BY <1>6 DEF EnqueuesNew, ClipClean, OutOfDate
  <2>4. Last'.status = "pending" /\ Last'.artifacts = call.seen \cup call.clips
    BY <1>0, <2>2, NewRowType, Counters
  <2>5. acked \subseteq delivered \cup call.seen
    <3>1. CASE N = 0
      BY <3>1, ClipForm DEF Kept
    <3>2. CASE N > 0
      <4>1. N \in Rows /\ Last = rows[N]
        BY <2>1, <3>2 DEF Last
      <4>2. N \in DeadRows
        BY <1>6, <4>1 DEF DeadRows, EnqueuesNew
      <4>3. Last.artifacts \cup Last.extra \subseteq Inherited
        BY <4>1, <4>2 DEF Inherited
      <4> QED
        BY <2>3, <3>2, <4>3, ClipForm DEF Kept
    <3> QED
      BY <2>1, <3>1, <3>2
  <2>6. acked' = acked \cup call.clips
    BY <1>6 DEF EnqueuesNew, Answer
  <2>7. Kept'
    BY <1>0, <2>1, <2>2, <2>4, <2>5, <2>6 DEF Kept
  <2>8. \A h : ~ Current(h)'
    BY <2>4 DEF Current
  <2> QED
    BY <2>7, <2>8, ClipForm
<1> QED
  BY <1>1, <1>2, <1>3, <1>4, <1>5, <1>6, EnqueueCases DEF CallStep

LEMMA ClaimClipStep ==
  ASSUME TypeInv, ClipInv, NEW i \in Rows, Claim(i)
  PROVE  ClipInv'
<1>1. PICK a \in Attempts : a = Last.attempts + 1
  BY ClaimEffect
<1>2. N > 0 /\ Last.status = "pending" /\ LastBecomes(Claimed(Last, a))
  BY <1>1, ClaimEffect
<1>3. PICK k \in Handler :
        /\ handlers' = handlers \cup {k} /\ k.phase = "start" /\ k.todo = Last.artifacts
  BY ClaimEffect
<1>4. PICK row : row = Claimed(Last, a)
  OBVIOUS
<1>5. row.attempts = a /\ SameLists(Last, row) /\ row.status = "processing"
  BY <1>2, <1>4, LastRow, ClaimedRow
<1>6. N' = N /\ Last' = row
  BY <1>2, <1>4, LastNext
<1>7. \A g \in handlers : ~ Current(g)'
  <2>1. \A g \in handlers : g.att \in Nat /\ (g.row = N => g.att <= Last.attempts)
    BY Counters DEF TypeInv, TypeOK, Handler, Attempts, OneHandler, Last
  <2> QED
    BY <1>1, <1>2, <1>5, <1>6, <2>1, LastRow DEF Current
<1>8. WorksRow(k)'
  BY <1>3, <1>5, <1>6 DEF WorksRow, SameLists
<1>9. \A g \in handlers' : Current(g)' => WorksRow(g)' \/ (g \in handlers /\ Current(g))
  BY <1>3, <1>7, <1>8
<1>10. delivered' = delivered /\ acked' = acked
  BY DEF Claim
<1> QED
  BY <1>5, <1>6, <1>9, <1>10, ClipQuiet

LEMMA RowClipStep ==
  ASSUME TypeInv, ClipInv, NEW i \in Rows,
         (\E died \in BOOLEAN : Redeliver(i, died)) \/ Alert(i) \/ Repair(i)
  PROVE  ClipInv'
<1>1. delivered' = delivered /\ acked' = acked /\ handlers' \subseteq handlers
  BY DEF Redeliver, Alert, Repair
<1>2. ASSUME NEW row, LastBecomes(row), SameLists(Last, row), row.status \in {"pending", "dead"}
      PROVE  ClipInv'
  BY <1>1, <1>2, ClipStillLast
<1>3. ASSUME NEW died \in BOOLEAN, Redeliver(i, died)
      PROVE  ClipInv'
  BY <1>2, <1>3, RedeliverEffect, LastRow, StatusRow
<1>4. CASE Alert(i)
  BY <1>2, <1>4, AlertEffect, LastRow, AnnouncedRow DEF SameClaim
<1>5. CASE Repair(i)
  <2>1. N > 0 /\ Last \in Row
    BY <1>5, RepairEffect, LastRow
  <2>2. CASE LastBecomes(WithStatus(Last, "pending"))
    BY <1>2, <2>1, <2>2, StatusRow
  <2>3. ASSUME NEW k \in BOOLEAN, LastBecomes(Repaired(Last, k))
        PROVE  ClipInv'
    BY <1>2, <2>1, <2>3, RepairedRow
  <2> QED
    BY <1>5, <2>2, <2>3, RepairEffect
<1> QED
  BY <1>3, <1>4, <1>5

\* A handler whose move is none of another's business.
LEMMA MovedClip ==
  ASSUME TypeInv, ClipInv, NEW h \in handlers, NEW p, NEW k, MovesTo(h, p, k),
         delivered \subseteq delivered', acked' = acked, rows' = rows,
         Current(h) => WorksRow(k)'
  PROVE  ClipInv'
<1>1. N' = N /\ Last' = Last
  BY LastStays
<1>2. k.row = h.row /\ k.att = h.att
  BY DEF MovesTo
<1>3. Current(k)' => Current(h)
  BY <1>1, <1>2 DEF Current
<1>4. \A g \in handlers' : Current(g)' => WorksRow(g)' \/ g \in handlers
  BY <1>3 DEF MovesTo
<1> QED
  BY <1>4, ClipStillRows

LEMMA UploadClipStep ==
  ASSUME TypeInv, ClipInv, NEW h \in handlers, Upload(h), acked' = acked
  PROVE  ClipInv'
<1>0. h.phase = "uploading" /\ rows' = rows
  BY DEF Upload, NoWrite
<1>1. ASSUME NEW p \in {"uploaded", "thrown"}, Enter(h, p), delivered \subseteq delivered',
             p = "uploaded" => h.todo \subseteq delivered', acked' = acked
      PROVE  ClipInv'
  <2>1. PICK k : MovesTo(h, p, k)
    BY <1>1, EnterMoves DEF Phases
  <2>2. Last' = Last
    BY <1>0, LastStays
  <2>3. Current(h) => WorksRow(k)'
    BY <1>0, <1>1, <2>1, <2>2, ClipForm DEF WorksRow, MovesTo
  <2> QED
    BY <1>0, <1>1, <2>1, <2>3, MovedClip
<1> QED
  BY <1>1 DEF Upload

LEMMA FoldClipStep ==
  ASSUME TypeInv, ClipInv, ClipClean', NEW h \in handlers, Fold(h),
         delivered' = delivered, acked' = acked
  PROVE  ClipInv'
<1>0. h.phase = "uploaded" /\ "crossed" \notin slips'
  BY DEF Fold, ClipClean
<1>1. CASE NoWrite /\ Enter(h, "thrown")
  <2>1. PICK k : MovesTo(h, "thrown", k)
    BY <1>1, EnterMoves DEF Phases
  <2> QED
    BY <1>0, <1>1, <2>1, MovedClipStill DEF NoWrite
<1>2. ASSUME Write(h, Folded), NEW p \in {"finished", "buried", "thrown"}, Enter(h, p),
             p = "finished" => \A i \in Hits(h) : rows[i].extra = {}
      PROVE  ClipInv'
  <2>1. PICK k : MovesTo(h, p, k)
    BY <1>2, EnterMoves DEF Phases
  <2>2. k.row = h.row /\ k.att = h.att /\ k.todo = h.todo /\ k.phase = p
    BY <2>1 DEF MovesTo
  <2>3. ASSUME N > 0
        PROVE  /\ Folded[N] \in Row
               /\ Last.extra = {} => Folded[N] = Last
               /\ Last.extra # {} =>
                    /\ Folded[N].artifacts = Last.artifacts \cup Last.extra
                    /\ Folded[N].extra = {} /\ SameClaim(Last, Folded[N])
    BY <2>3, Changed, LastRow, FoldedRowIs
  <2>4. CASE Hits(h) = {} /\ rows' = rows
    <3>1. ~ Current(h)
      <4>1. h.row \in Rows
        BY DEF TypeInv, OneHandler
      <4> QED
        BY <2>4, <4>1 DEF Current, Hits, Last
    <3> QED
      BY <2>1, <2>4, <3>1, MovedClip
  <2>5. CASE Hits(h) = {N} /\ N > 0 /\ Current(h) /\ LastBecomes(Folded[N])
    <3>1. PICK row : row = Folded[N]
      OBVIOUS
    <3>2. LastBecomes(row) /\ SameClaim(Last, row)
      BY <2>3, <2>5, <3>1 DEF SameClaim
    <3>3. N' = N /\ Last' = row
      BY <3>2, LastNext
    <3>4. \A g \in handlers' : Current(g)' => g = k
      BY <2>1, <2>5, <3>2, OthersLapsed
    <3>5. h.todo = Last.artifacts /\ h.todo \subseteq delivered
      BY <1>0, <2>5, ClipForm DEF WorksRow
    <3>6. Last = rows[N]
      BY DEF Last
    <3>7. CASE Last.extra = {}
      <4>1. row = Last
        BY <2>3, <2>5, <3>1, <3>7
      <4>2. WorksRow(k)'
        BY <2>2, <3>3, <3>5, <3>7, <4>1 DEF WorksRow
      <4>3. SameLists(Last, row) /\ (row.status = "completed" => Last.status = "completed")
        BY <4>1 DEF SameLists
      <4>4. \A g \in handlers' : Current(g)' => WorksRow(g)' \/ g \in handlers
        BY <3>4, <4>2
      <4> QED
        BY <3>2, <4>3, <4>4, ClipStillLast
    <3>8. CASE Last.extra # {}
      <4>1. p # "finished"
        BY <1>2, <2>5, <3>6, <3>8
      <4>2. WorksRow(k)'
        BY <1>2, <2>2, <4>1 DEF WorksRow
      <4>3. row.artifacts = Last.artifacts \cup Last.extra /\ row.status = Last.status
        BY <2>3, <2>5, <3>1, <3>8 DEF SameClaim
      <4>4. Last.status = "processing"
        BY <2>5 DEF Current
      <4>5. Kept'
        BY <2>5, <3>3, <4>3, <4>4, ClipForm DEF Kept
      <4>6. \A g \in handlers' : Current(g)' => WorksRow(g)'
        BY <3>4, <4>2
      <4> QED
        BY <4>5, <4>6, ClipForm
    <3> QED
      BY <3>7, <3>8
  <2> QED
    BY <1>0, <1>2, <2>3, <2>4, <2>5, OwnWrite
<1>3. CASE /\ Write(h, Folded)
           /\ Enter(h, IF \E i \in Hits(h) : rows[i].extra # {} THEN "buried" ELSE "finished")
  <2>1. CASE \E i \in Hits(h) : rows[i].extra # {}
    BY <1>2, <1>3, <2>1
  <2>2. CASE ~ \E i \in Hits(h) : rows[i].extra # {}
    BY <1>2, <1>3, <2>2
  <2> QED
    BY <2>1, <2>2
<1>4. CASE Write(h, Folded) /\ Enter(h, "thrown")
  BY <1>2, <1>4
<1> QED
  BY <1>1, <1>3, <1>4 DEF Fold

LEMMA SettleClipStep ==
  ASSUME TypeInv, ClipInv, NEW h \in handlers, Settle(h), acked' = acked
  PROVE  ClipInv'
<1>1. handlers' \subseteq handlers /\ delivered' = delivered
  BY DEF Settle
<1>2. CASE rows' = rows
  BY <1>1, <1>2, ClipStillRows
<1>3. CASE /\ Current(h) /\ N > 0 /\ Outcome(h) \in {"completed", "dead", "pending"}
           /\ Outcome(h) = "completed" => h.phase = "finished"
           /\ LastBecomes(WithStatus(Last, Outcome(h)))
  <2>1. PICK row : row = WithStatus(Last, Outcome(h))
    OBVIOUS
  <2>2. SameLists(Last, row) /\ row.status = Outcome(h)
    BY <1>3, <2>1, LastRow, StatusRow
  <2>3. CASE Outcome(h) # "completed"
    BY <1>1, <1>3, <2>1, <2>2, <2>3, ClipStillLast
  <2>4. CASE Outcome(h) = "completed"
    <3>1. N' = N /\ Last' = row
      BY <1>3, <2>1, LastNext
    <3>2. h.todo = Last.artifacts /\ h.todo \subseteq delivered /\ Last.extra = {}
      BY <1>3, <2>4, ClipForm DEF WorksRow
    <3>3. acked \subseteq delivered
      BY <1>3, <3>2, ClipForm DEF Kept
    <3>4. Kept'
      BY <1>1, <1>3, <2>2, <3>1, <3>2, <3>3 DEF Kept, SameLists
    <3>5. \A g : ~ Current(g)'
      BY <2>2, <2>4, <3>1 DEF Current
    <3> QED
      BY <3>4, <3>5, ClipForm
  <2> QED
    BY <2>3, <2>4
<1> QED
  BY <1>2, <1>3, SettleEffect

\* The writes that concern the create alone.
LEMMA CreateWrite ==
  ASSUME TypeInv, NEW h \in handlers, "crossed" \notin slips',
         \/ Write(h, Marked)
         \/ Write(h, Unmarked)
         \/ Write(h, Checkpointed)
         \/ NoWrite
  PROVE  \/ rows' = rows
         \/ \E row : LastBecomes(row) /\ SameLists(Last, row) /\ SameClaim(Last, row)
<1>1. ASSUME NEW changed, Write(h, changed),
             N > 0 => /\ changed[N] \in Row
                      /\ SameLists(Last, changed[N]) /\ SameClaim(Last, changed[N])
      PROVE  \/ rows' = rows
             \/ \E row : LastBecomes(row) /\ SameLists(Last, row) /\ SameClaim(Last, row)
  <2>1. CASE rows' = rows
    BY <2>1
  <2>2. CASE N > 0 /\ LastBecomes(changed[N])
    <3>1. PICK row : row = changed[N]
      OBVIOUS
    <3>2. LastBecomes(row) /\ SameLists(Last, row) /\ SameClaim(Last, row)
      BY <1>1, <2>2, <3>1
    <3> QED
      BY <3>2
  <2> QED
    BY <1>1, <2>1, <2>2, OwnWrite
<1>2. CASE Write(h, Marked)
  <2>1. N > 0 => /\ Marked[N] \in Row
                 /\ SameLists(Last, Marked[N]) /\ SameClaim(Last, Marked[N])
    BY Changed, LastRow, MarkerRow
  <2> QED
    BY <1>1, <1>2, <2>1
<1>3. CASE Write(h, Unmarked)
  <2>1. N > 0 => /\ Unmarked[N] \in Row
                 /\ SameLists(Last, Unmarked[N]) /\ SameClaim(Last, Unmarked[N])
    BY Changed, LastRow, MarkerRow
  <2> QED
    BY <1>1, <1>3, <2>1
<1>4. CASE Write(h, Checkpointed)
  <2>1. N > 0 => /\ Checkpointed[N] \in Row
                 /\ SameLists(Last, Checkpointed[N]) /\ SameClaim(Last, Checkpointed[N])
    BY Changed, LastRow, LearnedRow
  <2> QED
    BY <1>1, <1>4, <2>1
<1> QED
  BY <1>2, <1>3, <1>4 DEF NoWrite

LEMMA HandlerClipStep ==
  ASSUME TypeInv, ClipInv, ClipClean', NEW h \in handlers, HandlerStep(h)
  PROVE  ClipInv'
<1>0. acked' = acked /\ "crossed" \notin slips'
  BY DEF HandlerStep, ClipClean
<1>1. ASSUME NEW p \in Phases, Enter(h, p), p \notin {"uploaded", "finished"},
             h.phase \notin {"thrown", "buried"}, delivered' = delivered,
             \/ Write(h, Marked)
             \/ Write(h, Unmarked)
             \/ Write(h, Checkpointed)
             \/ NoWrite
      PROVE  ClipInv'
  <2>1. PICK k : MovesTo(h, p, k)
    BY <1>1, EnterMoves
  <2>2. \/ rows' = rows
        \/ \E row : LastBecomes(row) /\ SameLists(Last, row) /\ SameClaim(Last, row)
    BY <1>0, <1>1, CreateWrite
  <2> QED
    BY <1>0, <1>1, <2>1, <2>2, MovedClipStill
<1>2. \A p \in {"buried", "uploading", "thrown", "creating", "created", "refused"} :
        p \in Phases /\ p \notin {"uploaded", "finished"}
  BY DEF Phases
<1>3. CASE Bury(h)
  <2>1. Enter(h, "buried") /\ NoWrite /\ h.phase = "start" /\ delivered' = delivered
    BY <1>3 DEF Bury
  <2> QED
    BY <1>1, <1>2, <2>1
<1>4. CASE Resume(h)
  <2>1. Enter(h, "uploading") /\ NoWrite /\ h.phase = "start" /\ delivered' = delivered
    BY <1>4 DEF Resume
  <2> QED
    BY <1>1, <1>2, <2>1
<1>5. CASE Mark(h)
  <2>1. /\ Write(h, Marked) \/ NoWrite
        /\ h.phase = "start" /\ delivered' = delivered
        /\ \E p \in {"thrown", "creating"} : Enter(h, p)
    BY <1>5 DEF Mark
  <2> QED
    BY <1>1, <1>2, <2>1
<1>6. CASE Create(h)
  <2>1. /\ NoWrite /\ h.phase = "creating" /\ delivered' = delivered
        /\ \E p \in {"created", "refused", "thrown"} : Enter(h, p)
    BY <1>6 DEF Create
  <2> QED
    BY <1>1, <1>2, <2>1
<1>7. CASE Retract(h)
  <2>1. /\ Write(h, Unmarked) \/ NoWrite
        /\ h.phase = "refused" /\ delivered' = delivered /\ Enter(h, "thrown")
    BY <1>7 DEF Retract
  <2> QED
    BY <1>1, <1>2, <2>1
<1>8. CASE Checkpoint(h)
  <2>1. /\ Write(h, Checkpointed) \/ NoWrite
        /\ h.phase = "created" /\ delivered' = delivered
        /\ \E p \in {"uploading", "thrown"} : Enter(h, p)
    BY <1>8 DEF Checkpoint
  <2> QED
    BY <1>1, <1>2, <2>1
<1>9. CASE Fold(h)
  BY <1>0, <1>9, FoldClipStep DEF Fold
<1> QED
  BY <1>0, <1>3, <1>4, <1>5, <1>6, <1>7, <1>8, <1>9, UploadClipStep, SettleClipStep
     DEF HandlerStep

LEMMA LookClipStep ==
  ASSUME TypeInv, ClipInv, NEW S, Look(S)
  PROVE  ClipInv'
<1>1. rows' = rows /\ handlers' = handlers /\ delivered' = delivered
  BY DEF Look
<1>2. CASE acked' = acked
  BY <1>1, <1>2, ClipStillRows
<1>3. ASSUME NEW i \in LiveRows, S \subseteq rows[i].artifacts, acked' = acked \cup S
      PROVE  ClipInv'
  BY <1>1, <1>3, LiveListKept
<1> QED
  BY <1>2, <1>3 DEF Look

LEMMA ClipStep ==
  ASSUME TypeInv, ClipSafe, [Next]_vars
  PROVE  ClipSafe'
<1>1. SUFFICES ASSUME ClipClean' PROVE ClipInv'
  BY DEF ClipSafe
<1>2. ClipInv
  BY <1>1, SlipsGrow DEF ClipSafe, ClipClean
<1>3. CASE UNCHANGED vars
  BY <1>2, <1>3, ClipStillRows DEF vars
<1> QED
  BY <1>1, <1>2, <1>3, LookClipStep, CallClipStep, HandlerClipStep, ClaimClipStep, RowClipStep
     DEF Next

LEMMA ClipAlways == Spec => [](TypeInv /\ ClipSafe)
<1>1. Init => ClipSafe
  <2> SUFFICES ASSUME Init PROVE ClipInv
    BY DEF ClipSafe
  <2>1. N = 0 /\ acked = {} /\ handlers = {}
    BY DEF Init, N
  <2> QED
    BY <2>1 DEF ClipInv
<1> QED
  BY <1>1, GlassesTypeInit, GlassesTypeStep, ClipStep, PTL DEF Spec

\* An unfinished clip is on the last row, which waits.
LEMMA WhereClipsWait ==
  ASSUME TypeInv, ClipInv, NEW c \in acked \ delivered
  PROVE  /\ N > 0 /\ N \in Rows /\ c \in Last.artifacts \cup Last.extra
         /\ Last.status \in {"pending", "processing", "dead"} /\ ~ Last.superseded
<1>1. N > 0
  BY RowsTyped, ClipForm DEF Kept
<1>2. Last.status \in {"pending", "processing", "completed", "dead"}
  BY <1>1, LastRow DEF Row
<1> QED
  BY <1>1, <1>2, LastRow, ClipForm DEF Kept

\* A clip the phone was told is filed is with TROCK Scope or waits on a row
\* (amend, record, supersede and inheriting insert of a completion; the fold
\* and the settle of the job), but for the windows.
THEOREM NoFiledClipIsLost == Spec => []NoClipLost
<1>1. ASSUME TypeInv, ClipSafe
      PROVE  NoClipLost
  <2> SUFFICES ASSUME ClipInv, NEW c \in acked \ delivered PROVE Waits(c)
    BY <1>1 DEF NoClipLost, ClipSafe, ClipClean
  <2> QED
    BY <1>1, WhereClipsWait DEF Waits, Last
<1> QED
  BY <1>1, ClipAlways, PTL

\* When the system rests, such a clip is with TROCK Scope or on a dead row that
\* was announced (the dead-letter sweep), but for the windows.
THEOREM UndeliveredClipsAreAnnounced == Spec => []ClipIsHeardOf
<1>1. ASSUME TypeInv, ClipSafe
      PROVE  ClipIsHeardOf
  <2> SUFFICES ASSUME AtRest, ClipInv, NEW c \in acked \ delivered
               PROVE  \E i \in DeadRows : rows[i].alerted /\ c \in rows[i].artifacts \cup rows[i].extra
    BY <1>1 DEF ClipIsHeardOf, ClipSafe, ClipClean
  <2>1. /\ N \in Rows /\ c \in rows[N].artifacts \cup rows[N].extra
        /\ rows[N].status \in {"pending", "processing", "dead"} /\ ~ rows[N].superseded
    BY <1>1, WhereClipsWait DEF Last
  <2>2. rows[N].status = "dead" /\ rows[N].alerted
    BY <2>1 DEF AtRest, Alertable
  <2>3. N \in DeadRows
    BY <2>1, <2>2 DEF DeadRows, LiveRows, Live
  <2> QED
    BY <2>1, <2>2, <2>3
<1> QED
  BY <1>1, ClipAlways, PTL

=============================================================================
