------------------------------ MODULE ResponseState ------------------------------
(***************************************************************************)
(* The store of responses behind previous_response_id                      *)
(* (src/src/responses/state.ts, src/src/responses/spill-store.ts): rows in *)
(* memory, the payloads of some of them in files, and a snapshot that a    *)
(* later process starts from.  Memory is authoritative and bounded; files  *)
(* are published before a row names them and removed after the last        *)
(* durable row that names them; the process may die between any two steps. *)
(***************************************************************************)
EXTENDS Naturals, Sequences, FiniteSets, FiniteSetsExt, SequencesExt

CONSTANTS
    Ids,               \* response ids
    Sizes,             \* bytes a response may take in memory
    StubSize, TombSize,
    MaxEntries,        \* MAX_STORED_RESPONSES
    ByteCap,           \* MAX_STORED_RESPONSE_BYTES
    PayloadCap,        \* MAX_RESPONSE_SPILL_PAYLOAD_BYTES
    EntryMax,          \* SNAPSHOT_ENTRY_MAX_BYTES
    SnapshotMax,       \* SNAPSHOT_TOTAL_MAX_BYTES
    QueueMax,          \* PENDING_SPILL_UNLINKS_MAX
    Attempts,          \* MAX_SNAPSHOT_REWRITE_ATTEMPTS
    Retries,           \* RESPONSE_SPILL_PUBLISH_RETRIES
    MaxVersion,        \* bound on responses remembered
    MaxWaiting,        \* bound on snapshot writes that wait for their turn
    Shutdowns          \* whether the process may be shut down, not only killed

ASSUME ResponseAssumption ==
    /\ IsFiniteSet(Ids)
    /\ Sizes \subseteq Nat
    /\ {StubSize, TombSize, MaxEntries, ByteCap, PayloadCap, EntryMax, SnapshotMax,
        QueueMax, Attempts, Retries, MaxVersion, MaxWaiting} \subseteq Nat
    /\ ByteCap <= PayloadCap /\ QueueMax > 0 /\ Attempts > 0 /\ Shutdowns \in BOOLEAN

VARIABLES
    row, order,        \* states: the row of an id, and the order of the map
    queue,             \* pendingSpillUnlinks
    files,             \* the spill directory
    snapshot,          \* responses-state.json
    loaded,
    timer,             \* persistTimer is set
    writer,            \* the snapshot write under way
    changed,           \* stateRevision moved since the writer read the rows
    waiting,           \* those behind it in persistGate
    flush,             \* flushResponseState, at shutdown
    last,              \* the version of an id that was remembered last
    horizon,           \* versions up to this one are past their hour
    missed             \* history: the last snapshot write did not succeed

rows == <<row, order, queue, files>>
written == <<snapshot, writer, waiting, flush, missed>>
persist == <<written, timer, changed>>
past == <<loaded, last, horizon>>
vars == <<rows, persist, past>>

Versions == 0..MaxVersion

\* A version stands for a response's content and for when it was created.
Row(kind, v, size, g) == [kind |-> kind, v |-> v, size |-> size, g |-> g]
Absent == Row("none", 0, 0, 0)
Resident(v, size) == Row("resident", v, size, 0)
Stub(v, g) == Row("spill", v, StubSize, g)
Tombstone(v) == Row("spill-failed", v, TombSize, 0)

\* The version after all that there are.
NextVersions == {v \in 1..MaxVersion : (\A i \in Ids : last[i] < v) /\ \E i \in Ids : last[i] = v - 1}

NoRows == [i \in Ids |-> Absent]
NoSnapshot == [row |-> NoRows, order |-> <<>>, cut |-> FALSE]
NoWriter == [stage |-> "idle", kind |-> "background", attempt |-> 0, picture |-> NoSnapshot]

Init ==
    /\ row = NoRows /\ order = <<>> /\ queue = <<>> /\ files = {}
    /\ snapshot = NoSnapshot /\ loaded = FALSE
    /\ timer = FALSE /\ writer = NoWriter /\ changed = FALSE /\ waiting = <<>>
    /\ flush = "no"
    /\ last = [i \in Ids |-> 0] /\ horizon = 0
    /\ missed = FALSE

-----------------------------------------------------------------------------
(* Rows and files.                                                         *)

\* A name holds the id, the content and a number that is free.
File(i, v, g) == [id |-> i, v |-> v, g |-> g]

\* The files that rows of S name.
Named(R, S) ==
    {File(i, R[i].v, R[i].g) : i \in {j \in S : R[j].kind = "spill"}}

\* The members of S that seq has, in their order.
Keep(seq, S) ==
    LET Among[n \in 0..Len(seq)] ==
            IF n = 0 THEN <<>>
            ELSE IF seq[n] \in S THEN Append(Among[n - 1], seq[n]) ELSE Among[n - 1]
    IN  Among[Len(seq)]

\* i comes before j in the map; the members of S before i, and i.
Ahead(s, i, j) ==
    \E m, n \in DOMAIN s.order : m < n /\ s.order[m] = i /\ s.order[n] = j
UpTo(s, i, S) == {j \in S : Ahead(s, j, i)} \cup {i}

Bytes(R, S) == MapThenSumSet(LAMBDA i : R[i].size, S)

\* What a handler works on, from the map to the directory.
Store == [row |-> row, order |-> order, queue |-> queue, files |-> files]

Becomes(s) ==
    /\ row' = s.row /\ order' = s.order /\ queue' = s.queue /\ files' = s.files

\* Mutant: the place it had is kept too.
PlacedTwice(s, i, r) == [s EXCEPT !.row[i] = r, !.order = Append(@, i)]

\* replaceMapEntry: a row that is set moves to the end.
Placed(s, i, r) ==
    [s EXCEPT !.row[i] = r, !.order = Append(Keep(s.order, Ids \ {i}), i)]

\* deleteEntry: a row goes together with its file.
Deleted(s, S) ==
    [s EXCEPT !.row = [i \in Ids |-> IF i \in S THEN Absent ELSE s.row[i]],
              !.order = Keep(s.order, Ids \ S),
              !.files = s.files \ Named(s.row, S)]

\* Mutant: the file of a row that is replaced goes at once.
SupersededAtOnce(s, f) == [s EXCEPT !.files = s.files \ {f}]

\* Mutant: it is forgotten.
SupersededNever(s, f) == s

\* The file of a row that is replaced is removed after the next stable snapshot,
\* or when the queue is full.
Superseded(s, f) ==
    LET q == Append(s.queue, f)
    IN  IF Len(q) > QueueMax
        THEN [s EXCEPT !.queue = Tail(q), !.files = s.files \ {Head(q)}]
        ELSE [s EXCEPT !.queue = q]

\* Row i is replaced, and its file, if it has one, outlives it for a while.
Replaced(s, i, r) ==
    IF s.row[i].kind = "spill"
    THEN Superseded(Placed(s, i, r), File(i, s.row[i].v, s.row[i].g))
    ELSE Placed(s, i, r)

\* writeResponseSpillDurably: a taken name is passed over, some writes fail.
FreeNames(s, i, v) == {g \in 1..Retries : File(i, v, g) \notin s.files}
FreeName(s, i, v) == Min(FreeNames(s, i, v))
Fails(s, i, v, failing) == i \in failing \/ FreeNames(s, i, v) = {}

\* The row of i after its payload was written to a file, or could not be.
Spilled(s, i, v, failing) ==
    IF Fails(s, i, v, failing) THEN Tombstone(v) ELSE Stub(v, FreeName(s, i, v))

\* Residents D go to files and to the end of the map, in their order.
Demoted(s, D, failing) ==
    LET R == [i \in Ids |-> IF i \in D THEN Spilled(s, i, s.row[i].v, failing) ELSE s.row[i]]
    IN  [s EXCEPT !.row = R,
                  !.order = Keep(s.order, Ids \ D) \o Keep(s.order, D),
                  !.files = s.files \cup Named(R, D)]

Expired(s) == {i \in Ids : s.row[i].kind # "none" /\ s.row[i].v <= horizon}

Rows(s) == {i \in Ids : s.row[i].kind # "none"}
Oldest(s) == {i \in Rows(s) : Cardinality({j \in Rows(s) : Ahead(s, i, j)}) >= MaxEntries}

Fits(s) == Bytes(s.row, Ids) <= ByteCap

\* Mutant: the cap on bytes is left to the admission of single rows.
PrunedByCount(s, failing) ==
    LET unexpired == Deleted(s, Expired(s))
    IN  Deleted(unexpired, Oldest(unexpired))

\* pruneResponses: what has expired and the oldest rows beyond the count go; then,
\* for as long as there are too many bytes, residents go to files, and then rows
\* go, the first in the map first.
Pruned(s, failing) ==
    LET unexpired == Deleted(s, Expired(s))
        counted == Deleted(unexpired, Oldest(unexpired))
        residents == {i \in Ids : counted.row[i].kind = "resident"}
        demoted == Demoted(counted,
            {i \in residents : \A p \in UpTo(counted, i, residents) :
                ~Fits(Demoted(counted, UpTo(counted, p, residents) \ {p}, failing))}, failing)
    IN  Deleted(demoted,
            {i \in Rows(demoted) : \A p \in UpTo(demoted, i, Rows(demoted)) :
                ~Fits(Deleted(demoted, UpTo(demoted, p, Rows(demoted)) \ {p}))})

\* Mutant: a version that cannot be kept leaves the one before it in place.
AdmittedOrKept(s, i, v, size, failing) ==
    LET old == s.row[i]
        spill == size > ByteCap \/ old.kind = "spill"
        published == [s EXCEPT !.files = @ \cup {File(i, v, FreeName(s, i, v))}]
    IN  IF size > PayloadCap \/ (spill /\ Fails(s, i, v, failing)) THEN s
        ELSE IF spill THEN Replaced(published, i, Stub(v, FreeName(s, i, v)))
        ELSE Placed(s, i, Resident(v, size))

\* setResidentEntry: what cannot stay in memory, or replaces a spilled row, goes
\* to a file; what is too large for a file, or cannot be written, leaves a row
\* that says so.
Admitted(s, i, v, size, failing) ==
    LET old == s.row[i]
        spill == size > ByteCap \/ old.kind = "spill"
        published == [s EXCEPT !.files = @ \cup {File(i, v, FreeName(s, i, v))}]
    IN  IF size > PayloadCap \/ (spill /\ Fails(s, i, v, failing))
        THEN Replaced(s, i, Tombstone(IF old.kind = "none" THEN v ELSE old.v))
        ELSE IF spill THEN Replaced(published, i, Stub(v, FreeName(s, i, v)))
        ELSE Placed(s, i, Resident(v, size))

-----------------------------------------------------------------------------
(* Requests.                                                               *)

\* The turns of one promise chain: the renaming of a snapshot and what its writer
\* does then, and the next in line once the gate is open.  Nothing runs between
\* them, nor after the flush at shutdown.
Free ==
    /\ writer.stage \notin {"renamed", "unstable"} /\ flush # "done"
    /\ writer.stage = "idle" => waiting = <<>>

\* A change counts for a writer that has read the rows.
Touched == changed' = (changed \/ writer.stage # "idle")
Untouched(s) == s.row = row /\ s.order = order

\* recoverOrphanedResponseSpills: files that no row of the snapshot names.
Orphans == files \ Named(snapshot.row, Ids)

\* ensureLoaded, at the first request: the snapshot, then the orphans, if they
\* are old enough and can be removed.
Load(failing) ==
    /\ ~loaded /\ loaded' = TRUE
    /\ \E gone \in SUBSET Orphans :
         Becomes(Pruned([row |-> snapshot.row, order |-> snapshot.order, queue |-> queue,
                         files |-> files \ gone], failing))
    /\ UNCHANGED <<persist, last, horizon>>

\* rememberResponseState.  The budget that it enforces is BudgetEvict.
Remember(i, v, size, failing) ==
    /\ loaded /\ Free
    /\ last' = [last EXCEPT ![i] = v]
    /\ Becomes(Pruned(Admitted(Store, i, v, size, failing), failing))
    /\ Touched /\ timer' = TRUE
    /\ UNCHANGED <<written, loaded, horizon>>

\* Mutant: the row that says so is not saved.
ExpandUnsaved(i, failing) ==
    LET s == Pruned(Store, failing)
        lost == s.row[i].kind = "spill" /\ File(i, s.row[i].v, s.row[i].g) \notin s.files
        t == IF lost THEN Placed(s, i, Tombstone(s.row[i].v)) ELSE s
    IN  /\ loaded /\ Free /\ Becomes(t)
        /\ IF Untouched(t) THEN UNCHANGED changed ELSE Touched
        /\ UNCHANGED <<written, timer, past>>

\* expandPreviousResponseInput: a spilled row whose file is gone becomes one that
\* says so.
Expand(i, failing) ==
    LET s == Pruned(Store, failing)
        lost == s.row[i].kind = "spill" /\ File(i, s.row[i].v, s.row[i].g) \notin s.files
    IN  /\ loaded /\ Free
        /\ IF lost
           THEN Becomes(Placed(s, i, Tombstone(s.row[i].v))) /\ timer' = TRUE
           ELSE Becomes(s) /\ UNCHANGED timer
        /\ IF lost \/ ~Untouched(s) THEN Touched ELSE UNCHANGED changed
        /\ UNCHANGED <<written, past>>

\* sweepExpiredResponseStates.
Sweep ==
    /\ Free /\ Expired(Store) # {}
    /\ Becomes(Deleted(Store, Expired(Store)))
    /\ Touched /\ timer' = TRUE
    /\ UNCHANGED <<written, past>>

Residents == {i \in Ids : row[i].kind = "resident"}

\* Mutant: the file is written when the row already names it and may be lost.
EvictFirst(failing) ==
    \E i \in Residents :
        /\ Free /\ \A j \in Residents : row[i].v <= row[j].v
        /\ Becomes([Demoted(Store, {i}, failing) EXCEPT !.files = files])
        /\ Touched /\ timer' = TRUE
        /\ UNCHANGED <<written, past>>

\* Mutant: it is not followed by a snapshot.
EvictUnsaved(failing) ==
    \E i \in Residents :
        /\ Free /\ \A j \in Residents : row[i].v <= row[j].v
        /\ Becomes(Demoted(Store, {i}, failing))
        /\ Touched
        /\ UNCHANGED <<written, timer, past>>

\* evictOldestResponseContinuationForBudget, whenever some store has grown: the
\* oldest resident goes to a file.
BudgetEvict(failing) ==
    \E i \in Residents :
        /\ Free /\ \A j \in Residents : row[i].v <= row[j].v
        /\ Becomes(Demoted(Store, {i}, failing))
        /\ Touched /\ timer' = TRUE
        /\ UNCHANGED <<written, past>>

\* An hour has passed since the oldest version.
Age ==
    /\ Free /\ \E i \in Ids : horizon < last[i]
    /\ horizon' = horizon + 1
    /\ UNCHANGED <<rows, persist, loaded, last>>

-----------------------------------------------------------------------------
(* The snapshot.                                                           *)

Eligible(r) == r.kind # "none" /\ (r.kind = "resident" => r.size <= EntryMax)

\* Rows from the newest on, as long as they fit.
Picture ==
    LET fit == Keep(order, {i \in Ids : Eligible(row[i])})
        n == Len(fit)
        Newest(k) == {fit[m] : m \in (n - k + 1)..n}
        kept == Max({k \in 0..n : Bytes(row, Newest(k)) <= SnapshotMax})
    IN  [row |-> [i \in Ids |-> IF i \in Newest(kept) THEN row[i] ELSE Absent],
         order |-> Keep(fit, Newest(kept)),
         cut |-> kept < n]

\* The two seconds are over.
TimerFires ==
    /\ timer /\ Free /\ Len(waiting) < MaxWaiting
    /\ timer' = FALSE
    /\ waiting' = Append(waiting, "background")
    /\ UNCHANGED <<rows, snapshot, writer, changed, flush, missed, past>>

\* flushResponseState: a pending snapshot is written now, one under way awaited.
Flush ==
    /\ Shutdowns /\ loaded /\ flush = "no" /\ Free /\ Len(waiting) < MaxWaiting
    /\ flush' = "called" /\ timer' = FALSE
    /\ waiting' = Append(waiting, IF timer THEN "flush" ELSE "await")
    /\ UNCHANGED <<rows, snapshot, writer, changed, missed, past>>

Awaiting == waiting # <<>> /\ Head(waiting) = "await"

\* The next one reads the rows.
BeginWrite ==
    /\ flush # "done" /\ waiting # <<>> /\ ~Awaiting /\ writer.stage = "idle"
    /\ waiting' = Tail(waiting)
    /\ writer' = [stage |-> "writing", kind |-> Head(waiting), attempt |-> 1, picture |-> Picture]
    /\ changed' = FALSE
    /\ UNCHANGED <<rows, snapshot, timer, flush, missed, past>>

\* Mutant: the flush ends when the write that was under way has.
AwaitedOnly ==
    /\ Awaiting /\ writer.stage \in {"idle", "unstable"}
    /\ waiting' = Tail(waiting) /\ flush' = "done" /\ UNCHANGED timer
    /\ UNCHANGED <<rows, snapshot, writer, changed, missed, past>>

\* The flush has awaited the write that was under way: what has become pending
\* meanwhile is written too.  It comes before the writer itself goes on.
Awaited ==
    /\ Awaiting /\ writer.stage \in {"idle", "unstable"}
    /\ IF timer
       THEN waiting' = Append(Tail(waiting), "flush") /\ UNCHANGED flush
       ELSE waiting' = Tail(waiting) /\ flush' = "done"
    /\ timer' = FALSE
    /\ UNCHANGED <<rows, snapshot, writer, changed, missed, past>>

\* The temporary file is renamed.
Rename ==
    /\ Free /\ writer.stage = "writing"
    /\ snapshot' = writer.picture
    /\ writer' = [writer EXCEPT !.stage = "renamed"]
    /\ UNCHANGED <<rows, timer, changed, waiting, flush, missed, past>>

Ended(kind) == flush' = IF kind = "background" THEN flush ELSE "done"
Idle == writer' = NoWriter

\* The rows have not changed since they were read: files that only older
\* snapshots name are removed.
Stable ==
    /\ writer.stage = "renamed" /\ ~changed
    /\ files' = files \ ToSet(queue) /\ queue' = <<>>
    /\ Idle /\ Ended(writer.kind) /\ missed' = FALSE
    /\ UNCHANGED <<row, order, snapshot, timer, changed, waiting, past>>

\* They have: again ...
Again ==
    /\ writer.stage = "renamed" /\ changed /\ writer.attempt < Attempts
    /\ writer' = [writer EXCEPT !.stage = "writing", !.attempt = @ + 1, !.picture = Picture]
    /\ changed' = FALSE
    /\ UNCHANGED <<rows, snapshot, timer, waiting, flush, missed, past>>

\* ... but not for ever.
Unstable ==
    /\ writer.stage = "renamed" /\ changed /\ writer.attempt >= Attempts
    /\ writer' = [writer EXCEPT !.stage = "unstable"] /\ changed' = FALSE
    /\ UNCHANGED <<rows, snapshot, timer, waiting, flush, missed, past>>

\* A background writer sets the timer, a flush tries once more.
FollowUp ==
    /\ writer.stage = "unstable" /\ ~Awaiting /\ Idle
    /\ \/ writer.kind = "background" /\ timer' = TRUE /\ UNCHANGED <<waiting, flush, missed>>
       \/ /\ writer.kind = "flush" /\ timer' = FALSE /\ waiting' = Append(waiting, "again")
          /\ UNCHANGED <<flush, missed>>
       \/ /\ writer.kind = "again" /\ flush' = "done" /\ missed' = TRUE
          /\ UNCHANGED <<timer, waiting>>
    /\ UNCHANGED <<rows, snapshot, changed, past>>

\* The file cannot be written: nothing is tried until the next change.
WriteFails ==
    /\ Free /\ writer.stage = "writing"
    /\ Idle /\ changed' = FALSE /\ Ended(writer.kind) /\ missed' = TRUE
    /\ UNCHANGED <<rows, snapshot, timer, waiting, past>>

\* Payloads on their way to a file, that no row names yet: a resident's, or that
\* of a new response.
Published ==
    LET payloads == {<<i, row[i].v>> : i \in Residents}
                    \cup Ids \X NextVersions
    IN  {File(p[1], p[2], FreeName(Store, p[1], p[2])) :
            p \in {q \in payloads : FreeNames(Store, q[1], q[2]) # {}}}

\* The process dies, or ends after its flush, and is started again.
Crash(published) ==
    /\ loaded /\ loaded' = FALSE
    /\ row' = NoRows /\ order' = <<>> /\ queue' = <<>>
    /\ files' = files \cup published
    /\ timer' = FALSE /\ writer' = NoWriter /\ changed' = FALSE /\ waiting' = <<>>
    /\ flush' = "no" /\ missed' = FALSE
    /\ UNCHANGED <<snapshot, last, horizon>>

Requests ==
    \E failing \in SUBSET Ids :
        \/ Load(failing) \/ BudgetEvict(failing)
        \/ \E i \in Ids : Expand(i, failing)
        \/ \E i \in Ids, v \in NextVersions, size \in Sizes : Remember(i, v, size, failing)

Writing == BeginWrite \/ Awaited \/ Rename \/ Stable \/ Again \/ Unstable \/ FollowUp

Next ==
    \/ Requests \/ Sweep \/ Age
    \/ TimerFires \/ Flush \/ Writing \/ WriteFails
    \/ \E published \in {{}} \cup {{f} : f \in Published} : Crash(published)

\* Timers fire, and promises that are resolved are followed up.
Fairness == WF_vars(TimerFires) /\ WF_vars(Writing)

Spec == Init /\ [][Next]_vars /\ Fairness

-----------------------------------------------------------------------------
(* Properties.                                                             *)

Kinds == {"none", "resident", "spill", "spill-failed"}
Files == [id : Ids, v : 1..MaxVersion, g : 1..Retries]
RowsOfIds == [Ids -> [kind : Kinds, v : Versions, size : Sizes \cup {0, StubSize, TombSize},
                      g : 0..Retries]]
Snapshots == [row : RowsOfIds, order : Seq(Ids), cut : BOOLEAN]

\* Every variable keeps its type, and the order is that of the rows there are.
TypeOK ==
    /\ row \in RowsOfIds
    /\ order \in Seq(Ids) /\ IsInjective(order) /\ ToSet(order) = {i \in Ids : row[i] # Absent}
    /\ queue \in Seq(Files) /\ files \subseteq Files
    /\ snapshot \in Snapshots
    /\ writer \in [stage : {"idle", "writing", "renamed", "unstable"},
                   kind : {"background", "flush", "again"}, attempt : 0..Attempts,
                   picture : Snapshots]
    /\ waiting \in Seq({"background", "flush", "again", "await"})
    /\ flush \in {"no", "called", "done"}
    /\ {timer, changed, loaded, missed} \subseteq BOOLEAN
    /\ last \in [Ids -> Versions] /\ horizon \in Versions

\* A crash may come at any moment, and the snapshot it leaves must name files
\* that exist: only a row that is given up, or a full queue, costs it one ("the
\* reloaded OLD stub would point at a deleted file", state.ts:88-90).
FileGoes(f) ==
    f \in files /\ f \notin files' /\ row'[f.id].kind # "none"
    /\ ~(Len(queue) = QueueMax /\ queue # queue' /\ Len(queue') = QueueMax /\ Head(queue) = f)
SnapshotKeepsItsFiles == [][\A f \in Named(snapshot'.row, Ids) : ~FileGoes(f)]_vars

\* A row in memory names a file that exists, unless a snapshot named it that had
\* already lost it.
StubsHaveFiles ==
    [][\A f \in Named(row', Ids) \ files' : f \in Named(row, Ids) \cup Named(snapshot.row, Ids) /\ f \notin files]_vars

\* A running process leaves no file behind without a row or a place in the queue
\* ("never ... unbounded disk", state.ts:95-97): what has neither was there when
\* it started.
Owned == Named(row, Ids) \cup ToSet(queue)
NoFileForgotten == [][loaded /\ loaded' => files' \ Owned' \subseteq files \ Owned]_vars

\* The rows that fill the memory do not exceed the cap, whichever way the rows
\* came to be (state.ts:284-286).
WithinCap == Bytes(row, Ids) <= ByteCap /\ Len(order) <= MaxEntries

Live(r) == r.kind # "none" /\ r.v > horizon

\* A restart would find what a request finds now, apart from what is too large
\* for the snapshot.
Saved ==
    \A i \in Ids :
        /\ Live(snapshot.row[i]) => snapshot.row[i] = row[i]
        /\ Live(row[i]) /\ Eligible(row[i]) /\ ~snapshot.cut => snapshot.row[i] = row[i]

\* When nothing is pending and the last write succeeded, the snapshot is current:
\* no order of changes, timers, rewrites and follow-ups leaves a change behind.
AtRestMemoryIsSaved ==
    loaded /\ ~timer /\ waiting = <<>> /\ writer.stage = "idle" /\ ~missed => Saved

FlushEnds == flush # "done" /\ flush' = "done"

\* A flush that ends has saved what was remembered while it waited, or leaves a
\* writer behind it: "Shutdown owns one awaited bounded follow-up rather than
\* returning behind that unref'd timer" (state.ts:703-705).
FlushSavesOrLeavesAWriter == [][FlushEnds => Saved' \/ missed' \/ waiting' # <<>>]_vars

\* A change reaches the snapshot, unless its file cannot be written or the
\* process ends before.
EventuallySaved == loaded /\ ~Saved ~> Saved \/ missed \/ ~loaded \/ flush = "done"

\* What a request would be continued from, with rows R and files F.
Replayed(R, F, i) ==
    IF R[i].kind = "resident" \/ (R[i].kind = "spill" /\ File(i, R[i].v, R[i].g) \in F)
    THEN R[i].v ELSE 0

View(R, F) == [i \in Ids |-> Replayed(R, F, i)]

Cache == INSTANCE ResponseCache WITH
    known <- View(IF loaded THEN row ELSE snapshot.row, files),
    taken <- View(writer.picture.row, files),
    saved <- View(snapshot.row, files),
    last <- last

\* The store implements what ResponseCache promises: whatever is evicted,
\* written, lost or restarted, a request is never continued from a version older
\* than the one remembered last, or, after a restart, than the last snapshot.
ImplementsCache == Cache!Spec
=============================================================================
