--------------------------- MODULE ResponseState_proofs ---------------------------
(***************************************************************************)
(* What holds of the store of responses for every number of ids, every cap *)
(* and every bound: it implements ResponseCache; it keeps its types, the   *)
(* files that its rows and its snapshot name and no others; it stays       *)
(* within its caps; and its snapshot, once nothing is pending, is current. *)
(* What the handlers do to the rows is split into two kinds of step: rows  *)
(* that shrink (deleted, demoted, replaced by one that says so), and the   *)
(* one row that is set.                                                    *)
(***************************************************************************)
EXTENDS ResponseState, FiniteSetTheorems, WellFoundedInduction, TLAPS

\* A row that gives its payload to a file does not grow by it.  The sizes of rows
\* are those of their serialisation (state.ts:123-176), and a response of a few
\* bytes is smaller than a stub.
StubsAreSmall == TombSize <= StubSize /\ \A size \in Sizes : StubSize <= size


-----------------------------------------------------------------------------
(* Stores.                                                                 *)

IsRows(R) ==
    /\ R = [i \in Ids |-> R[i]]
    /\ \A i \in Ids : R[i].kind \in Kinds /\ R[i].v \in Nat

IsStore(s) ==
    /\ s = [row |-> s.row, order |-> s.order, queue |-> s.queue, files |-> s.files]
    /\ IsRows(s.row)

\* Row r is what became of row q: it is the same, or gone, or gave its payload to
\* a file, or could not.
Lesser(r, q) ==
    \/ r = q
    \/ r.kind \in {"none", "spill-failed"}
    \/ q.kind = "resident" /\ r.kind = "spill" /\ r.v = q.v

\* New files are those of residents.
Shrunk(s, t) ==
    /\ \A i \in Ids : Lesser(t.row[i], s.row[i])
    /\ \A f \in t.files \ s.files :
         \E i \in Ids : s.row[i].kind = "resident" /\ f = File(i, s.row[i].v, f.g)

\* A row keeps its kind and version from one store to the next, unless it shrinks.
LEMMA RowKinds ==
    /\ Absent.kind = "none" /\ Absent.v = 0
    /\ \A v, size : Resident(v, size).kind = "resident" /\ Resident(v, size).v = v
    /\ \A v, g : Stub(v, g).kind = "spill" /\ Stub(v, g).v = v /\ Stub(v, g).g = g
    /\ \A v : Tombstone(v).kind = "spill-failed" /\ Tombstone(v).v = v
BY DEF Absent, Resident, Stub, Tombstone, Row

LEMMA DeletedFields ==
    ASSUME NEW s, IsStore(s), NEW S
    PROVE  /\ Deleted(s, S).row = [i \in Ids |-> IF i \in S THEN Absent ELSE s.row[i]]
           /\ Deleted(s, S).files = s.files \ Named(s.row, S)
           /\ Deleted(s, S).queue = s.queue
           /\ IsStore(Deleted(s, S))
<1> DEFINE R == [i \in Ids |-> IF i \in S THEN Absent ELSE s.row[i]]
           o == Keep(s.order, Ids \ S)
           F == s.files \ Named(s.row, S)
<1>1. s = [row |-> s.row, order |-> s.order, queue |-> s.queue, files |-> s.files]
  BY DEF IsStore
<1>2. Deleted(s, S) = [s EXCEPT !.row = R, !.order = o, !.files = F]
  BY Zenon DEF Deleted
<1> HIDE DEF R, o, F
<1>3. Deleted(s, S) = [row |-> R, order |-> o, queue |-> s.queue, files |-> F]
  BY <1>1, <1>2
<1>4. IsRows(R)
  BY RowKinds DEF IsRows, IsStore, Kinds, R
<1> DEFINE t == Deleted(s, S)
<1> HIDE DEF t
<1>5. t = [row |-> R, order |-> o, queue |-> s.queue, files |-> F]
  BY <1>3 DEF t
<1>6. t.row = R /\ t.order = o /\ t.queue = s.queue /\ t.files = F
  BY <1>5
<1>7. IsStore(t)
  BY <1>4, <1>5, <1>6 DEF IsStore
<1> QED
  BY <1>6, <1>7 DEF t, R, F

LEMMA DeletedShrinks ==
    ASSUME NEW s, IsStore(s), NEW S
    PROVE  Shrunk(s, Deleted(s, S))
<1> DEFINE R == [i \in Ids |-> IF i \in S THEN Absent ELSE s.row[i]]
           t == Deleted(s, S)
<1>1. t.row = R /\ t.files \subseteq s.files
  BY DeletedFields
<1>2. ASSUME NEW i \in Ids
      PROVE  Lesser(R[i], s.row[i])
  BY RowKinds DEF Lesser
<1> HIDE DEF R, t
<1> QED
  BY <1>1, <1>2 DEF Shrunk, t

LEMMA DemotedFields ==
    ASSUME NEW s, IsStore(s), NEW D, NEW failing
    PROVE  LET t == Demoted(s, D, failing)
               R == [i \in Ids |-> IF i \in D THEN Spilled(s, i, s.row[i].v, failing) ELSE s.row[i]]
           IN  t.row = R /\ t.files = s.files \cup Named(R, D) /\ t.queue = s.queue /\ IsStore(t)
<1> DEFINE R == [i \in Ids |-> IF i \in D THEN Spilled(s, i, s.row[i].v, failing) ELSE s.row[i]]
           o == Keep(s.order, Ids \ D) \o Keep(s.order, D)
           F == s.files \cup Named(R, D)
           t == Demoted(s, D, failing)
<1>1. s = [row |-> s.row, order |-> s.order, queue |-> s.queue, files |-> s.files]
  BY DEF IsStore
<1>2. t = [s EXCEPT !.row = R, !.order = o, !.files = F]
  BY Zenon DEF Demoted
<1> HIDE DEF t, R, o, F
<1>3. t = [row |-> R, order |-> o, queue |-> s.queue, files |-> F]
  BY <1>1, <1>2
<1>4. t.row = R /\ t.order = o /\ t.queue = s.queue /\ t.files = F
  BY <1>3
<1>5. IsRows(R)
  BY RowKinds DEF IsRows, IsStore, Kinds, R, Spilled
<1>6. IsStore(t)
  BY <1>3, <1>4, <1>5 DEF IsStore
<1> QED
  BY <1>4, <1>6 DEF t, R, F

\* Only residents are demoted.
LEMMA DemotedShrinks ==
    ASSUME NEW s, IsStore(s), NEW failing,
           NEW D, \A i \in D : i \in Ids /\ s.row[i].kind = "resident"
    PROVE  Shrunk(s, Demoted(s, D, failing))
<1> DEFINE R == [i \in Ids |-> IF i \in D THEN Spilled(s, i, s.row[i].v, failing) ELSE s.row[i]]
           t == Demoted(s, D, failing)
<1>1. t.row = R /\ t.files = s.files \cup Named(R, D)
  BY DemotedFields
<1>2. ASSUME NEW i \in D
      PROVE  /\ R[i] = Tombstone(s.row[i].v) \/ R[i] = Stub(s.row[i].v, FreeName(s, i, s.row[i].v))
             /\ R[i].kind \in {"spill", "spill-failed"} /\ R[i].v = s.row[i].v
  BY <1>2, RowKinds DEF Spilled
<1>3. ASSUME NEW i \in Ids
      PROVE  Lesser(R[i], s.row[i])
  BY <1>2 DEF Lesser, Named
<1>4. ASSUME NEW f \in Named(R, D)
      PROVE  \E i \in Ids : s.row[i].kind = "resident" /\ f = File(i, s.row[i].v, f.g)
  <2>1. PICK i \in D : f = File(i, R[i].v, R[i].g)
    BY DEF Named
  <2>2. f.g = R[i].g
    BY <2>1 DEF File
  <2> QED
    BY <2>1, <2>2, <1>2
<1> HIDE DEF R, t
<1> QED
  BY <1>1, <1>3, <1>4 DEF Shrunk, t

\* Two such steps are one.
LEMMA ShrunkTwice ==
    ASSUME NEW s, NEW t, NEW u, Shrunk(s, t), Shrunk(t, u)
    PROVE  Shrunk(s, u)
<1>1. ASSUME NEW i \in Ids
      PROVE  /\ Lesser(u.row[i], s.row[i])
             /\ t.row[i].kind = "resident" => s.row[i] = t.row[i]
  BY DEF Shrunk, Lesser
<1>2. ASSUME NEW f \in u.files \ s.files
      PROVE  \E i \in Ids : s.row[i].kind = "resident" /\ f = File(i, s.row[i].v, f.g)
  BY <1>1 DEF Shrunk
<1> QED
  BY <1>1, <1>2 DEF Shrunk

LEMMA PrunedShrinks ==
    ASSUME NEW s, IsStore(s), NEW failing
    PROVE  Shrunk(s, Pruned(s, failing)) /\ IsStore(Pruned(s, failing))
<1> DEFINE unexpired == Deleted(s, Expired(s))
           counted == Deleted(unexpired, Oldest(unexpired))
           residents == {i \in Ids : counted.row[i].kind = "resident"}
           D == {i \in residents : \A p \in UpTo(counted, i, residents) :
                    ~Fits(Demoted(counted, UpTo(counted, p, residents) \ {p}, failing))}
           demoted == Demoted(counted, D, failing)
           E == {i \in Rows(demoted) : \A p \in UpTo(demoted, i, Rows(demoted)) :
                    ~Fits(Deleted(demoted, UpTo(demoted, p, Rows(demoted)) \ {p}))}
<1>1. Pruned(s, failing) = Deleted(demoted, E)
  BY DEF Pruned
<1>2. \A i \in D : i \in Ids /\ counted.row[i].kind = "resident"
  OBVIOUS
<1> HIDE DEF D, E
<1>3. IsStore(unexpired) /\ Shrunk(s, unexpired)
  BY DeletedFields, DeletedShrinks
<1> HIDE DEF unexpired
<1>4. IsStore(counted) /\ Shrunk(unexpired, counted)
  BY <1>3, DeletedFields, DeletedShrinks
<1> HIDE DEF counted
<1>5. IsStore(demoted)
  BY <1>4, DemotedFields
<1>6. Shrunk(counted, demoted)
  BY <1>2, <1>4, DemotedShrinks
<1> HIDE DEF demoted
<1>7. IsStore(Deleted(demoted, E)) /\ Shrunk(demoted, Deleted(demoted, E))
  BY <1>5, DeletedFields, DeletedShrinks
<1>8. Shrunk(s, Deleted(demoted, E))
  BY <1>3, <1>4, <1>6, <1>7, ShrunkTwice
<1> QED
  BY <1>1, <1>7, <1>8

LEMMA PlacedFields ==
    ASSUME NEW s, IsStore(s), NEW i \in Ids, NEW r, r.kind \in Kinds, r.v \in Nat
    PROVE  LET t == Placed(s, i, r)
           IN  t.row = [s.row EXCEPT ![i] = r] /\ t.files = s.files /\ t.queue = s.queue /\ IsStore(t)
<1> DEFINE R == [s.row EXCEPT ![i] = r]
           o == Append(Keep(s.order, Ids \ {i}), i)
           t == Placed(s, i, r)
<1>1. s = [row |-> s.row, order |-> s.order, queue |-> s.queue, files |-> s.files]
  BY DEF IsStore
<1>2. t = [s EXCEPT !.row = R, !.order = o]
  BY <1>1, Zenon DEF Placed
<1> HIDE DEF t, o, R
<1>3. t = [row |-> R, order |-> o, queue |-> s.queue, files |-> s.files]
  BY <1>1, <1>2
<1>4. t.row = R /\ t.order = o /\ t.queue = s.queue /\ t.files = s.files
  BY <1>3
<1>5. IsRows(R)
  BY DEF IsRows, IsStore, R
<1>6. IsStore(t)
  BY <1>3, <1>4, <1>5 DEF IsStore
<1> QED
  BY <1>4, <1>6 DEF t, R

LEMMA SupersededFields ==
    ASSUME NEW s, IsStore(s), NEW f
    PROVE  LET t == Superseded(s, f)
           IN  /\ t.row = s.row /\ t.files \subseteq s.files /\ IsStore(t)
               /\ \/ t.queue = Append(s.queue, f) /\ t.files = s.files
                  \/ /\ t.queue = Tail(Append(s.queue, f))
                     /\ t.files = s.files \ {Head(Append(s.queue, f))}
<1> DEFINE q == Append(s.queue, f)
           t == Superseded(s, f)
<1>1. s = [row |-> s.row, order |-> s.order, queue |-> s.queue, files |-> s.files]
  BY DEF IsStore
<1>2. t = IF Len(q) > QueueMax THEN [s EXCEPT !.queue = Tail(q), !.files = s.files \ {Head(q)}]
                               ELSE [s EXCEPT !.queue = q]
  BY Zenon DEF Superseded
<1> HIDE DEF t, q
<1>3. \/ t = [row |-> s.row, order |-> s.order, queue |-> Tail(q), files |-> s.files \ {Head(q)}]
      \/ t = [row |-> s.row, order |-> s.order, queue |-> q, files |-> s.files]
  BY <1>1, <1>2
<1>4. /\ t = [row |-> t.row, order |-> t.order, queue |-> t.queue, files |-> t.files]
      /\ t.row = s.row
      /\ \/ t.queue = q /\ t.files = s.files
         \/ t.queue = Tail(q) /\ t.files = s.files \ {Head(q)}
  BY <1>3
<1> QED
  BY <1>4 DEF IsStore, q, t

\* What a row that is set leaves of the others.
LEMMA ReplacedFields ==
    ASSUME NEW s, IsStore(s), NEW i \in Ids, NEW r, r.kind \in Kinds, r.v \in Nat
    PROVE  LET t == Replaced(s, i, r)
           IN  t.row = [s.row EXCEPT ![i] = r] /\ t.files \subseteq s.files /\ IsStore(t)
<1> DEFINE p == Placed(s, i, r)
<1>1. p.row = [s.row EXCEPT ![i] = r] /\ p.files = s.files /\ IsStore(p)
  BY PlacedFields
<1> HIDE DEF p
<1>2. CASE s.row[i].kind = "spill"
  <2> DEFINE f == File(i, s.row[i].v, s.row[i].g)
             t == Superseded(p, f)
  <2>1. Replaced(s, i, r) = t
    BY <1>2 DEF Replaced, p
  <2> HIDE DEF f
  <2>2. t.row = p.row /\ t.files \subseteq p.files /\ IsStore(t)
    BY <1>1, SupersededFields
  <2> QED
    BY <1>1, <2>1, <2>2
<1>3. CASE s.row[i].kind # "spill"
  BY <1>1, <1>3 DEF Replaced, p
<1> QED
  BY <1>2, <1>3

\* The row that a response leaves is its own, or says that there is none; the
\* only new file is its own.
LEMMA AdmittedFields ==
    ASSUME NEW s, IsStore(s), NEW i \in Ids, NEW v \in Nat, NEW size, NEW failing
    PROVE  LET t == Admitted(s, i, v, size, failing)
           IN  /\ IsStore(t)
               /\ \A j \in Ids \ {i} : t.row[j] = s.row[j]
               /\ \/ t.row[i].kind = "spill-failed"
                  \/ t.row[i].kind \in {"resident", "spill"} /\ t.row[i].v = v
               /\ \A f \in t.files \ s.files : f.id = i /\ f.v = v
<1> DEFINE g == FreeName(s, i, v)
           f == File(i, v, g)
           u == [s EXCEPT !.files = @ \cup {f}]
           t == Admitted(s, i, v, size, failing)
           w == IF s.row[i].kind = "none" THEN v ELSE s.row[i].v
<1>1. s = [row |-> s.row, order |-> s.order, queue |-> s.queue, files |-> s.files]
      /\ IsRows(s.row)
  BY DEF IsStore
<1>2. w \in Nat
  BY <1>1 DEF IsRows
<1>3. \/ t = Replaced(s, i, Tombstone(w))
      \/ t = Replaced(u, i, Stub(v, g))
      \/ t = Placed(s, i, Resident(v, size))
  BY Zenon DEF Admitted
<1>4. f.id = i /\ f.v = v
  BY DEF File
<1> HIDE DEF g, f, w, t
<1>5. u = [row |-> s.row, order |-> s.order, queue |-> s.queue, files |-> s.files \cup {f}]
  BY <1>1
<1>6. IsStore(u) /\ u.row = s.row /\ u.files = s.files \cup {f}
  BY <1>1, <1>5 DEF IsStore
<1> HIDE DEF u
<1>7. CASE t = Replaced(s, i, Tombstone(w))
  <2>1. Tombstone(w).kind = "spill-failed" /\ Tombstone(w).v = w
    BY RowKinds
  <2>2. t.row = [s.row EXCEPT ![i] = Tombstone(w)] /\ t.files \subseteq s.files /\ IsStore(t)
    BY <1>2, <1>7, <2>1, ReplacedFields DEF Kinds
  <2> QED
    BY <1>1, <2>1, <2>2 DEF IsRows, t
<1>8. CASE t = Replaced(u, i, Stub(v, g))
  <2>1. Stub(v, g).kind = "spill" /\ Stub(v, g).v = v
    BY RowKinds
  <2>2. t.row = [u.row EXCEPT ![i] = Stub(v, g)] /\ t.files \subseteq u.files /\ IsStore(t)
    BY <1>6, <1>8, <2>1, ReplacedFields DEF Kinds
  <2> QED
    BY <1>1, <1>4, <1>6, <2>1, <2>2 DEF IsRows, t
<1>9. CASE t = Placed(s, i, Resident(v, size))
  <2>1. Resident(v, size).kind = "resident" /\ Resident(v, size).v = v
    BY RowKinds
  <2>2. t.row = [s.row EXCEPT ![i] = Resident(v, size)] /\ t.files = s.files /\ IsStore(t)
    BY <1>9, <2>1, PlacedFields DEF Kinds
  <2> QED
    BY <1>1, <2>1, <2>2 DEF IsRows, t
<1> QED
  BY <1>3, <1>7, <1>8, <1>9

-----------------------------------------------------------------------------
(* Pictures.                                                               *)

\* No picture has in a file what is in memory: a file that is written for it
\* brings nothing back.
Apart(R, Q) ==
    \A i \in Ids : Q[i].kind = "resident" /\ R[i].kind = "spill" => R[i].v # Q[i].v

Remembered(R, L) ==
    \A i \in Ids : R[i].kind \in {"resident", "spill"} => R[i].v <= L[i]

LEMMA FewerTwice ==
    ASSUME NEW f, NEW g, NEW h, Cache!Fewer(f, g), Cache!Fewer(g, h)
    PROVE  Cache!Fewer(f, h)
BY DEF Cache!Fewer

\* Files that no spilled row of R names make no difference to it.
LEMMA ViewWithFiles ==
    ASSUME NEW R, NEW F, NEW G,
           \A i \in Ids : R[i].kind = "spill" => File(i, R[i].v, R[i].g) \notin G \ F
    PROVE  /\ Cache!Fewer(View(R, G), View(R, F))
           /\ F \subseteq G => View(R, G) = View(R, F)
BY DEF View, Replayed, Cache!Fewer

LEMMA ShrunkView ==
    ASSUME NEW s, NEW t, Shrunk(s, t), NEW R, Apart(R, s.row)
    PROVE  Cache!Fewer(View(R, t.files), View(R, s.files))
<1>1. ASSUME NEW i \in Ids, R[i].kind = "spill", File(i, R[i].v, R[i].g) \in t.files \ s.files
      PROVE  FALSE
  <2> DEFINE f == File(i, R[i].v, R[i].g)
  <2>1. f.id = i /\ f.v = R[i].v
    BY DEF File
  <2>2. PICK j \in Ids : s.row[j].kind = "resident" /\ f = File(j, s.row[j].v, f.g)
    BY <1>1 DEF Shrunk
  <2>3. f.id = j /\ f.v = s.row[j].v
    BY <2>2 DEF File
  <2> QED
    BY <1>1, <2>1, <2>2, <2>3 DEF Apart
<1> QED
  BY <1>1, ViewWithFiles

LEMMA ShrunkRows ==
    ASSUME NEW s, NEW t, Shrunk(s, t)
    PROVE  Cache!Fewer(View(t.row, t.files), View(s.row, s.files))
<1>1. Cache!Fewer(View(s.row, t.files), View(s.row, s.files))
  BY ShrunkView DEF Apart
<1>2. Cache!Fewer(View(t.row, t.files), View(s.row, t.files))
  BY DEF Shrunk, Lesser, View, Replayed, Cache!Fewer
<1> QED
  BY <1>1, <1>2, FewerTwice

LEMMA ShrunkApart ==
    ASSUME NEW s, NEW t, Shrunk(s, t), NEW R, Apart(R, s.row)
    PROVE  Apart(R, t.row)
BY DEF Shrunk, Lesser, Apart

LEMMA ShrunkRemembered ==
    ASSUME NEW s, NEW t, Shrunk(s, t), NEW L, Remembered(s.row, L)
    PROVE  Remembered(t.row, L)
BY DEF Shrunk, Lesser, Remembered

-----------------------------------------------------------------------------
(* The invariant: what is known of the rows in memory, in the snapshot and  *)
(* in the picture that is being written.                                    *)

IsWriter(w) ==
    w = [stage |-> w.stage, kind |-> w.kind, attempt |-> w.attempt, picture |-> w.picture]

RowsInv ==
    /\ IsRows(row) /\ IsRows(snapshot.row) /\ IsRows(writer.picture.row)
    /\ Remembered(row, last) /\ Remembered(snapshot.row, last)
    /\ Remembered(writer.picture.row, last)
    /\ Apart(snapshot.row, row) /\ Apart(writer.picture.row, row)

RestInv ==
    ~loaded => row = NoRows /\ writer = NoWriter /\ waiting = <<>> /\ ~timer

CacheInv == RowsInv /\ RestInv /\ IsWriter(writer) /\ last \in [Ids -> Nat]

LEMMA NothingThere ==
    /\ IsRows(NoRows) /\ IsWriter(NoWriter)
    /\ NoWriter.picture.row = NoRows
    /\ \A i \in Ids : NoRows[i] = Absent
    /\ \A F : View(NoRows, F) = Cache!Nothing
    /\ \A L : Remembered(NoRows, L)
    /\ \A R : Apart(NoRows, R) /\ Apart(R, NoRows)
<1>1. /\ \A i \in Ids : NoRows[i] = Absent /\ NoRows[i].kind = "none"
      /\ NoRows = [i \in Ids |-> NoRows[i]]
  BY RowKinds DEF NoRows
<1>2. IsRows(NoRows)
  BY <1>1, RowKinds DEF IsRows, Kinds
<1>3. \A F : View(NoRows, F) = Cache!Nothing
  BY <1>1 DEF View, Replayed, Cache!Nothing
<1>4. IsWriter(NoWriter) /\ NoWriter.picture.row = NoRows
  BY DEF IsWriter, NoWriter, NoSnapshot
<1> QED
  BY <1>1, <1>2, <1>3, <1>4 DEF Remembered, Apart

LEMMA StoreFields ==
    ASSUME CacheInv
    PROVE  IsStore(Store) /\ Store.row = row /\ Store.files = files
BY DEF CacheInv, RowsInv, IsStore, Store

LEMMA InitCache == Init => CacheInv /\ Cache!Init
<1> SUFFICES ASSUME Init PROVE CacheInv /\ Cache!Init
  OBVIOUS
<1>1. /\ row = NoRows /\ snapshot.row = NoRows /\ writer = NoWriter
      /\ last = Cache!Nothing /\ waiting = <<>> /\ ~timer /\ ~loaded
  BY DEF Init, NoSnapshot, Cache!Nothing
<1>2. last \in [Ids -> Nat]
  BY <1>1 DEF Cache!Nothing
<1> QED
  BY <1>1, <1>2, NothingThere DEF CacheInv, RowsInv, RestInv, Cache!Init

\* A step that lets rows shrink, whatever it does to files that rows do not name.
LEMMA Forgets ==
    ASSUME CacheInv, loaded, loaded',
           NEW t, IsStore(t), Shrunk(Store, t), row' = t.row, files' = t.files,
           UNCHANGED <<snapshot, last>>, IsWriter(writer'),
           writer'.picture = writer.picture \/ writer' = NoWriter
    PROVE  Cache!Forget /\ CacheInv'
<1>1. Store.row = row /\ Store.files = files
  BY StoreFields
<1>2. Cache!Fewer(View(row', files'), View(row, files))
  BY <1>1, ShrunkRows
<1>3. Cache!Fewer(View(snapshot.row, files'), View(snapshot.row, files))
  BY <1>1, ShrunkView DEF CacheInv, RowsInv
<1>4. Cache!Fewer(View(writer.picture.row, files'), View(writer.picture.row, files))
  BY <1>1, ShrunkView DEF CacheInv, RowsInv
<1>5. Apart(snapshot.row, row') /\ Apart(writer.picture.row, row') /\ Remembered(row', last)
  BY <1>1, ShrunkApart, ShrunkRemembered DEF CacheInv, RowsInv
<1>6. IsRows(row')
  BY DEF IsStore
<1>7. CASE writer'.picture = writer.picture
  BY <1>2, <1>3, <1>4, <1>5, <1>6, <1>7 DEF CacheInv, RowsInv, RestInv, Cache!Forget
<1>8. CASE writer' = NoWriter
  <2>1. Cache!Fewer(View(writer'.picture.row, files'), View(writer.picture.row, files))
    BY <1>8, NothingThere DEF Cache!Fewer, Cache!Nothing
  <2> QED
    BY <1>2, <1>3, <1>5, <1>6, <1>8, <2>1, NothingThere
    DEF CacheInv, RowsInv, RestInv, Cache!Forget
<1> QED
  BY <1>7, <1>8

\* A step that leaves rows and files alone.
LEMMA Rests ==
    ASSUME CacheInv, UNCHANGED <<row, files, snapshot, loaded, last>>, IsWriter(writer'),
           writer'.picture = writer.picture \/ writer' = NoWriter, RestInv'
    PROVE  Cache!Forget /\ CacheInv'
<1>1. \A R : Cache!Fewer(View(R, files), View(R, files))
  BY DEF Cache!Fewer
<1>2. CASE writer'.picture = writer.picture
  BY <1>1, <1>2 DEF CacheInv, RowsInv, Cache!Forget
<1>3. CASE writer' = NoWriter
  <2>1. Cache!Fewer(View(writer'.picture.row, files'), View(writer.picture.row, files))
    BY <1>3, NothingThere DEF Cache!Fewer, Cache!Nothing
  <2> QED
    BY <1>1, <1>3, <2>1, NothingThere DEF CacheInv, RowsInv, Cache!Forget
<1> QED
  BY <1>2, <1>3

-----------------------------------------------------------------------------
(* Requests.                                                               *)

LEMMA LoadStep ==
    ASSUME CacheInv, NEW failing, Load(failing)
    PROVE  Cache!Forget /\ CacheInv'
<1>1. PICK gone \in SUBSET Orphans :
        Becomes(Pruned([row |-> snapshot.row, order |-> snapshot.order, queue |-> queue,
                        files |-> files \ gone], failing))
  BY DEF Load
<1> DEFINE F == files \ gone
           s == [row |-> snapshot.row, order |-> snapshot.order, queue |-> queue, files |-> F]
           t == Pruned(s, failing)
<1>2. /\ ~loaded /\ loaded' /\ UNCHANGED <<snapshot, writer, last>>
      /\ writer = NoWriter
  BY DEF Load, persist, written, CacheInv, RestInv
<1>3. Becomes(t)
  BY <1>1
<1> HIDE DEF F
<1>4. IsStore(s) /\ s.row = snapshot.row /\ s.files = F
  BY DEF IsStore, CacheInv, RowsInv
<1> HIDE DEF s
<1>5. Shrunk(s, t) /\ IsStore(t)
  BY <1>4, PrunedShrinks
<1> HIDE DEF t
<1>6. row' = t.row /\ files' = t.files
  BY <1>3 DEF Becomes
<1>7. Apart(snapshot.row, s.row) /\ Remembered(s.row, last)
  BY <1>4 DEF Apart, CacheInv, RowsInv
<1>8. Cache!Fewer(View(snapshot.row, F), View(snapshot.row, files))
      /\ View(snapshot.row, F) = View(snapshot.row, files)
  BY <1>1 DEF F, Orphans, Named, View, Replayed, Cache!Fewer
<1>9. Cache!Fewer(View(row', files'), View(snapshot.row, files))
  BY <1>4, <1>5, <1>6, <1>8, ShrunkRows
<1>10. Cache!Fewer(View(snapshot.row, files'), View(snapshot.row, files))
  BY <1>4, <1>5, <1>6, <1>7, <1>8, ShrunkView
<1>11. Cache!Fewer(View(writer'.picture.row, files'), View(writer.picture.row, files))
  BY <1>2, NothingThere DEF Cache!Fewer, Cache!Nothing
<1>12. Apart(snapshot.row, row') /\ Remembered(row', last) /\ IsRows(row')
  BY <1>5, <1>6, <1>7, ShrunkApart, ShrunkRemembered DEF IsStore
<1>13. CacheInv'
  BY <1>2, <1>12, NothingThere DEF CacheInv, RowsInv, RestInv
<1> QED
  BY <1>2, <1>9, <1>10, <1>11, <1>13 DEF Cache!Forget

LEMMA RememberStep ==
    ASSUME CacheInv, NEW i \in Ids, NEW v \in NextVersions, NEW size, NEW failing,
           Remember(i, v, size, failing)
    PROVE  Cache!Remember /\ CacheInv'
<1> DEFINE u == Admitted(Store, i, v, size, failing)
           t == Pruned(u, failing)
<1>1. /\ loaded /\ loaded' /\ UNCHANGED <<snapshot, writer>>
      /\ last' = [last EXCEPT ![i] = v] /\ row' = t.row /\ files' = t.files
  BY DEF Remember, written, Becomes
<1>2. v \in Nat /\ \A j \in Ids : last[j] < v
  BY ResponseAssumption DEF NextVersions
<1>3. Store.row = row /\ Store.files = files /\ IsStore(Store)
  BY StoreFields
<1>4. /\ IsStore(u)
      /\ \A j \in Ids \ {i} : u.row[j] = row[j]
      /\ \/ u.row[i].kind = "spill-failed"
         \/ u.row[i].kind \in {"resident", "spill"} /\ u.row[i].v = v
      /\ \A f \in u.files \ files : f.id = i /\ f.v = v
  BY <1>2, <1>3, AdmittedFields
<1> HIDE DEF u
<1>5. Shrunk(u, t) /\ IsStore(t)
  BY <1>4, PrunedShrinks
<1> HIDE DEF t
<1>6. last' \in [Ids -> Nat] /\ last'[i] = v /\ \A j \in Ids : last[j] <= last'[j]
  BY <1>1, <1>2 DEF CacheInv
<1>7. ASSUME NEW R, IsRows(R), Remembered(R, last)
      PROVE  /\ Apart(R, u.row) \/ ~Apart(R, row)
             /\ Cache!Fewer(View(R, u.files), View(R, files))
             /\ Remembered(R, last')
  <2>1. ASSUME NEW j \in Ids, R[j].kind = "spill"
        PROVE  R[j].v < v /\ R[j].v # v /\ File(j, R[j].v, R[j].g) \notin u.files \ files
    BY <1>2, <1>4, <1>7, <2>1 DEF Remembered, IsRows, CacheInv, File
  <2>2. Cache!Fewer(View(R, u.files), View(R, files))
    BY <2>1, ViewWithFiles
  <2>3. Apart(R, row) => Apart(R, u.row)
    BY <1>4, <2>1 DEF Apart
  <2>4. Remembered(R, last')
    BY <1>6, <1>7 DEF Remembered, IsRows, CacheInv
  <2> QED
    BY <2>2, <2>3, <2>4
<1>8. Remembered(u.row, last')
  BY <1>4, <1>6, <1>7 DEF Remembered, CacheInv, RowsInv
<1>9. Cache!Fewer(View(u.row, u.files), [View(row, files) EXCEPT ![i] = v])
  <2>1. ASSUME NEW j \in Ids \ {i}
        PROVE  View(u.row, u.files)[j] \in {View(row, files)[j], 0}
    <3>1. View(row, u.files)[j] \in {View(row, files)[j], 0}
      BY <1>7 DEF CacheInv, RowsInv, Cache!Fewer
    <3> QED
      BY <1>4, <3>1 DEF View, Replayed
  <2>2. View(u.row, u.files)[i] \in {v, 0}
    BY <1>4 DEF View, Replayed
  <2> QED
    BY <2>1, <2>2 DEF Cache!Fewer, View
<1>10. Cache!Fewer(View(row', files'), [View(row, files) EXCEPT ![i] = v])
  BY <1>1, <1>5, <1>9, ShrunkRows, FewerTwice
<1>11. ASSUME NEW R, IsRows(R), Remembered(R, last), Apart(R, row)
       PROVE  /\ Cache!Fewer(View(R, files'), View(R, files))
              /\ Apart(R, row') /\ Remembered(R, last')
  BY <1>1, <1>5, <1>7, <1>11, ShrunkView, ShrunkApart, FewerTwice
<1>12. Remembered(row', last') /\ IsRows(row')
  BY <1>1, <1>5, <1>8, ShrunkRemembered DEF IsStore
<1>13. CacheInv'
  BY <1>1, <1>6, <1>11, <1>12 DEF CacheInv, RowsInv, RestInv
<1>14. Cache!Fewer(View(snapshot.row, files'), View(snapshot.row, files))
       /\ Cache!Fewer(View(writer.picture.row, files'), View(writer.picture.row, files))
  BY <1>11 DEF CacheInv, RowsInv
<1> QED
  BY <1>1, <1>2, <1>6, <1>10, <1>13, <1>14 DEF Cache!Remember

LEMMA ExpandStep ==
    ASSUME CacheInv, NEW i \in Ids, NEW failing, Expand(i, failing)
    PROVE  Cache!Forget /\ CacheInv'
<1> DEFINE s == Pruned(Store, failing)
           lost == s.row[i].kind = "spill" /\ File(i, s.row[i].v, s.row[i].g) \notin s.files
           r == Tombstone(s.row[i].v)
           t == IF lost THEN Placed(s, i, r) ELSE s
<1>1. /\ loaded /\ loaded' /\ UNCHANGED <<snapshot, writer, last>>
      /\ row' = t.row /\ files' = t.files
  BY DEF Expand, written, past, Becomes
<1>2. IsStore(s) /\ Shrunk(Store, s)
  BY StoreFields, PrunedShrinks
<1> HIDE DEF s
<1>3. r.kind = "spill-failed" /\ r.v \in Nat
  BY <1>2, RowKinds DEF IsStore, IsRows
<1> HIDE DEF r
<1>4. IsStore(t) /\ Shrunk(s, t)
  <2> DEFINE p == Placed(s, i, r)
  <2>1. p.row = [s.row EXCEPT ![i] = r] /\ p.files = s.files /\ IsStore(p)
    BY <1>2, <1>3, PlacedFields DEF Kinds
  <2> HIDE DEF p, lost
  <2>2. Shrunk(s, p)
    BY <1>2, <1>3, <2>1 DEF Shrunk, Lesser, IsStore, IsRows
  <2>3. Shrunk(s, s)
    BY DEF Shrunk, Lesser
  <2> QED
    BY <1>2, <2>1, <2>2, <2>3 DEF p
<1> HIDE DEF t
<1>5. Shrunk(Store, t)
  BY <1>2, <1>4, ShrunkTwice
<1>6. IsWriter(writer')
  BY <1>1 DEF CacheInv
<1> QED
  BY <1>1, <1>4, <1>5, <1>6, Forgets

LEMMA SweepStep ==
    ASSUME CacheInv, Sweep
    PROVE  Cache!Forget /\ CacheInv'
<1> DEFINE t == Deleted(Store, Expired(Store))
<1>1. /\ UNCHANGED <<snapshot, writer, last, loaded>>
      /\ Expired(Store) # {} /\ row' = t.row /\ files' = t.files
  BY DEF Sweep, written, past, Becomes
<1>2. loaded
  BY <1>1, NothingThere, StoreFields, RowKinds DEF Expired, CacheInv, RestInv
<1>3. IsStore(t) /\ Shrunk(Store, t)
  BY StoreFields, DeletedFields, DeletedShrinks
<1> HIDE DEF t
<1>4. IsWriter(writer')
  BY <1>1 DEF CacheInv
<1> QED
  BY <1>1, <1>2, <1>3, <1>4, Forgets

LEMMA BudgetEvictStep ==
    ASSUME CacheInv, NEW failing, BudgetEvict(failing)
    PROVE  Cache!Forget /\ CacheInv'
<1>1. PICK i \in Residents : Becomes(Demoted(Store, {i}, failing))
  BY DEF BudgetEvict
<1> DEFINE t == Demoted(Store, {i}, failing)
<1>2. /\ UNCHANGED <<snapshot, writer, last, loaded>>
      /\ row' = t.row /\ files' = t.files
  BY <1>1 DEF BudgetEvict, written, past, Becomes
<1>3. i \in Ids /\ row[i].kind = "resident"
  BY DEF Residents
<1>4. loaded
  BY <1>3, NothingThere, RowKinds DEF CacheInv, RestInv
<1>5. IsStore(t) /\ Shrunk(Store, t)
  BY <1>3, StoreFields, DemotedFields, DemotedShrinks
<1> HIDE DEF t
<1>6. IsWriter(writer')
  BY <1>2 DEF CacheInv
<1> QED
  BY <1>2, <1>4, <1>5, <1>6, Forgets

-----------------------------------------------------------------------------
(* The snapshot.                                                           *)

LEMMA PictureRows ==
    /\ \A i \in Ids : Picture.row[i] \in {row[i], Absent}
    /\ Picture.row = [j \in Ids |-> Picture.row[j]]
BY DEF Picture

\* A picture of the rows is part of them.
LEMMA TakeStep ==
    ASSUME CacheInv, UNCHANGED <<row, files, snapshot, last, loaded>>, loaded,
           IsWriter(writer'), writer'.picture = Picture
    PROVE  Cache!Take /\ CacheInv'
<1> DEFINE R == Picture.row
<1>1. /\ \A i \in Ids : R[i] \in {row[i], Absent}
      /\ R = [i \in Ids |-> R[i]]
  BY PictureRows
<1>2. writer'.picture.row = R
  OBVIOUS
<1> HIDE DEF R
<1>3. Cache!Fewer(View(R, files), View(row, files))
  BY <1>1, RowKinds DEF View, Replayed, Cache!Fewer
<1>4. Remembered(R, last) /\ Apart(R, row)
  BY <1>1, RowKinds DEF CacheInv, RowsInv, Remembered, Apart
<1>5. IsRows(R)
  BY <1>1, RowKinds DEF CacheInv, RowsInv, IsRows, Kinds
<1>6. CacheInv'
  BY <1>2, <1>4, <1>5 DEF CacheInv, RowsInv, RestInv
<1> QED
  BY <1>2, <1>3, <1>6 DEF Cache!Take

LEMMA WritingStep ==
    ASSUME CacheInv, Writing
    PROVE  Cache!Next /\ CacheInv'
<1>1. writer = [stage |-> writer.stage, kind |-> writer.kind, attempt |-> writer.attempt,
                picture |-> writer.picture]
  BY DEF CacheInv, IsWriter
<1>2. writer.stage # "idle" \/ waiting # <<>> => loaded
  BY DEF CacheInv, RestInv, NoWriter
<1>3. CASE BeginWrite
  <2>1. /\ UNCHANGED <<row, files, snapshot, last, loaded>> /\ loaded
        /\ IsWriter(writer') /\ writer'.picture = Picture
    BY <1>2, <1>3 DEF BeginWrite, rows, past, IsWriter
  <2> QED
    BY <2>1, TakeStep DEF Cache!Next
<1>4. CASE Awaited
  <2>1. UNCHANGED <<row, files, snapshot, writer, last, loaded>> /\ loaded
    BY <1>2, <1>4 DEF Awaited, Awaiting, rows, past
  <2> QED
    BY <2>1, Rests DEF CacheInv, RestInv, Cache!Next
<1>5. CASE Rename
  <2>1. /\ UNCHANGED <<row, files, last, loaded>> /\ loaded
        /\ snapshot' = writer.picture
        /\ IsWriter(writer') /\ writer'.picture = writer.picture
    BY <1>1, <1>2, <1>5 DEF Rename, rows, past, IsWriter
  <2> QED
    BY <2>1 DEF CacheInv, RowsInv, RestInv, Cache!Next, Cache!Save
<1>6. CASE Stable
  <2> DEFINE t == [row |-> row, order |-> order, queue |-> queue, files |-> files']
  <2>1. /\ UNCHANGED <<row, snapshot, last, loaded>> /\ loaded
        /\ files' \subseteq files /\ writer' = NoWriter
    BY <1>2, <1>6 DEF Stable, Idle, past
  <2>2. IsStore(t) /\ t.row = row /\ t.files = files'
    BY DEF IsStore, CacheInv, RowsInv
  <2> HIDE DEF t
  <2>3. Shrunk(Store, t)
    BY <2>1, <2>2, StoreFields DEF Shrunk, Lesser
  <2> QED
    BY <2>1, <2>2, <2>3, Forgets, NothingThere DEF Cache!Next
<1>7. CASE Again
  <2>1. /\ UNCHANGED <<row, files, snapshot, last, loaded>> /\ loaded
        /\ IsWriter(writer') /\ writer'.picture = Picture
    BY <1>1, <1>2, <1>7 DEF Again, rows, past, IsWriter
  <2> QED
    BY <2>1, TakeStep DEF Cache!Next
<1>8. CASE Unstable
  <2>1. /\ UNCHANGED <<row, files, snapshot, last, loaded>> /\ loaded
        /\ IsWriter(writer') /\ writer'.picture = writer.picture
    BY <1>1, <1>2, <1>8 DEF Unstable, rows, past, IsWriter
  <2> QED
    BY <2>1, Rests DEF RestInv, Cache!Next
<1>9. CASE FollowUp
  <2>1. /\ UNCHANGED <<row, files, snapshot, last, loaded>> /\ loaded
        /\ writer' = NoWriter
    BY <1>2, <1>9 DEF FollowUp, Idle, rows, past
  <2> QED
    BY <2>1, Rests, NothingThere DEF RestInv, Cache!Next
<1> QED
  BY <1>3, <1>4, <1>5, <1>6, <1>7, <1>8, <1>9 DEF Writing

\* A restart begins with the snapshot; payloads that were on their way to a file
\* are nobody's.
LEMMA CrashStep ==
    ASSUME CacheInv, NEW published, published = {} \/ \E f \in Published : published = {f},
           Crash(published)
    PROVE  Cache!Restart /\ CacheInv'
<1>1. /\ loaded /\ ~loaded' /\ row' = NoRows /\ writer' = NoWriter /\ waiting' = <<>> /\ ~timer'
      /\ files' = files \cup published /\ UNCHANGED <<snapshot, last>>
  BY DEF Crash
<1>2. ASSUME NEW i \in Ids, snapshot.row[i].kind = "spill",
             File(i, snapshot.row[i].v, snapshot.row[i].g) \in files' \ files
      PROVE  FALSE
  <2> DEFINE f == File(i, snapshot.row[i].v, snapshot.row[i].g)
  <2>1. f.id = i /\ f.v = snapshot.row[i].v
    BY DEF File
  <2>2. f \in Published
    BY <1>1, <1>2
  <2> HIDE DEF f
  <2>3. PICK p \in {<<j, row[j].v>> : j \in Residents} \cup Ids \X NextVersions :
               f = File(p[1], p[2], FreeName(Store, p[1], p[2]))
    BY <2>2 DEF Published
  <2>4. p[1] = i /\ p[2] = snapshot.row[i].v
    BY <2>1, <2>3 DEF File
  <2>5. CASE p \in {<<j, row[j].v>> : j \in Residents}
    <3>1. row[i].kind = "resident" /\ row[i].v = snapshot.row[i].v
      BY <2>4, <2>5 DEF Residents
    <3> QED
      BY <1>2, <3>1 DEF CacheInv, RowsInv, Apart
  <2>6. CASE p \in Ids \X NextVersions
    <3>1. snapshot.row[i].v \in Nat /\ last[i] \in Nat /\ last[i] < snapshot.row[i].v
      BY <2>4, <2>6 DEF NextVersions, CacheInv, RowsInv, IsRows
    <3> QED
      BY <1>2, <3>1 DEF CacheInv, RowsInv, Remembered
  <2> QED
    BY <2>3, <2>5, <2>6
<1>3. View(snapshot.row, files') = View(snapshot.row, files)
  BY <1>1, <1>2, ViewWithFiles
<1>4. Cache!Fewer(View(snapshot.row, files'), View(snapshot.row, files))
  BY <1>3 DEF Cache!Fewer
<1>5. Cache!Fewer(View(writer'.picture.row, files'), View(writer.picture.row, files))
  BY <1>1, NothingThere DEF Cache!Fewer, Cache!Nothing
<1>6. CacheInv'
  BY <1>1, NothingThere DEF CacheInv, RowsInv, RestInv
<1> QED
  BY <1>1, <1>3, <1>4, <1>5, <1>6 DEF Cache!Restart

-----------------------------------------------------------------------------
(* The refinement.                                                         *)

LEMMA NextCache ==
    ASSUME CacheInv, [Next]_vars
    PROVE  [Cache!Next]_<<View(IF loaded THEN row ELSE snapshot.row, files),
                          View(writer.picture.row, files), View(snapshot.row, files), last>>
           /\ CacheInv'
<1>1. CASE Requests
  <2>1. PICK failing \in SUBSET Ids :
          \/ Load(failing) \/ BudgetEvict(failing)
          \/ \E i \in Ids : Expand(i, failing)
          \/ \E i \in Ids, v \in NextVersions, size \in Sizes : Remember(i, v, size, failing)
    BY <1>1 DEF Requests
  <2> QED
    BY <2>1, LoadStep, BudgetEvictStep, ExpandStep, RememberStep DEF Cache!Next
<1>2. CASE Sweep
  BY <1>2, SweepStep DEF Cache!Next
<1>3. CASE Age
  <2>1. UNCHANGED <<row, files, snapshot, writer, last, loaded, waiting, timer>>
    BY <1>3 DEF Age, rows, persist, written
  <2> QED
    BY <2>1, Rests DEF CacheInv, RestInv, Cache!Next
<1>4. CASE TimerFires
  <2>1. UNCHANGED <<row, files, snapshot, writer, last, loaded>> /\ loaded
    BY <1>4 DEF TimerFires, rows, past, CacheInv, RestInv
  <2> QED
    BY <2>1, Rests DEF CacheInv, RestInv, Cache!Next
<1>5. CASE Flush
  <2>1. UNCHANGED <<row, files, snapshot, writer, last, loaded>> /\ loaded
    BY <1>5 DEF Flush, rows, past
  <2> QED
    BY <2>1, Rests DEF CacheInv, RestInv, Cache!Next
<1>6. CASE Writing
  BY <1>6, WritingStep
<1>7. CASE WriteFails
  <2>1. UNCHANGED <<row, files, snapshot, last, loaded>> /\ writer' = NoWriter /\ loaded
    BY <1>7 DEF WriteFails, Idle, rows, past, CacheInv, RestInv, NoWriter
  <2> QED
    BY <2>1, Rests, NothingThere DEF CacheInv, RestInv, Cache!Next
<1>8. CASE \E published \in {{}} \cup {{f} : f \in Published} : Crash(published)
  BY <1>8, CrashStep DEF Cache!Next
<1>9. CASE UNCHANGED vars
  BY <1>9 DEF vars, rows, persist, written, past, CacheInv, RowsInv, RestInv
<1> QED
  BY <1>1, <1>2, <1>3, <1>4, <1>5, <1>6, <1>7, <1>8, <1>9 DEF Next

\* Every behaviour of the store is one of ResponseCache: whatever is evicted,
\* spilled, written, lost or restarted (state.ts, spill-store.ts), what a request
\* is continued from is the version remembered last or, after a restart, the one
\* in the last snapshot, or nothing.
THEOREM StoreImplementsCache == Spec => ImplementsCache
<1>1. Init => CacheInv /\ Cache!Init
  BY InitCache
<1>2. CacheInv /\ [Next]_vars =>
        /\ [Cache!Next]_<<View(IF loaded THEN row ELSE snapshot.row, files),
                          View(writer.picture.row, files), View(snapshot.row, files), last>>
        /\ CacheInv'
  BY NextCache
<1> QED
  BY <1>1, <1>2, PTL DEF Spec, ImplementsCache, Cache!Spec

-----------------------------------------------------------------------------
(* Sequences and numbers.                                                  *)

\* A set of numbers that holds 0 and with each number the next holds them all:
\* induction, with the set as the parameter.
LEMMA NatSets ==
    ASSUME NEW S, 0 \in S, \A n \in Nat : n \in S => n + 1 \in S
    PROVE  Nat \subseteq S
<1> DEFINE T == Nat \ S
<1> SUFFICES ASSUME T # {} PROVE FALSE
  OBVIOUS
<1>1. PICK x \in T : \A y \in T : ~(<<y, x>> \in OpToRel(<, Nat))
  <2>1. T \subseteq Nat
    OBVIOUS
  <2> HIDE DEF T
  <2> QED BY <2>1, NatLessThanWellFounded, WFMin, Zenon
<1>2. x \in Nat /\ x # 0 /\ x \notin S
  OBVIOUS
<1>3. x - 1 \in Nat /\ x - 1 + 1 = x
  BY <1>2
<1>4. x - 1 \notin T
  <2> DEFINE p == <<x - 1, x>>
  <2>1. p \in Nat \X Nat /\ p[1] < p[2]
    BY <1>2, <1>3
  <2>2. p \in OpToRel(<, Nat)
    BY <2>1 DEF OpToRel
  <2> QED
    BY <1>1, <2>2
<1> QED
  BY <1>2, <1>3, <1>4

\* What is appended to a sequence is one more of its members.
LEMMA Sequences ==
    ASSUME NEW T, NEW s \in Seq(T), NEW x \in T
    PROVE  /\ ToSet(Append(s, x)) = ToSet(s) \cup {x}
           /\ IsInjective(s) /\ x \notin ToSet(s) => IsInjective(Append(s, x))
BY DEF ToSet, IsInjective

\* The members of two sequences, one after the other.
LEMMA Concatenations ==
    ASSUME NEW T, NEW s \in Seq(T), NEW t \in Seq(T)
    PROVE  /\ ToSet(s \o t) = ToSet(s) \cup ToSet(t)
           /\ IsInjective(s) /\ IsInjective(t) /\ ToSet(s) \cap ToSet(t) = {} => IsInjective(s \o t)
<1>1. s \o t \in Seq(T) /\ Len(s \o t) = Len(s) + Len(t)
  OBVIOUS
<1>2. \A n \in 1..(Len(s) + Len(t)) : (s \o t)[n] = IF n <= Len(s) THEN s[n] ELSE t[n - Len(s)]
  OBVIOUS
<1>3. ToSet(s \o t) = ToSet(s) \cup ToSet(t)
  <2>1. ASSUME NEW y \in ToSet(t)
        PROVE  y \in ToSet(s \o t)
    <3>1. PICK n \in 1..Len(t) : y = t[n]
      BY DEF ToSet
    <3>2. n + Len(s) \in 1..(Len(s) + Len(t)) /\ n + Len(s) - Len(s) = n /\ ~(n + Len(s) <= Len(s))
      OBVIOUS
    <3> QED BY <1>1, <1>2, <3>1, <3>2 DEF ToSet
  <2>2. ASSUME NEW y \in ToSet(s)
        PROVE  y \in ToSet(s \o t)
    BY <1>1, <1>2 DEF ToSet
  <2>3. ASSUME NEW y \in ToSet(s \o t)
        PROVE  y \in ToSet(s) \cup ToSet(t)
    BY <1>1, <1>2 DEF ToSet
  <2> QED
    BY <2>1, <2>2, <2>3
<1>4. ASSUME IsInjective(s), IsInjective(t), ToSet(s) \cap ToSet(t) = {}
      PROVE IsInjective(s \o t)
  <2>1. SUFFICES ASSUME NEW m \in 1..(Len(s) + Len(t)), NEW n \in 1..(Len(s) + Len(t)), (s \o t)[m] = (s \o t)[n]
                 PROVE m = n
    BY <1>1 DEF IsInjective
  <2>2. \A k \in 1..(Len(s) + Len(t)) : k <= Len(s) => (s \o t)[k] \in ToSet(s) /\ k \in DOMAIN s
    BY <1>2 DEF ToSet
  <2>3. \A k \in 1..(Len(s) + Len(t)) : ~(k <= Len(s)) => (s \o t)[k] \in ToSet(t) /\ k - Len(s) \in DOMAIN t
    BY <1>2 DEF ToSet
  <2>4. (m <= Len(s)) <=> (n <= Len(s))
    BY <1>4, <2>1, <2>2, <2>3
  <2> QED
    BY <1>2, <1>4, <2>1, <2>2, <2>3, <2>4 DEF IsInjective
<1> QED
  BY <1>3, <1>4

\* What is kept of the first n, for every n.
Keeps(T, seq, S, f) ==
    /\ f \in [0..Len(seq) -> Seq(T)]
    /\ f[0] = <<>>
    /\ \A n \in 1..Len(seq) :
         f[n] = IF seq[n] \in S THEN Append(f[n - 1], seq[n]) ELSE f[n - 1]
    /\ Keep(seq, S) = f[Len(seq)]

\* What is kept of a sequence is counted up from nothing.
LEMMA KeepDef ==
    ASSUME NEW T, NEW seq \in Seq(T), NEW S
    PROVE  \E f : Keeps(T, seq, S, f)
<1> DEFINE More(t, n) == IF seq[n] \in S THEN Append(t, seq[n]) ELSE t
           Upto(n) == \E f \in [0..n -> Seq(T)] :
                         f[0] = <<>> /\ \A m \in 1..n : f[m] = More(f[m - 1], m)
           G == {n \in Nat : n <= Len(seq) => Upto(n)}
<1>0. Len(seq) \in Nat
  OBVIOUS
<1>1. 0 \in G
  <2> DEFINE h == [m \in 0..0 |-> <<>>]
  <2>1. h \in [0..0 -> Seq(T)] /\ h[0] = <<>> /\ \A m \in 1..0 : FALSE
    OBVIOUS
  <2> HIDE DEF h, More
  <2>2. Upto(0)
    BY <2>1
  <2> QED BY <2>2
<1>2. ASSUME NEW n \in Nat, n \in G
      PROVE  n + 1 \in G
  <2>1. SUFFICES ASSUME n + 1 <= Len(seq) PROVE Upto(n + 1)
    <3> HIDE DEF Upto
    <3> QED OBVIOUS
  <2>2. PICK f \in [0..n -> Seq(T)] : f[0] = <<>> /\ \A m \in 1..n : f[m] = More(f[m - 1], m)
    <3>1. Upto(n)
      <4> HIDE DEF Upto
      <4> QED BY <1>0, <1>2, <2>1
    <3> HIDE DEF More
    <3> QED BY <3>1
  <2>3. More(f[n], n + 1) \in Seq(T)
    BY <2>1
  <2> HIDE DEF More
  <2> DEFINE g == [m \in 0..(n + 1) |-> IF m = n + 1 THEN More(f[n], n + 1) ELSE f[m]]
  <2>4. g \in [0..(n + 1) -> Seq(T)] /\ g[0] = <<>>
    BY <2>2, <2>3
  <2>5. ASSUME NEW m \in 1..(n + 1)
        PROVE  g[m] = More(g[m - 1], m)
    <3>1. CASE m = n + 1
      BY <3>1
    <3>2. CASE m # n + 1
      <4>1. m \in 1..n /\ m - 1 \in 0..n /\ m - 1 # n + 1
        BY <3>2
      <4> QED BY <4>1, <3>2, <2>2
    <3> QED BY <3>1, <3>2
  <2> HIDE DEF g
  <2> QED BY <2>4, <2>5
<1>3. Len(seq) \in G
  <2> HIDE DEF G
  <2> QED BY <1>1, <1>2, NatSets
<1>4. PICK f \in [0..Len(seq) -> Seq(T)] :
         f[0] = <<>> /\ \A m \in 1..Len(seq) : f[m] = More(f[m - 1], m)
  <2> HIDE DEF More
  <2> QED BY <1>3
<1> DEFINE Val(h, n) == IF n = 0 THEN <<>> ELSE More(h[n - 1], n)
           Def(h) == [n \in 0..Len(seq) |-> Val(h, n)]
           F == CHOOSE h : h = Def(h)
<1>5. Keep(seq, S) = F[Len(seq)]
  BY Zenon DEF Keep
<1>6. f = Def(f)
  <2>1. \A n \in 0..Len(seq) : f[n] = Val(f, n)
    <3> HIDE DEF More
    <3> QED BY <1>4
  <2> HIDE DEF Val
  <2> QED BY <2>1
<1>7. F = Def(F)
  <2> HIDE DEF Def
  <2> QED BY <1>6
<1> HIDE DEF F
<1>8. F = [n \in 0..Len(seq) |-> F[n]] /\ \A n \in 0..Len(seq) : F[n] = Val(F, n)
  <2> HIDE DEF Val
  <2> QED BY <1>7
<1>9. F[0] = <<>> /\ \A n \in 1..Len(seq) : F[n] = More(F[n - 1], n)
  <2> HIDE DEF More
  <2>1. 0 \in 0..Len(seq) /\ \A n \in 1..Len(seq) : n \in 0..Len(seq) /\ n # 0
    BY <1>0
  <2> QED BY <1>8, <2>1
<1> DEFINE H == {n \in Nat : n <= Len(seq) => F[n] \in Seq(T)}
<1>10. 0 \in H
  <2>1. F[0] \in Seq(T)
    BY <1>9
  <2> QED BY <2>1
<1>11. ASSUME NEW n \in Nat, n \in H
       PROVE  n + 1 \in H
  <2>1. SUFFICES ASSUME n + 1 <= Len(seq) PROVE F[n + 1] \in Seq(T)
    OBVIOUS
  <2>2. F[n + 1] = More(F[n], n + 1) /\ F[n] \in Seq(T) /\ seq[n + 1] \in T
    <3> HIDE DEF More
    <3> QED BY <1>9, <1>11, <2>1
  <2> QED BY <2>2
<1>12. F \in [0..Len(seq) -> Seq(T)]
  <2>1. Nat \subseteq H
    <3> HIDE DEF H
    <3> QED BY <1>10, <1>11, NatSets
  <2>2. \A n \in 0..Len(seq) : F[n] \in Seq(T)
    BY <2>1
  <2> QED BY <1>8, <2>2
<1> QED
  BY <1>5, <1>9, <1>12 DEF Keeps

\* The members of S that a sequence has, in its order, each as often as it was.
LEMMA KeepFields ==
    ASSUME NEW T, NEW seq \in Seq(T), NEW S
    PROVE  /\ Keep(seq, S) \in Seq(T)
           /\ ToSet(Keep(seq, S)) = ToSet(seq) \cap S
           /\ IsInjective(seq) => IsInjective(Keep(seq, S))
<1> DEFINE More(t, n) == IF seq[n] \in S THEN Append(t, seq[n]) ELSE t
<1>0. PICK f : Keeps(T, seq, S, f)
  BY KeepDef
<1>1. /\ f \in [0..Len(seq) -> Seq(T)] /\ f[0] = <<>>
      /\ \A n \in 1..Len(seq) : f[n] = More(f[n - 1], n)
      /\ Keep(seq, S) = f[Len(seq)]
  BY <1>0, Zenon DEF Keeps
<1> DEFINE First(n) == {seq[m] : m \in 1..n}
           Good(n) == /\ ToSet(f[n]) = First(n) \cap S
                      /\ IsInjective(seq) => IsInjective(f[n])
           G == {n \in Nat : n <= Len(seq) => Good(n)}
<1>2. 0 \in G
  <2>1. ToSet(f[0]) = {} /\ IsInjective(f[0]) /\ First(0) = {}
    BY <1>1 DEF ToSet, IsInjective
  <2> QED BY <2>1
<1>3. ASSUME NEW n \in Nat, n \in G
      PROVE  n + 1 \in G
  <2> SUFFICES ASSUME n + 1 <= Len(seq) PROVE Good(n + 1)
    <3> HIDE DEF Good
    <3> QED OBVIOUS
  <2>0. Len(seq) \in Nat
    OBVIOUS
  <2>1. Good(n) /\ f[n] \in Seq(T)
    <3>1. Good(n)
      <4> HIDE DEF Good
      <4> QED BY <1>3, <2>0
    <3>2. f[n] \in Seq(T)
      BY <1>1, <2>0
    <3> QED BY <3>1, <3>2
  <2>2. f[n + 1] = IF seq[n + 1] \in S THEN Append(f[n], seq[n + 1]) ELSE f[n]
    BY <1>1
  <2>3. First(n + 1) = First(n) \cup {seq[n + 1]}
    <3>1. 1..(n + 1) = (1..n) \cup {n + 1}
      OBVIOUS
    <3> QED BY <3>1
  <2>4. IsInjective(seq) => seq[n + 1] \notin First(n)
    BY DEF IsInjective
  <2>5. seq[n + 1] \in T
    OBVIOUS
  <2> HIDE DEF First
  <2>6. CASE seq[n + 1] \in S
    <3>1. f[n + 1] = Append(f[n], seq[n + 1])
      BY <2>2, <2>6
    <3>2. ToSet(f[n + 1]) = ToSet(f[n]) \cup {seq[n + 1]}
          /\ (IsInjective(f[n]) /\ seq[n + 1] \notin ToSet(f[n]) => IsInjective(f[n + 1]))
      BY <2>1, <2>5, <3>1, Sequences
    <3> QED BY <2>1, <2>3, <2>4, <2>6, <3>2
  <2>7. CASE seq[n + 1] \notin S
    BY <2>1, <2>2, <2>3, <2>7
  <2> QED BY <2>6, <2>7
<1>4. Len(seq) \in G
  <2> HIDE DEF G
  <2> QED BY <1>2, <1>3, NatSets
<1>5. First(Len(seq)) = ToSet(seq)
  BY DEF ToSet
<1> QED
  BY <1>1, <1>4, <1>5

\* The member that is taken out of a set first.
AnyOf(s) == CHOOSE x \in s : TRUE

\* Induction on the subsets of a finite set, one member at a time.
LEMMA SubsetInduction ==
    ASSUME NEW S, IsFiniteSet(S), NEW G, {} \in G,
           \A s \in SUBSET S : s # {} /\ s \ {AnyOf(s)} \in G => s \in G
    PROVE  SUBSET S \subseteq G
<1> DEFINE T == (SUBSET S) \ G
           R == StrictSubsetOrdering(S)
<1> SUFFICES ASSUME T # {} PROVE FALSE
  OBVIOUS
<1>1. IsWellFoundedOn(R, SUBSET S)
  BY FS_StrictSubsetOrderingWellFounded, FS_FiniteSubsetsOfFinite
<1>2. PICK x \in T : \A y \in T : ~(<<y, x>> \in R)
  <2>1. T \subseteq SUBSET S
    OBVIOUS
  <2> HIDE DEF T, R
  <2> QED BY <1>1, <2>1, WFMin
<1>3. x \in SUBSET S /\ x # {}
  OBVIOUS
<1>4. AnyOf(x) \in x
  BY <1>3 DEF AnyOf
<1> DEFINE y == x \ {AnyOf(x)}
<1>5. y \in SUBSET S /\ y \subseteq x /\ y # x
  BY <1>3, <1>4
<1>6. <<y, x>> \in R
  BY <1>3, <1>5 DEF StrictSubsetOrdering
<1>7. y \in G
  BY <1>2, <1>5, <1>6
<1> QED
  BY <1>3, <1>7

\* f is the number of bytes of every subset of S.
SumsUp(R, S, f) ==
    /\ f \in [SUBSET S -> Nat]
    /\ f[{}] = 0
    /\ \A s \in SUBSET S : s # {} => f[s] = R[AnyOf(s)].size + f[s \ {AnyOf(s)}]
    /\ Bytes(R, S) = f[S]

\* The bytes of a set are those of one member and those of the rest.
LEMMA BytesDef ==
    ASSUME NEW S, IsFiniteSet(S), NEW R, \A i \in S : R[i].size \in Nat
    PROVE  \E f : SumsUp(R, S, f)
<1> DEFINE Few(n) == {s \in SUBSET S : Cardinality(s) <= n}
           Val(f, s) == IF s = {} THEN 0 ELSE R[AnyOf(s)].size + f[s \ {AnyOf(s)}]
           Upto(n) == \E f \in [Few(n) -> Nat] : \A s \in Few(n) : f[s] = Val(f, s)
           G == {n \in Nat : Upto(n)}
<1>1. ASSUME NEW s \in SUBSET S
      PROVE  /\ IsFiniteSet(s) /\ Cardinality(s) \in Nat /\ Cardinality(s) <= Cardinality(S)
             /\ s # {} => AnyOf(s) \in s /\ Cardinality(s \ {AnyOf(s)}) = Cardinality(s) - 1
                          /\ Cardinality(s) # 0
             /\ s \ {AnyOf(s)} \in SUBSET S
  <2>1. IsFiniteSet(s) /\ Cardinality(s) \in Nat /\ Cardinality(s) <= Cardinality(S)
    BY FS_Subset, FS_CardinalityType
  <2>2. s # {} => AnyOf(s) \in s
    BY DEF AnyOf
  <2> QED
    BY <2>1, <2>2, FS_RemoveElement, FS_EmptySet
<1>2. 0 \in G
  <2>1. Few(0) = {{}}
    <3>1. ASSUME NEW s \in SUBSET S
          PROVE  Cardinality(s) <= 0 <=> s = {}
      <4>1. IsFiniteSet(s) /\ Cardinality(s) \in Nat
        BY <1>1
      <4>2. Cardinality(s) = 0 <=> s = {}
        BY <4>1, FS_EmptySet
      <4> QED BY <4>1, <4>2
    <3> QED BY <3>1
  <2> DEFINE h == [s \in {{}} |-> 0]
  <2>2. h \in [{{}} -> Nat] /\ h[{}] = 0
    OBVIOUS
  <2>3. Val(h, {}) = 0
    OBVIOUS
  <2> HIDE DEF h, Val, Few
  <2> QED BY <2>1, <2>2, <2>3
<1>3. ASSUME NEW n \in Nat, n \in G
      PROVE  n + 1 \in G
  <2>1. PICK f \in [Few(n) -> Nat] : \A s \in Few(n) : f[s] = Val(f, s)
    <3> HIDE DEF Few, Val
    <3> QED BY <1>3
  <2> DEFINE g == [s \in Few(n + 1) |-> Val(f, s)]
  <2>2. ASSUME NEW s \in Few(n + 1), s # {}
        PROVE  s \ {AnyOf(s)} \in Few(n) /\ s \ {AnyOf(s)} \in Few(n + 1) /\ R[AnyOf(s)].size \in Nat
    BY <1>1, <2>2
  <2>3. \A s \in Few(n) : s \in Few(n + 1) /\ g[s] = f[s]
    <3>1. ASSUME NEW s \in SUBSET S, Cardinality(s) <= n
          PROVE  Cardinality(s) <= n + 1
      <4>1. Cardinality(s) \in Nat
        BY <1>1
      <4> QED BY <3>1, <4>1
    <3>2. Few(n) \subseteq Few(n + 1)
      BY <3>1
    <3> HIDE DEF Few, Val
    <3> QED BY <2>1, <3>2
  <2>4. ASSUME NEW s \in Few(n + 1)
        PROVE  Val(f, s) \in Nat /\ Val(g, s) = Val(f, s)
    <3> HIDE DEF Few, g
    <3> QED BY <2>2, <2>3
  <2>5. g \in [Few(n + 1) -> Nat] /\ \A s \in Few(n + 1) : g[s] = Val(g, s)
    <3> HIDE DEF Few, Val
    <3> QED BY <2>4
  <2> HIDE DEF g, Few, Val
  <2> QED BY <2>5
<1>4. Cardinality(S) \in G
  <2>1. Cardinality(S) \in Nat
    BY FS_CardinalityType
  <2> HIDE DEF G
  <2> QED BY <1>2, <1>3, <2>1, NatSets
<1>5. Few(Cardinality(S)) = SUBSET S
  BY <1>1
<1>6. PICK f \in [SUBSET S -> Nat] : \A s \in SUBSET S : f[s] = Val(f, s)
  <2> HIDE DEF Few, Val
  <2> QED BY <1>4, <1>5
<1> DEFINE Def(h) == [s \in SUBSET S |-> Val(h, s)]
           F == CHOOSE h : h = Def(h)
<1>7. Bytes(R, S) = F[S]
  BY Zenon DEF Bytes, MapThenSumSet, MapThenFoldSet, AnyOf
<1>8. f = Def(f)
  <2> HIDE DEF Val
  <2> QED BY <1>6
<1>9. F = Def(F)
  <2> HIDE DEF Def
  <2> QED BY <1>8
<1> HIDE DEF F
<1>10. F = [s \in SUBSET S |-> F[s]] /\ \A s \in SUBSET S : F[s] = Val(F, s)
  <2> HIDE DEF Val
  <2> QED BY <1>9
<1> DEFINE H == {s \in SUBSET S : F[s] = f[s]}
<1>11. {} \in H
  BY <1>6, <1>10
<1>12. ASSUME NEW s \in SUBSET S, s # {}, s \ {AnyOf(s)} \in H
       PROVE  s \in H
  <2>1. F[s \ {AnyOf(s)}] = f[s \ {AnyOf(s)}]
    BY <1>12
  <2>2. Val(F, s) = Val(f, s)
    BY <2>1
  <2> HIDE DEF Val
  <2> QED BY <1>6, <1>10, <2>2
<1>13. SUBSET S \subseteq H
  <2> HIDE DEF H
  <2> QED BY <1>11, <1>12, SubsetInduction
<1>14. F = f
  <2>1. \A s \in SUBSET S : F[s] = f[s]
    BY <1>13
  <2> QED BY <1>10, <2>1
<1>15. \A s \in SUBSET S : s # {} => f[s] = R[AnyOf(s)].size + f[s \ {AnyOf(s)}]
  BY <1>6
<1>16. f[{}] = 0
  BY <1>6
<1> QED
  BY <1>7, <1>14, <1>15, <1>16 DEF SumsUp

\* Bytes are counted in numbers, and nothing takes none.
LEMMA BytesType ==
    ASSUME NEW S, IsFiniteSet(S), NEW R, \A i \in S : R[i].size \in Nat
    PROVE  /\ Bytes(R, S) \in Nat
           /\ (\A i \in S : R[i].size = 0) => Bytes(R, S) = 0
<1>1. PICK f : SumsUp(R, S, f)
  BY BytesDef
<1>2. Bytes(R, S) \in Nat
  BY <1>1 DEF SumsUp
<1>3. ASSUME \A i \in S : R[i].size = 0
      PROVE  Bytes(R, S) = 0
  <2> DEFINE H == {s \in SUBSET S : f[s] = 0}
  <2>1. {} \in H
    BY <1>1 DEF SumsUp
  <2>2. ASSUME NEW s \in SUBSET S, s # {}, s \ {AnyOf(s)} \in H
        PROVE  s \in H
    <3>1. AnyOf(s) \in s
      BY <2>2 DEF AnyOf
    <3> QED BY <1>1, <1>3, <2>2, <3>1 DEF SumsUp
  <2>3. SUBSET S \subseteq H
    <3> HIDE DEF H
    <3> QED BY <2>1, <2>2, SubsetInduction
  <2>4. f[S] = 0
    BY <2>3
  <2> QED BY <1>1, <2>4 DEF SumsUp
<1> QED
  BY <1>2, <1>3

\* Smaller rows take fewer bytes.
LEMMA BytesShrink ==
    ASSUME NEW S, IsFiniteSet(S), NEW R, NEW Q,
           \A i \in S : R[i].size \in Nat /\ Q[i].size \in Nat /\ R[i].size <= Q[i].size
    PROVE  Bytes(R, S) <= Bytes(Q, S)
<1>1. PICK f : SumsUp(R, S, f)
  BY BytesDef
<1>2. PICK g : SumsUp(Q, S, g)
  BY BytesDef
<1> DEFINE H == {s \in SUBSET S : f[s] <= g[s]}
<1>3. {} \in H
  BY <1>1, <1>2 DEF SumsUp
<1>4. ASSUME NEW s \in SUBSET S, s # {}, s \ {AnyOf(s)} \in H
      PROVE  s \in H
  <2>1. AnyOf(s) \in S /\ s \ {AnyOf(s)} \in SUBSET S
    BY <1>4 DEF AnyOf
  <2>2. /\ f[s] = R[AnyOf(s)].size + f[s \ {AnyOf(s)}]
        /\ g[s] = Q[AnyOf(s)].size + g[s \ {AnyOf(s)}]
        /\ f[s \ {AnyOf(s)}] \in Nat /\ g[s \ {AnyOf(s)}] \in Nat
    BY <1>1, <1>2, <1>4, <2>1 DEF SumsUp
  <2> QED BY <1>4, <2>1, <2>2
<1>5. SUBSET S \subseteq H
  <2> HIDE DEF H
  <2> QED BY <1>3, <1>4, SubsetInduction
<1>6. f[S] <= g[S]
  BY <1>5
<1> QED
  BY <1>1, <1>2, <1>6 DEF SumsUp

-----------------------------------------------------------------------------
(* The map, its rows and its files.                                        *)

\* The order of the map after rows were deleted,
LEMMA DeletedOrder ==
    ASSUME NEW s, IsStore(s), NEW S
    PROVE  Deleted(s, S).order = Keep(s.order, Ids \ S)
<1> DEFINE R == [i \in Ids |-> IF i \in S THEN Absent ELSE s.row[i]]
           o == Keep(s.order, Ids \ S)
           F == s.files \ Named(s.row, S)
<1>1. s = [row |-> s.row, order |-> s.order, queue |-> s.queue, files |-> s.files]
  BY DEF IsStore
<1>2. Deleted(s, S) = [s EXCEPT !.row = R, !.order = o, !.files = F]
  BY Zenon DEF Deleted
<1> HIDE DEF R, o, F
<1>3. Deleted(s, S).order = o
  BY <1>1, <1>2
<1> QED BY <1>3 DEF o

\* after residents went to files,
LEMMA DemotedOrder ==
    ASSUME NEW s, IsStore(s), NEW D, NEW failing
    PROVE  Demoted(s, D, failing).order = Keep(s.order, Ids \ D) \o Keep(s.order, D)
<1> DEFINE R == [i \in Ids |-> IF i \in D THEN Spilled(s, i, s.row[i].v, failing) ELSE s.row[i]]
           o == Keep(s.order, Ids \ D) \o Keep(s.order, D)
           F == s.files \cup Named(R, D)
<1>1. s = [row |-> s.row, order |-> s.order, queue |-> s.queue, files |-> s.files]
  BY DEF IsStore
<1>2. Demoted(s, D, failing) = [s EXCEPT !.row = R, !.order = o, !.files = F]
  BY Zenon DEF Demoted
<1> HIDE DEF R, o, F
<1>3. Demoted(s, D, failing).order = o
  BY <1>1, <1>2
<1> QED BY <1>3 DEF o

\* and after a row was set.
LEMMA PlacedOrder ==
    ASSUME NEW s, IsStore(s), NEW i \in Ids, NEW r
    PROVE  Placed(s, i, r).order = Append(Keep(s.order, Ids \ {i}), i)
<1> DEFINE R == [s.row EXCEPT ![i] = r]
           o == Append(Keep(s.order, Ids \ {i}), i)
<1>1. s = [row |-> s.row, order |-> s.order, queue |-> s.queue, files |-> s.files]
  BY DEF IsStore
<1>2. Placed(s, i, r) = [s EXCEPT !.row = R, !.order = o]
  BY <1>1, Zenon DEF Placed
<1> HIDE DEF R, o
<1>3. Placed(s, i, r).order = o
  BY <1>1, <1>2
<1> QED BY <1>3 DEF o

\* The queue takes the file of a row that is replaced, and when it is full gives
\* up the one that has waited for longest.
LEMMA SupersededQueue ==
    ASSUME NEW s, IsStore(s), s.queue \in Seq(Files), Len(s.queue) <= QueueMax, NEW f \in Files
    PROVE  LET t == Superseded(s, f)
           IN  /\ t.order = s.order /\ t.queue \in Seq(Files) /\ Len(t.queue) <= QueueMax
               /\ \/ t.files = s.files /\ t.queue = Append(s.queue, f)
                  \/ /\ Len(s.queue) = QueueMax /\ Len(t.queue) = QueueMax
                     /\ t.files = s.files \ {Head(s.queue)}
                     /\ t.queue = Append(Tail(s.queue), f)
<1> DEFINE q == Append(s.queue, f)
           t == Superseded(s, f)
<1>1. s = [row |-> s.row, order |-> s.order, queue |-> s.queue, files |-> s.files]
  BY DEF IsStore
<1>2. t = IF Len(q) > QueueMax THEN [s EXCEPT !.queue = Tail(q), !.files = s.files \ {Head(q)}]
                               ELSE [s EXCEPT !.queue = q]
  BY Zenon DEF Superseded
<1>3. q \in Seq(Files) /\ Len(q) = Len(s.queue) + 1 /\ QueueMax \in Nat /\ QueueMax > 0
  BY ResponseAssumption
<1>4. CASE Len(q) > QueueMax
  <2>1. Len(s.queue) = QueueMax /\ s.queue # <<>>
    BY <1>3, <1>4
  <2>2. Head(q) = Head(s.queue) /\ Tail(q) = Append(Tail(s.queue), f) /\ Len(Tail(q)) = QueueMax
        /\ Tail(q) \in Seq(Files)
    BY <2>1, <1>3
  <2> HIDE DEF t, q
  <2>3. t = [row |-> s.row, order |-> s.order, queue |-> Tail(q), files |-> s.files \ {Head(q)}]
    BY <1>1, <1>2, <1>4
  <2>4. t.order = s.order /\ t.queue = Tail(q) /\ t.files = s.files \ {Head(q)}
    BY <2>3
  <2> QED BY <2>1, <2>2, <2>4, <1>3 DEF t
<1>5. CASE ~(Len(q) > QueueMax)
  <2>1. Len(q) <= QueueMax
    BY <1>3, <1>5
  <2> HIDE DEF t, q
  <2>2. t = [row |-> s.row, order |-> s.order, queue |-> q, files |-> s.files]
    BY <1>1, <1>2, <1>5
  <2>3. t.order = s.order /\ t.queue = q /\ t.files = s.files
    BY <2>2
  <2> QED BY <1>3, <2>1, <2>3 DEF t, q
<1> QED BY <1>4, <1>5

\* A row that a constructor made.
RowOK(r) ==
    /\ r = Row(r.kind, r.v, r.size, r.g) /\ r.kind \in Kinds
    /\ r.kind = "none" => r = Absent
    /\ r.kind # "none" => r.v \in 1..MaxVersion
    /\ r.kind = "resident" => r.size \in Sizes /\ r.g = 0
    /\ r.kind = "spill" => r = Stub(r.v, r.g) /\ r.g \in 1..Retries
    /\ r.kind = "spill-failed" => r = Tombstone(r.v)

\* Rows and their order fit each other.
Neat(s) ==
    /\ s.row = [i \in Ids |-> s.row[i]] /\ \A i \in Ids : RowOK(s.row[i])
    /\ s.order \in Seq(Ids) /\ IsInjective(s.order) /\ ToSet(s.order) = Rows(s)

\* A store that a handler finds.
Proper(s) ==
    /\ s = [row |-> s.row, order |-> s.order, queue |-> s.queue, files |-> s.files]
    /\ Neat(s)
    /\ s.queue \in Seq(Files) /\ Len(s.queue) <= QueueMax /\ s.files \subseteq Files

\* The rows, field by field.
LEMMA RowFields ==
    /\ Absent = [kind |-> "none", v |-> 0, size |-> 0, g |-> 0]
    /\ \A v, size : Resident(v, size) = [kind |-> "resident", v |-> v, size |-> size, g |-> 0]
    /\ \A v, g : Stub(v, g) = [kind |-> "spill", v |-> v, size |-> StubSize, g |-> g]
    /\ \A v : Tombstone(v) = [kind |-> "spill-failed", v |-> v, size |-> TombSize, g |-> 0]
BY DEF Absent, Resident, Stub, Tombstone, Row

\* The rows of known versions and sizes are rows.
LEMMA RowsAreOK ==
    /\ RowOK(Absent)
    /\ \A v \in 1..MaxVersion :
         /\ RowOK(Tombstone(v))
         /\ \A size \in Sizes : RowOK(Resident(v, size))
         /\ \A g \in 1..Retries : RowOK(Stub(v, g))
<1>1. RowOK(Absent)
  BY RowFields DEF RowOK, Row, Kinds
<1>2. ASSUME NEW v \in 1..MaxVersion
      PROVE  /\ RowOK(Tombstone(v))
             /\ \A size \in Sizes : RowOK(Resident(v, size))
             /\ \A g \in 1..Retries : RowOK(Stub(v, g))
  <2>1. RowOK(Tombstone(v))
    BY RowFields DEF RowOK, Row, Kinds
  <2>2. ASSUME NEW size \in Sizes PROVE RowOK(Resident(v, size))
    BY RowFields DEF RowOK, Row, Kinds
  <2>3. ASSUME NEW g \in 1..Retries PROVE RowOK(Stub(v, g))
    <3>1. Stub(v, g) = [kind |-> "spill", v |-> v, size |-> StubSize, g |-> g]
      BY RowFields
    <3>2. Stub(v, g).kind = "spill" /\ Stub(v, g).v = v /\ Stub(v, g).size = StubSize /\ Stub(v, g).g = g
      BY <3>1
    <3> QED BY <3>1, <3>2 DEF RowOK, Row, Kinds
  <2> QED BY <2>1, <2>2, <2>3
<1> QED BY <1>1, <1>2

\* A row there is, and a size.
LEMMA RowFacts ==
    ASSUME NEW r, RowOK(r)
    PROVE  /\ r.v \in 0..MaxVersion /\ r.v \in Nat /\ r.size \in Nat /\ r.g \in 0..Retries
           /\ r.size \in Sizes \cup {0, StubSize, TombSize}
           /\ r = [kind |-> r.kind, v |-> r.v, size |-> r.size, g |-> r.g]
           /\ r.kind = "none" <=> r = Absent
           /\ r.kind = "none" => r.size = 0
           /\ r.kind = "spill" => r.size = StubSize
           /\ r.kind = "spill-failed" => r.size = TombSize
<1>1. r = [kind |-> r.kind, v |-> r.v, size |-> r.size, g |-> r.g] /\ r.kind \in Kinds
  BY Zenon DEF RowOK, Row
<1>2. MaxVersion \in Nat /\ Retries \in Nat /\ StubSize \in Nat /\ TombSize \in Nat /\ Sizes \subseteq Nat
  BY ResponseAssumption
<1>3. CASE r.kind = "none"
  <2>1. r = Absent
    BY <1>3 DEF RowOK
  <2>2. r.v = 0 /\ r.size = 0 /\ r.g = 0
    BY <2>1, RowFields
  <2> QED BY <1>1, <1>2, <1>3, <2>1, <2>2
<1>4. CASE r.kind # "none"
  <2>1. r # Absent
    BY <1>4, RowFields
  <2>2. r.v \in 1..MaxVersion
    BY <1>4 DEF RowOK
  <2>3. CASE r.kind = "resident"
    <3>1. r.size \in Sizes /\ r.g = 0
      BY <2>3 DEF RowOK
    <3> QED BY <1>1, <1>2, <1>4, <2>1, <2>2, <2>3, <3>1
  <2>4. CASE r.kind = "spill"
    <3>1. r = Stub(r.v, r.g) /\ r.g \in 1..Retries
      BY <2>4 DEF RowOK
    <3>2. r.size = StubSize
      BY <3>1, RowFields
    <3> QED BY <1>1, <1>2, <1>4, <2>1, <2>2, <2>4, <3>1, <3>2
  <2>5. CASE r.kind = "spill-failed"
    <3>1. r = Tombstone(r.v)
      BY <2>5 DEF RowOK
    <3>2. r.size = TombSize /\ r.g = 0
      BY <3>1, RowFields
    <3> QED BY <1>1, <1>2, <1>4, <2>1, <2>2, <2>5, <3>2
  <2> QED BY <1>1, <1>4, <2>3, <2>4, <2>5 DEF Kinds
<1> QED BY <1>3, <1>4

\* What is known of rows and their order,
LEMMA NeatFacts ==
    ASSUME NEW s, Neat(s)
    PROVE  /\ IsRows(s.row)
           /\ \A i \in Ids : /\ RowOK(s.row[i])
                             /\ s.row[i].kind = "spill" =>
                                  File(i, s.row[i].v, s.row[i].g) \in Files
           /\ Rows(s) \subseteq Ids /\ IsFiniteSet(Rows(s)) /\ Rows(s) = {i \in Ids : s.row[i] # Absent}
<1>1. IsRows(s.row)
  BY RowFacts DEF Neat, IsRows, RowOK
<1>2. ASSUME NEW i \in Ids, s.row[i].kind = "spill"
      PROVE  File(i, s.row[i].v, s.row[i].g) \in Files
  BY <1>2 DEF Neat, RowOK, File, Files
<1>3. Rows(s) \subseteq Ids /\ IsFiniteSet(Rows(s))
  BY ResponseAssumption, FS_Subset DEF Rows
<1>4. Rows(s) = {i \in Ids : s.row[i] # Absent}
  BY RowFacts DEF Neat, Rows
<1> QED BY <1>1, <1>2, <1>3, <1>4 DEF Neat

\* and of a store.
LEMMA ProperFacts ==
    ASSUME NEW s, Proper(s)
    PROVE  IsStore(s) /\ Neat(s) /\ s.queue \in Seq(Files) /\ s.files \subseteq Files
           /\ Len(s.queue) <= QueueMax
BY NeatFacts DEF Proper, IsStore

\* What there is of a row after memory was freed.
Slimmer(r, q) ==
    \/ r = q \/ r = Absent
    \/ q.kind = "resident" /\ (r = Tombstone(q.v) \/ r = Stub(q.v, r.g))

\* What is freed: files go with their rows, and files come with stubs.
Prunes(s, t) ==
    /\ t.queue = s.queue
    /\ \A i \in Ids : Slimmer(t.row[i], s.row[i])
    /\ \A f \in s.files \ t.files : t.row[f.id] = Absent
    /\ \A f \in t.files : f \in Named(t.row, Ids) \/ (f \in s.files /\ f \notin Named(s.row, Ids))
    /\ \A i \in Ids : t.row[i].kind = "spill" /\ File(i, t.row[i].v, t.row[i].g) \notin t.files =>
         t.row[i] = s.row[i] /\ File(i, t.row[i].v, t.row[i].g) \notin s.files

\* A file that a row names.
LEMMA NamedIs ==
    ASSUME NEW R, NEW S, NEW f
    PROVE  f \in Named(R, S) <=> \E i \in S : R[i].kind = "spill" /\ f = File(i, R[i].v, R[i].g)
BY DEF Named

\* The name of a file tells its parts.
LEMMA FileIs ==
    /\ \A i, v, g : File(i, v, g).id = i /\ File(i, v, g).v = v /\ File(i, v, g).g = g
    /\ \A f \in Files : f.id \in Ids /\ f.v \in 1..MaxVersion /\ f.g \in 1..Retries
                        /\ f = File(f.id, f.v, f.g)
BY DEF File, Files

\* Memory that is freed twice is freed.
LEMMA PrunesTwice ==
    ASSUME NEW s, NEW t, NEW u, Proper(s), Proper(t), Prunes(s, t), Prunes(t, u)
    PROVE  Prunes(s, u)
<1>1. ASSUME NEW i \in Ids
      PROVE  Slimmer(u.row[i], s.row[i])
  BY RowFields DEF Prunes, Slimmer
<1>2. ASSUME NEW f \in s.files \ u.files
      PROVE  u.row[f.id] = Absent
  <2>1. f.id \in Ids
    BY FileIs DEF Proper
  <2>2. CASE f \in t.files
    BY <2>2 DEF Prunes
  <2>3. CASE f \notin t.files
    <3>1. t.row[f.id] = Absent /\ Slimmer(u.row[f.id], t.row[f.id])
      BY <2>1, <2>3 DEF Prunes
    <3> QED BY <3>1, RowFields DEF Slimmer
  <2> QED BY <2>2, <2>3
<1>3. \A f \in u.files : f \in Named(u.row, Ids) \/ (f \in s.files /\ f \notin Named(s.row, Ids))
  BY DEF Prunes
<1>4. \A i \in Ids : u.row[i].kind = "spill" /\ File(i, u.row[i].v, u.row[i].g) \notin u.files =>
         u.row[i] = s.row[i] /\ File(i, u.row[i].v, u.row[i].g) \notin s.files
  BY DEF Prunes
<1> QED BY <1>1, <1>2, <1>3, <1>4 DEF Prunes

\* Deleting rows frees memory,
LEMMA DeletedPrunes ==
    ASSUME NEW s, Proper(s), NEW S \in SUBSET Ids
    PROVE  Proper(Deleted(s, S)) /\ Prunes(s, Deleted(s, S))
<1> DEFINE t == Deleted(s, S)
           R == [i \in Ids |-> IF i \in S THEN Absent ELSE s.row[i]]
<1>1. IsStore(s) /\ Neat(s) /\ s.queue \in Seq(Files) /\ s.files \subseteq Files /\ Len(s.queue) <= QueueMax
  BY ProperFacts
<1>2. t.row = R /\ t.files = s.files \ Named(s.row, S) /\ t.queue = s.queue /\ IsStore(t)
      /\ t.order = Keep(s.order, Ids \ S)
  <2>1. t.row = R /\ t.files = s.files \ Named(s.row, S) /\ t.queue = s.queue /\ IsStore(t)
    BY <1>1, DeletedFields
  <2>2. t.order = Keep(s.order, Ids \ S)
    BY <1>1, DeletedOrder
  <2> QED BY <2>1, <2>2
<1>3. \A i \in Ids : t.row[i] = IF i \in S THEN Absent ELSE s.row[i]
  BY <1>2
<1> HIDE DEF t
<1>4. Neat(t)
  <2>1. t.order \in Seq(Ids) /\ IsInjective(t.order) /\ ToSet(t.order) = ToSet(s.order) \cap (Ids \ S)
    BY <1>1, <1>2, KeepFields DEF Neat
  <2>2. Rows(t) = Rows(s) \cap (Ids \ S)
    BY <1>3, RowFields DEF Rows
  <2>3. t.row = [i \in Ids |-> t.row[i]] /\ \A i \in Ids : RowOK(t.row[i])
    BY <1>1, <1>2, <1>3, RowsAreOK DEF Neat
  <2> QED BY <1>1, <2>1, <2>2, <2>3 DEF Neat
<1>5. Proper(t)
  BY <1>1, <1>2, <1>4 DEF Proper, IsStore
<1>6. ASSUME NEW f \in s.files \ t.files
      PROVE  t.row[f.id] = Absent
  <2>1. PICK i \in S : f = File(i, s.row[i].v, s.row[i].g)
    BY <1>2, NamedIs
  <2> QED BY <1>3, <2>1, FileIs
<1>7. ASSUME NEW f \in t.files, f \in Named(s.row, Ids)
      PROVE  f \in Named(t.row, Ids)
  <2>1. PICK i \in Ids : s.row[i].kind = "spill" /\ f = File(i, s.row[i].v, s.row[i].g)
    BY <1>7, NamedIs
  <2>2. i \notin S
    BY <1>2, <2>1, NamedIs
  <2> QED BY <1>3, <2>1, <2>2, NamedIs
<1>8. ASSUME NEW i \in Ids, t.row[i].kind = "spill", File(i, t.row[i].v, t.row[i].g) \notin t.files
      PROVE  t.row[i] = s.row[i] /\ File(i, t.row[i].v, t.row[i].g) \notin s.files
  <2>1. i \notin S /\ t.row[i] = s.row[i]
    BY <1>3, <1>8, RowFields
  <2>2. File(i, t.row[i].v, t.row[i].g) \notin Named(s.row, S)
    BY <2>1, NamedIs, FileIs
  <2> QED BY <1>2, <1>8, <2>1, <2>2
<1>9. Prunes(s, t)
  BY <1>2, <1>3, <1>6, <1>7, <1>8 DEF Prunes, Slimmer
<1> QED BY <1>5, <1>9 DEF t

-----------------------------------------------------------------------------
(* Pruning.                                                                *)

\* The least of a set of numbers is one of them,
LEMMA MinIsIn ==
    ASSUME NEW S \in SUBSET Nat, S # {}
    PROVE  Min(S) \in S /\ \A y \in S : Min(S) <= y
<1>1. PICK x \in S : \A y \in S : ~(<<y, x>> \in OpToRel(<, Nat))
  BY NatLessThanWellFounded, WFMin, Zenon
<1>2. ASSUME NEW y \in S
      PROVE  x <= y
  <2>1. CASE y < x
    <3> DEFINE p == <<y, x>>
    <3>1. p \in Nat \X Nat /\ p[1] < p[2]
      BY <2>1
    <3>2. p \in OpToRel(<, Nat)
      BY <3>1 DEF OpToRel
    <3> QED BY <1>1, <3>2
  <2> QED BY <2>1
<1>3. \E z \in S : \A y \in S : z =< y
  BY <1>2
<1> QED BY <1>3 DEF Min

\* and so is the largest, if there is a bound.
LEMMA MaxIsIn ==
    ASSUME NEW n \in Nat, NEW S \in SUBSET (0..n), S # {}
    PROVE  Max(S) \in S
<1> DEFINE T == {n - k : k \in S}
<1>1. T \in SUBSET Nat /\ T # {}
  <2>1. ASSUME NEW k \in S PROVE n - k \in Nat
    OBVIOUS
  <2>2. PICK k : k \in S
    OBVIOUS
  <2>3. n - k \in T
    BY <2>2
  <2>4. T \subseteq Nat
    BY <2>1
  <2> HIDE DEF T
  <2> QED BY <2>3, <2>4
<1>2. Min(T) \in T /\ \A y \in T : Min(T) <= y
  <2> HIDE DEF T
  <2> QED BY <1>1, MinIsIn
<1>3. PICK k \in S : Min(T) = n - k
  BY <1>2
<1>4. \A y \in S : k >= y
  <2>1. ASSUME NEW y \in S PROVE k >= y
    <3>1. n - y \in T
      OBVIOUS
    <3>2. n - k <= n - y
      BY <1>2, <1>3, <3>1
    <3> QED BY <3>2
  <2> QED BY <2>1
<1>5. \E z \in S : \A y \in S : z >= y
  BY <1>4
<1> QED BY <1>5 DEF Max

\* A payload that is written gets a name of its own.
LEMMA SpilledIs ==
    ASSUME NEW s, NEW i \in Ids, NEW v \in 1..MaxVersion, NEW failing
    PROVE  \/ Spilled(s, i, v, failing) = Tombstone(v)
           \/ /\ ~Fails(s, i, v, failing)
              /\ Spilled(s, i, v, failing) = Stub(v, FreeName(s, i, v))
              /\ FreeName(s, i, v) \in 1..Retries
              /\ File(i, v, FreeName(s, i, v)) \in Files \ s.files
<1>1. CASE Fails(s, i, v, failing)
  BY <1>1 DEF Spilled
<1>2. CASE ~Fails(s, i, v, failing)
  <2>1. FreeNames(s, i, v) # {} /\ FreeNames(s, i, v) \in SUBSET Nat
    BY <1>2, ResponseAssumption DEF Fails, FreeNames
  <2>2. FreeName(s, i, v) \in FreeNames(s, i, v)
    BY <2>1, MinIsIn DEF FreeName
  <2>3. FreeName(s, i, v) \in 1..Retries /\ File(i, v, FreeName(s, i, v)) \notin s.files
    BY <2>2 DEF FreeNames
  <2>4. File(i, v, FreeName(s, i, v)) \in Files
    BY <2>3 DEF File, Files
  <2> QED BY <1>2, <2>3, <2>4 DEF Spilled
<1> QED BY <1>1, <1>2

\* and so does writing residents to files.
LEMMA DemotedPrunes ==
    ASSUME NEW s, Proper(s), NEW failing,
           NEW D \in SUBSET Ids, \A i \in D : s.row[i].kind = "resident"
    PROVE  Proper(Demoted(s, D, failing)) /\ Prunes(s, Demoted(s, D, failing))
<1> DEFINE t == Demoted(s, D, failing)
           R == [i \in Ids |-> IF i \in D THEN Spilled(s, i, s.row[i].v, failing) ELSE s.row[i]]
<1>1. IsStore(s) /\ Neat(s) /\ s.queue \in Seq(Files) /\ s.files \subseteq Files /\ Len(s.queue) <= QueueMax
  BY ProperFacts
<1>2. t.row = R /\ t.files = s.files \cup Named(R, D) /\ t.queue = s.queue /\ IsStore(t)
  BY <1>1, DemotedFields
<1>3. t.order = Keep(s.order, Ids \ D) \o Keep(s.order, D)
  BY <1>1, DemotedOrder
<1>4. /\ \A i \in Ids \ D : t.row[i] = s.row[i]
      /\ \A i \in D : t.row[i] = Spilled(s, i, s.row[i].v, failing)
      /\ t.row = [i \in Ids |-> t.row[i]]
      /\ t.files = s.files \cup Named(t.row, D)
  BY <1>2
<1> HIDE DEF t, R
<1>5. ASSUME NEW i \in D
      PROVE  LET v == s.row[i].v
                 g == FreeName(s, i, v)
             IN  /\ v \in 1..MaxVersion
                 /\ \/ t.row[i] = Tombstone(v)
                    \/ /\ t.row[i] = Stub(v, g) /\ g \in 1..Retries
                       /\ File(i, v, g) \in Files \ s.files
  <2>1. s.row[i].v \in 1..MaxVersion
    BY <1>1 DEF Neat, RowOK
  <2> QED BY <1>4, <2>1, SpilledIs
<1>6. ASSUME NEW i \in D
      PROVE  /\ RowOK(t.row[i]) /\ t.row[i].kind \in {"spill", "spill-failed"}
             /\ Slimmer(t.row[i], s.row[i])
             /\ t.row[i].kind = "spill" => File(i, t.row[i].v, t.row[i].g) \in Files
  <2>1. CASE t.row[i] = Tombstone(s.row[i].v)
    BY <1>5, <2>1, RowFields, RowsAreOK DEF Slimmer
  <2>2. CASE t.row[i] # Tombstone(s.row[i].v)
    <3>1. PICK g \in 1..Retries : t.row[i] = Stub(s.row[i].v, g) /\ File(i, s.row[i].v, g) \in Files
      BY <1>5, <2>2
    <3>2. t.row[i].kind = "spill" /\ t.row[i].v = s.row[i].v /\ t.row[i].g = g
      BY <3>1, RowFields
    <3> QED BY <1>5, <3>1, <3>2, RowsAreOK DEF Slimmer
  <2> QED BY <2>1, <2>2
<1>7. Neat(t)
  <2> DEFINE p == Keep(s.order, Ids \ D)
             q == Keep(s.order, D)
  <2>1. p \in Seq(Ids) /\ IsInjective(p) /\ ToSet(p) = ToSet(s.order) \cap (Ids \ D)
    BY <1>1, KeepFields DEF Neat
  <2>2. q \in Seq(Ids) /\ IsInjective(q) /\ ToSet(q) = ToSet(s.order) \cap D
    BY <1>1, KeepFields DEF Neat
  <2>3. t.order = p \o q
    BY <1>3
  <2> HIDE DEF p, q
  <2>4. ToSet(p \o q) = ToSet(p) \cup ToSet(q) /\ IsInjective(p \o q)
    BY <2>1, <2>2, Concatenations
  <2>5. t.order \in Seq(Ids)
    BY <2>1, <2>2, <2>3
  <2>6. Rows(t) = Rows(s)
    BY <1>4, <1>6 DEF Rows
  <2>7. ToSet(t.order) = Rows(t)
    BY <1>1, <2>1, <2>2, <2>3, <2>4, <2>6 DEF Neat, Rows
  <2>8. \A i \in Ids : RowOK(t.row[i])
    BY <1>1, <1>4, <1>6 DEF Neat
  <2> QED BY <1>4, <2>3, <2>4, <2>5, <2>7, <2>8 DEF Neat
<1>8. Proper(t)
  <2>1. Named(t.row, D) \subseteq Files
    BY <1>6, NamedIs
  <2> QED BY <1>1, <1>2, <1>4, <1>7, <2>1 DEF Proper, IsStore
<1>9. ASSUME NEW f \in t.files
      PROVE  f \in Named(t.row, Ids) \/ (f \in s.files /\ f \notin Named(s.row, Ids))
  <2>1. CASE f \in Named(t.row, D)
    BY <2>1, NamedIs
  <2>2. CASE f \in s.files /\ f \in Named(s.row, Ids)
    <3>1. PICK i \in Ids : s.row[i].kind = "spill" /\ f = File(i, s.row[i].v, s.row[i].g)
      BY <2>2, NamedIs
    <3>2. t.row[i] = s.row[i]
      BY <1>4, <3>1
    <3> QED BY <3>1, <3>2, NamedIs
  <2> QED BY <1>4, <2>1, <2>2
<1>10. ASSUME NEW i \in Ids, t.row[i].kind = "spill", File(i, t.row[i].v, t.row[i].g) \notin t.files
       PROVE  t.row[i] = s.row[i] /\ File(i, t.row[i].v, t.row[i].g) \notin s.files
  <2>1. i \notin D
    BY <1>4, <1>10, NamedIs
  <2> QED BY <1>4, <1>10, <2>1
<1>11. Prunes(s, t)
  <2>1. \A i \in Ids : Slimmer(t.row[i], s.row[i])
    BY <1>4, <1>6 DEF Slimmer
  <2>2. s.files \ t.files = {}
    BY <1>4
  <2> QED BY <1>2, <1>9, <1>10, <2>1, <2>2 DEF Prunes
<1> QED BY <1>8, <1>11 DEF t

\* The steps of pruneResponses.
Unexpired(s) == Deleted(s, Expired(s))
Counted(s) == Deleted(Unexpired(s), Oldest(Unexpired(s)))
Going(s, failing) ==
    LET residents == {i \in Ids : s.row[i].kind = "resident"}
    IN  {i \in residents : \A p \in UpTo(s, i, residents) :
            ~Fits(Demoted(s, UpTo(s, p, residents) \ {p}, failing))}
Squeezed(s, failing) == Demoted(s, Going(s, failing), failing)
Leaving(s) ==
    {i \in Rows(s) : \A p \in UpTo(s, i, Rows(s)) :
        ~Fits(Deleted(s, UpTo(s, p, Rows(s)) \ {p}))}

\* pruneResponses is these steps, one after the other.
LEMMA PrunedIs ==
    ASSUME NEW s, NEW failing
    PROVE  LET t == Squeezed(Counted(s), failing)
           IN  Pruned(s, failing) = Deleted(t, Leaving(t))
BY Zenon DEF Pruned, Squeezed, Counted, Unexpired, Going, Leaving

\* Each of them frees memory, and so do all of them.
LEMMA PrunedPrunes ==
    ASSUME NEW s, Proper(s), NEW failing
    PROVE  LET u == Unexpired(s)
               c == Counted(s)
               t == Squeezed(c, failing)
           IN  /\ Proper(u) /\ Prunes(s, u) /\ Proper(c) /\ Prunes(u, c)
               /\ Proper(t) /\ Prunes(c, t)
               /\ Proper(Pruned(s, failing)) /\ Prunes(t, Pruned(s, failing))
               /\ Prunes(s, Pruned(s, failing))
<1> DEFINE u == Unexpired(s)
           c == Counted(s)
           t == Squeezed(c, failing)
           p == Pruned(s, failing)
<1>1. Proper(u) /\ Prunes(s, u)
  <2>1. Expired(s) \in SUBSET Ids
    BY DEF Expired
  <2> QED BY <2>1, DeletedPrunes DEF Unexpired
<1>2. Proper(c) /\ Prunes(u, c)
  <2>1. Oldest(u) \in SUBSET Ids
    BY DEF Oldest, Rows
  <2> HIDE DEF u
  <2> QED BY <1>1, <2>1, DeletedPrunes DEF Counted, u
<1>3. Proper(t) /\ Prunes(c, t)
  <2>1. Going(c, failing) \in SUBSET Ids /\ \A i \in Going(c, failing) : c.row[i].kind = "resident"
    BY DEF Going
  <2> HIDE DEF c
  <2> QED BY <1>2, <2>1, DemotedPrunes DEF Squeezed
<1>4. Proper(p) /\ Prunes(t, p)
  <2>1. Leaving(t) \in SUBSET Ids
    BY DEF Leaving, Rows
  <2>2. p = Deleted(t, Leaving(t))
    BY PrunedIs
  <2> HIDE DEF t, p
  <2> QED BY <1>3, <2>1, <2>2, DeletedPrunes
<1> HIDE DEF u, c, t, p
<1>5. Prunes(s, c)
  BY <1>1, <1>2, PrunesTwice
<1>6. Prunes(s, t)
  BY <1>2, <1>3, <1>5, PrunesTwice
<1>7. Prunes(s, p)
  BY <1>3, <1>4, <1>6, PrunesTwice
<1> QED BY <1>1, <1>2, <1>3, <1>4, <1>7 DEF u, c, t, p

-----------------------------------------------------------------------------
(* Files and the queue.                                                    *)

\* What a store has a use for.
OwnedBy(s) == Named(s.row, Ids) \cup ToSet(s.queue)

\* A file that t has and has no use for is one that s had no use for.
Tidy(s, t) ==
    \A f \in t.files : f \in OwnedBy(t) \/ (f \in s.files /\ f \notin OwnedBy(s))

\* A row without its file had lost it before.
Backed(s, t) ==
    \A i \in Ids : t.row[i].kind = "spill" /\ File(i, t.row[i].v, t.row[i].g) \notin t.files =>
        t.row[i] = s.row[i] /\ File(i, t.row[i].v, t.row[i].g) \notin s.files

\* The queue is full and gives up f.
Overflows(s, t, f) ==
    Len(s.queue) = QueueMax /\ s.queue # t.queue /\ Len(t.queue) = QueueMax /\ Head(s.queue) = f

\* A file goes with its row, or when the queue is full.
Parts(s, t) ==
    \A f \in s.files \ t.files : t.row[f.id] = Absent \/ Overflows(s, t, f)

\* What a handler may do to files and rows.
Handles(s, t) == Tidy(s, t) /\ Backed(s, t) /\ Parts(s, t)

\* What waits in the queue is older than what is remembered now.
Behind(s, L) ==
    \A f \in ToSet(s.queue) :
        /\ f.v <= L[f.id]
        /\ s.row[f.id].kind \in {"resident", "spill"} => f.v < s.row[f.id].v

\* A handler may prune at its end,
LEMMA HandlesThenPrunes ==
    ASSUME NEW s, NEW t, NEW u, Proper(s), Handles(s, t), Prunes(t, u)
    PROVE  Handles(s, u)
<1>1. Tidy(s, u)
  BY DEF Handles, Tidy, Prunes, OwnedBy
<1>2. Backed(s, u)
  BY DEF Handles, Backed, Prunes
<1>3. ASSUME NEW f \in s.files \ u.files
      PROVE  u.row[f.id] = Absent \/ Overflows(s, u, f)
  <2>1. f.id \in Ids
    BY FileIs DEF Proper
  <2>2. CASE f \in t.files
    BY <2>2 DEF Prunes
  <2>3. CASE f \notin t.files /\ t.row[f.id] = Absent
    <3>1. Slimmer(u.row[f.id], t.row[f.id])
      BY <2>1 DEF Prunes
    <3> QED BY <2>3, <3>1, RowFields DEF Slimmer
  <2>4. CASE f \notin t.files /\ Overflows(s, t, f)
    BY <2>4 DEF Prunes, Overflows
  <2> QED BY <2>2, <2>3, <2>4 DEF Handles, Parts
<1> QED BY <1>1, <1>2, <1>3 DEF Handles, Parts

\* or do nothing but prune.
LEMMA PrunesHandles ==
    ASSUME NEW s, NEW t, Prunes(s, t)
    PROVE  Handles(s, t)
<1>1. Tidy(s, t)
  BY DEF Tidy, Prunes, OwnedBy
<1> QED BY <1>1 DEF Handles, Backed, Parts, Prunes

\* What waits in the queue stays behind when memory is freed.
LEMMA PrunesBehind ==
    ASSUME NEW s, NEW t, Proper(s), Prunes(s, t), NEW L, Behind(s, L)
    PROVE  Behind(t, L)
<1> SUFFICES ASSUME NEW f \in ToSet(t.queue)
             PROVE  /\ f.v <= L[f.id]
                    /\ t.row[f.id].kind \in {"resident", "spill"} => f.v < t.row[f.id].v
  BY DEF Behind
<1>1. f \in ToSet(s.queue)
  BY DEF Prunes
<1>2. f \in Files
  BY <1>1 DEF Proper, ToSet
<1>3. f.id \in Ids
  BY <1>2, FileIs
<1>4. Slimmer(t.row[f.id], s.row[f.id])
  BY <1>3 DEF Prunes
<1>5. t.row[f.id].kind \in {"resident", "spill"} =>
        s.row[f.id].kind \in {"resident", "spill"} /\ s.row[f.id].v = t.row[f.id].v
  BY <1>4, RowFields DEF Slimmer
<1> QED BY <1>1, <1>5 DEF Behind

\* A row that is set leaves a store,
LEMMA PlacedProper ==
    ASSUME NEW s, Proper(s), NEW i \in Ids, NEW r, RowOK(r), r # Absent
    PROVE  LET t == Placed(s, i, r)
           IN  Proper(t) /\ t.row = [s.row EXCEPT ![i] = r] /\ t.files = s.files /\ t.queue = s.queue
<1> DEFINE t == Placed(s, i, r)
           k == Keep(s.order, Ids \ {i})
<1>1. IsStore(s) /\ Neat(s) /\ s.queue \in Seq(Files) /\ s.files \subseteq Files /\ Len(s.queue) <= QueueMax
  BY ProperFacts
<1>2. r.kind \in Kinds /\ r.v \in Nat /\ r.kind # "none"
  BY RowFacts DEF RowOK
<1>3. t.row = [s.row EXCEPT ![i] = r] /\ t.files = s.files /\ t.queue = s.queue /\ IsStore(t)
  BY <1>1, <1>2, PlacedFields
<1>4. t.order = Append(k, i)
  BY <1>1, PlacedOrder
<1>5. k \in Seq(Ids) /\ IsInjective(k) /\ ToSet(k) = ToSet(s.order) \cap (Ids \ {i})
  BY <1>1, KeepFields DEF Neat
<1> HIDE DEF t, k
<1>6. t.order \in Seq(Ids) /\ IsInjective(t.order) /\ ToSet(t.order) = ToSet(k) \cup {i}
  BY <1>4, <1>5, Sequences
<1>7. /\ t.row = [j \in Ids |-> t.row[j]] /\ t.row[i] = r
      /\ \A j \in Ids \ {i} : t.row[j] = s.row[j]
  BY <1>1, <1>3 DEF Neat
<1>8. Rows(t) = Rows(s) \cup {i}
  BY <1>2, <1>7 DEF Rows
<1>9. ToSet(t.order) = Rows(t)
  BY <1>1, <1>5, <1>6, <1>8 DEF Neat, Rows
<1>10. \A j \in Ids : RowOK(t.row[j])
  BY <1>1, <1>7 DEF Neat
<1>11. Neat(t)
  BY <1>6, <1>7, <1>9, <1>10 DEF Neat
<1>12. Proper(t)
  BY <1>1, <1>3, <1>11 DEF Proper, IsStore
<1> QED BY <1>3, <1>12 DEF t

\* and so does one whose file goes to the queue.
LEMMA ReplacedProper ==
    ASSUME NEW s, Proper(s), NEW i \in Ids, NEW r, RowOK(r), r # Absent
    PROVE  LET t == Replaced(s, i, r)
               f == File(i, s.row[i].v, s.row[i].g)
           IN  /\ Proper(t) /\ t.row = [s.row EXCEPT ![i] = r]
               /\ \/ s.row[i].kind # "spill" /\ t.files = s.files /\ t.queue = s.queue
                  \/ s.row[i].kind = "spill" /\ f \in Files /\ t.files = s.files /\ t.queue = Append(s.queue, f)
                  \/ /\ s.row[i].kind = "spill" /\ f \in Files
                     /\ Len(s.queue) = QueueMax /\ Len(t.queue) = QueueMax
                     /\ t.files = s.files \ {Head(s.queue)}
                     /\ t.queue = Append(Tail(s.queue), f)
<1> DEFINE p == Placed(s, i, r)
           f == File(i, s.row[i].v, s.row[i].g)
           t == Replaced(s, i, r)
<1>1. Proper(p) /\ p.row = [s.row EXCEPT ![i] = r] /\ p.files = s.files /\ p.queue = s.queue
  BY PlacedProper
<1>2. t = IF s.row[i].kind = "spill" THEN Superseded(p, f) ELSE p
  BY Zenon DEF Replaced
<1>3. CASE s.row[i].kind # "spill"
  BY <1>1, <1>2, <1>3
<1>4. CASE s.row[i].kind = "spill"
  <2>1. f \in Files
    BY <1>4, NeatFacts, ProperFacts
  <2> HIDE DEF p, f
  <2>2. IsStore(p) /\ Neat(p) /\ p.queue \in Seq(Files) /\ Len(p.queue) <= QueueMax /\ p.files \subseteq Files
    BY <1>1, ProperFacts
  <2> DEFINE u == Superseded(p, f)
  <2>3. u.row = p.row /\ u.files \subseteq p.files /\ IsStore(u)
    BY <2>2, SupersededFields
  <2>4. /\ u.order = p.order /\ u.queue \in Seq(Files) /\ Len(u.queue) <= QueueMax
        /\ \/ u.files = p.files /\ u.queue = Append(p.queue, f)
           \/ /\ Len(p.queue) = QueueMax /\ Len(u.queue) = QueueMax
              /\ u.files = p.files \ {Head(p.queue)}
              /\ u.queue = Append(Tail(p.queue), f)
    BY <2>1, <2>2, SupersededQueue
  <2>5. t = u
    BY <1>2, <1>4
  <2> HIDE DEF u, t
  <2>6. Rows(u) = Rows(p)
    BY <2>3 DEF Rows
  <2>7. Neat(u)
    BY <2>2, <2>3, <2>4, <2>6 DEF Neat
  <2>8. u = [row |-> u.row, order |-> u.order, queue |-> u.queue, files |-> u.files]
    BY <2>3 DEF IsStore
  <2>9. Proper(u)
    BY <2>2, <2>3, <2>4, <2>7, <2>8 DEF Proper
  <2> QED BY <1>1, <1>4, <2>1, <2>3, <2>4, <2>5, <2>9 DEF t, f
<1> QED BY <1>3, <1>4

\* The members of a queue whose head has gone.
LEMMA QueueHead ==
    ASSUME NEW T, NEW q \in Seq(T), q # <<>>, NEW f \in T
    PROVE  /\ ToSet(Append(Tail(q), f)) = ToSet(Tail(q)) \cup {f}
           /\ ToSet(q) = ToSet(Tail(q)) \cup {Head(q)}
<1>1. Tail(q) \in Seq(T)
  OBVIOUS
<1>2. ToSet(Append(Tail(q), f)) = ToSet(Tail(q)) \cup {f}
  <2> DEFINE t == Tail(q)
  <2>1. t \in Seq(T)
    BY <1>1
  <2> HIDE DEF t
  <2>2. ToSet(Append(t, f)) = ToSet(t) \cup {f}
    BY <2>1, Sequences
  <2> QED BY <2>2 DEF t
<1>3. /\ Len(q) \in Nat /\ Len(q) > 0 /\ Len(Tail(q)) = Len(q) - 1 /\ Head(q) = q[1]
      /\ \A n \in 1..(Len(q) - 1) : Tail(q)[n] = q[n + 1]
  <2>1. Len(q) \in Nat /\ Len(q) > 0 /\ Len(Tail(q)) = Len(q) - 1 /\ Head(q) = q[1]
    OBVIOUS
  <2>2. ASSUME NEW n \in 1..(Len(q) - 1) PROVE Tail(q)[n] = q[n + 1]
    BY <2>1
  <2> QED BY <2>1, <2>2
<1>4. ASSUME NEW x \in ToSet(q) PROVE x \in ToSet(Tail(q)) \cup {Head(q)}
  <2>1. PICK n \in 1..Len(q) : x = q[n]
    BY DEF ToSet
  <2>2. CASE n = 1
    BY <1>3, <2>1, <2>2
  <2>3. CASE n # 1
    <3>1. n - 1 \in 1..(Len(q) - 1) /\ n - 1 + 1 = n
      BY <1>3, <2>3
    <3>2. x = Tail(q)[n - 1]
      BY <1>3, <2>1, <3>1
    <3>3. x \in ToSet(Tail(q))
      <4>1. DOMAIN Tail(q) = 1..(Len(q) - 1)
        BY <1>1, <1>3
      <4> QED BY <3>1, <3>2, <4>1 DEF ToSet
    <3> QED BY <3>3
  <2> QED BY <2>2, <2>3
<1>5. ASSUME NEW x \in ToSet(Tail(q)) PROVE x \in ToSet(q)
  <2>1. PICK n \in 1..(Len(q) - 1) : x = Tail(q)[n]
    BY <1>1, <1>3 DEF ToSet
  <2>2. n + 1 \in 1..Len(q)
    BY <1>3
  <2>3. x = q[n + 1]
    BY <1>3, <2>1
  <2> QED BY <2>2, <2>3 DEF ToSet
<1>6. Head(q) \in ToSet(q)
  BY <1>3 DEF ToSet
<1> QED BY <1>2, <1>4, <1>5, <1>6

\* A version that replaces an older one: the file of the older one waits in the
\* queue, or it takes the place of the one that has waited for longest.
LEMMA ReplacedHandles ==
    ASSUME NEW s, Proper(s), NEW L \in [Ids -> Nat], Behind(s, L), Remembered(s.row, L),
           NEW i \in Ids, NEW v \in 1..MaxVersion, \A j \in Ids : L[j] < v,
           NEW r, RowOK(r), r # Absent, r.kind \in {"resident", "spill"} => r.v = v,
           NEW u, Proper(u), u.row = s.row, u.queue = s.queue,
           \/ r.kind # "spill" /\ u.files = s.files
           \/ r.kind = "spill" /\ u.files = s.files \cup {File(i, v, r.g)}
    PROVE  LET t == Replaced(u, i, r)
           IN  Proper(t) /\ Handles(s, t) /\ Behind(t, [L EXCEPT ![i] = v])
<1> DEFINE t == Replaced(u, i, r)
           f == File(i, s.row[i].v, s.row[i].g)
           p == File(i, v, r.g)
           M == [L EXCEPT ![i] = v]
<1>1. /\ Proper(t) /\ t.row = [u.row EXCEPT ![i] = r]
      /\ \/ u.row[i].kind # "spill" /\ t.files = u.files /\ t.queue = u.queue
         \/ u.row[i].kind = "spill" /\ f \in Files /\ t.files = u.files /\ t.queue = Append(u.queue, f)
         \/ /\ u.row[i].kind = "spill" /\ f \in Files
            /\ Len(u.queue) = QueueMax /\ Len(t.queue) = QueueMax
            /\ t.files = u.files \ {Head(u.queue)}
            /\ t.queue = Append(Tail(u.queue), f)
  <2> DEFINE h == File(i, u.row[i].v, u.row[i].g)
  <2>1. /\ Proper(t) /\ t.row = [u.row EXCEPT ![i] = r]
        /\ \/ u.row[i].kind # "spill" /\ t.files = u.files /\ t.queue = u.queue
           \/ u.row[i].kind = "spill" /\ h \in Files /\ t.files = u.files /\ t.queue = Append(u.queue, h)
           \/ /\ u.row[i].kind = "spill" /\ h \in Files
              /\ Len(u.queue) = QueueMax /\ Len(t.queue) = QueueMax
              /\ t.files = u.files \ {Head(u.queue)}
              /\ t.queue = Append(Tail(u.queue), h)
    <3> HIDE DEF f, p, M
    <3> QED BY ReplacedProper, SMTT(60)
  <2>2. h = f
    OBVIOUS
  <2> HIDE DEF h, f, t
  <2> QED BY <2>1, <2>2
<1>2. t.row[i] = r /\ \A j \in Ids \ {i} : t.row[j] = s.row[j]
  BY <1>1 DEF Proper, Neat
<1>3. f.id = i /\ f.v = s.row[i].v /\ p.id = i /\ p.v = v
  BY FileIs
<1>4. \A g \in ToSet(s.queue) : g \in Files /\ g.id \in Ids
  BY FileIs DEF Proper, ToSet
<1>5. s.queue \in Seq(Files) /\ QueueMax \in Nat /\ QueueMax > 0
  BY ResponseAssumption DEF Proper
\* What waits is older than what comes.
<1>6. \A g \in ToSet(s.queue) :
        g # p /\ g.v \in Nat /\ g.v < v /\ (s.row[i].kind = "spill" => g # f)
  <2>1. ASSUME NEW g \in ToSet(s.queue)
        PROVE  g.v \in Nat /\ g.v < v /\ g # p
    <3>1. g.v \in Nat /\ g.v <= L[g.id] /\ L[g.id] < v /\ L[g.id] \in Nat /\ v \in Nat
      BY <1>4, FileIs, ResponseAssumption DEF Behind
    <3> QED BY <1>3, <3>1
  <2>2. ASSUME NEW g \in ToSet(s.queue), g = f, s.row[i].kind = "spill"
        PROVE  FALSE
    <3>1. f.v < s.row[i].v
      BY <1>3, <2>2 DEF Behind
    <3>2. s.row[i].v \in Nat
      BY RowFacts DEF Proper, Neat
    <3> QED BY <1>3, <3>1, <3>2
  <2> QED BY <2>1, <2>2
\* What becomes of the queue and the files.
<1>7. \/ s.row[i].kind # "spill" /\ t.files = u.files /\ ToSet(t.queue) = ToSet(s.queue)
      \/ /\ s.row[i].kind = "spill" /\ f \in Files /\ t.files = u.files
         /\ ToSet(t.queue) = ToSet(s.queue) \cup {f}
      \/ \E h \in ToSet(s.queue), Q \in SUBSET ToSet(s.queue) :
           /\ s.row[i].kind = "spill" /\ f \in Files /\ t.files = u.files \ {h}
           /\ ToSet(s.queue) = Q \cup {h}
           /\ ToSet(t.queue) = Q \cup {f} /\ Overflows(s, t, h)
  <2>1. CASE u.row[i].kind # "spill" /\ t.files = u.files /\ t.queue = u.queue
    BY <2>1
  <2>2. CASE u.row[i].kind = "spill" /\ f \in Files /\ t.files = u.files /\ t.queue = Append(u.queue, f)
    <3>1. ToSet(Append(s.queue, f)) = ToSet(s.queue) \cup {f}
      BY <1>5, <2>2, Sequences
    <3> QED BY <2>2, <3>1
  <2>3. CASE /\ u.row[i].kind = "spill" /\ f \in Files
             /\ Len(u.queue) = QueueMax /\ Len(t.queue) = QueueMax
             /\ t.files = u.files \ {Head(u.queue)}
             /\ t.queue = Append(Tail(u.queue), f)
    <3> DEFINE h == Head(s.queue)
               Q == ToSet(Tail(s.queue))
    <3>1. s.queue # <<>>
      BY <1>5, <2>3
    <3>2. ToSet(Append(Tail(s.queue), f)) = Q \cup {f} /\ ToSet(s.queue) = Q \cup {h}
      BY <1>5, <2>3, <3>1, QueueHead
    <3>3. ToSet(t.queue) = Q \cup {f} /\ t.files = u.files \ {h}
      BY <2>3, <3>2
    <3>4. f \notin ToSet(s.queue)
      BY <1>6, <2>3
    <3>5. s.queue # t.queue
      <4> HIDE DEF t, f, Q
      <4> QED BY <3>3, <3>4
    <3>6. Overflows(s, t, h)
      BY <2>3, <3>5 DEF Overflows
    <3> HIDE DEF t, f, Q, h
    <3>7. h \in ToSet(s.queue) /\ Q \in SUBSET ToSet(s.queue)
      BY <3>2
    <3> QED BY <2>3, <3>2, <3>3, <3>6, <3>7
  <2> QED BY <1>1, <2>1, <2>2, <2>3
<1>8. \/ r.kind # "spill" /\ u.files = s.files
      \/ r.kind = "spill" /\ r.v = v /\ u.files = s.files \cup {p}
  OBVIOUS
<1>9. p \notin ToSet(s.queue) /\ (s.row[i].kind = "spill" => f \notin ToSet(s.queue))
  BY <1>6
<1> HIDE DEF t, f, p, M
<1>10. ASSUME NEW g \in t.files
       PROVE  g \in OwnedBy(t) \/ (g \in s.files /\ g \notin OwnedBy(s))
  <2>1. CASE g \in Named(s.row, Ids)
    <3>1. PICK j \in Ids : s.row[j].kind = "spill" /\ g = File(j, s.row[j].v, s.row[j].g)
      BY <2>1, NamedIs
    <3>2. CASE j = i
      <4>1. g = f
        BY <3>1, <3>2 DEF f
      <4> QED BY <1>7, <3>1, <3>2, <4>1 DEF OwnedBy
    <3>3. CASE j # i
      <4>1. g \in Named(t.row, Ids)
        BY <1>2, <3>1, <3>3, NamedIs
      <4> QED BY <4>1 DEF OwnedBy
    <3> QED BY <3>2, <3>3
  <2>2. CASE g \in ToSet(s.queue)
    BY <1>7, <2>2 DEF OwnedBy
  <2>3. CASE g \notin Named(s.row, Ids) /\ g \notin ToSet(s.queue)
    <3>1. g \in s.files \/ (g = p /\ r.kind = "spill" /\ r.v = v)
      BY <1>7, <1>8
    <3>2. ASSUME g = p, r.kind = "spill", r.v = v
          PROVE  g \in Named(t.row, Ids)
      BY <1>2, <3>2, NamedIs DEF p
    <3> QED BY <2>3, <3>1, <3>2 DEF OwnedBy
  <2> QED BY <2>1, <2>2, <2>3
<1>11. ASSUME NEW j \in Ids, t.row[j].kind = "spill", File(j, t.row[j].v, t.row[j].g) \notin t.files
       PROVE  t.row[j] = s.row[j] /\ File(j, t.row[j].v, t.row[j].g) \notin s.files
  <2>1. j # i
    <3>1. SUFFICES ASSUME j = i PROVE FALSE
      OBVIOUS
    <3>2. r.kind = "spill" /\ p \in u.files /\ File(j, t.row[j].v, t.row[j].g) = p
      BY <1>2, <1>8, <1>11, <3>1 DEF p
    <3>3. p \in t.files
      BY <1>7, <1>9, <3>2
    <3> QED BY <1>11, <3>2, <3>3
  <2>2. t.row[j] = s.row[j]
    BY <1>2, <2>1
  <2> DEFINE g == File(j, s.row[j].v, s.row[j].g)
  <2>3. g \notin ToSet(s.queue)
    <3>1. g.id = j /\ g.v = s.row[j].v /\ s.row[j].v \in Nat
      BY FileIs, RowFacts DEF Proper, Neat
    <3> QED BY <1>11, <2>2, <3>1 DEF Behind
  <2> HIDE DEF g
  <2>4. g \notin t.files
    BY <1>11, <2>2 DEF g
  <2>5. g \notin s.files
    BY <1>7, <1>8, <2>3, <2>4
  <2> QED BY <2>2, <2>5 DEF g
<1>12. ASSUME NEW g \in s.files \ t.files
       PROVE  Overflows(s, t, g)
  BY <1>7, <1>8
<1>13. ASSUME NEW g \in ToSet(t.queue)
       PROVE  /\ g.v <= M[g.id]
              /\ t.row[g.id].kind \in {"resident", "spill"} => g.v < t.row[g.id].v
  <2>1. v \in Nat /\ M[i] = v /\ \A j \in Ids \ {i} : M[j] = L[j]
    BY DEF M
  <2>2. CASE g \in ToSet(s.queue)
    <3>1. g.id \in Ids /\ g.v \in Nat /\ g.v < v
      BY <1>4, <1>6, <2>2
    <3>2. CASE g.id = i
      BY <1>2, <2>1, <3>1, <3>2
    <3>3. CASE g.id # i
      BY <1>2, <2>1, <2>2, <3>1, <3>3 DEF Behind
    <3> QED BY <3>2, <3>3
  <2>3. CASE g = f /\ s.row[i].kind = "spill"
    <3>1. g.id = i /\ g.v = s.row[i].v /\ g.v \in Nat /\ g.v <= L[i] /\ L[i] < v /\ L[i] \in Nat
      BY <1>3, <2>3, RowFacts DEF Remembered, Proper, Neat
    <3>2. g.v < v
      BY <2>1, <3>1
    <3> QED BY <1>2, <2>1, <3>1, <3>2
  <2> QED BY <1>7, <2>2, <2>3
<1> QED BY <1>1, <1>10, <1>11, <1>12, <1>13 DEF Handles, Tidy, Backed, Parts, Behind, t, M

\* setResidentEntry handles files as a handler may, and what it leaves in the
\* queue is older than the version it sets.
LEMMA AdmittedHandles ==
    ASSUME NEW s, Proper(s), NEW L \in [Ids -> Nat], Behind(s, L), Remembered(s.row, L),
           NEW i \in Ids, NEW v \in 1..MaxVersion, \A j \in Ids : L[j] < v,
           NEW size \in Sizes, NEW failing
    PROVE  LET t == Admitted(s, i, v, size, failing)
           IN  Proper(t) /\ Handles(s, t) /\ Behind(t, [L EXCEPT ![i] = v])
<1> DEFINE g == FreeName(s, i, v)
           p == File(i, v, g)
           u == [s EXCEPT !.files = @ \cup {p}]
           t == Admitted(s, i, v, size, failing)
           w == IF s.row[i].kind = "none" THEN v ELSE s.row[i].v
           M == [L EXCEPT ![i] = v]
<1>1. \/ t = Replaced(s, i, Tombstone(w))
      \/ ~Fails(s, i, v, failing) /\ t = Replaced(u, i, Stub(v, g))
      \/ s.row[i].kind # "spill" /\ t = Placed(s, i, Resident(v, size))
  BY Zenon DEF Admitted
<1>2. CASE t = Replaced(s, i, Tombstone(w))
  <2>1. w \in 1..MaxVersion
    BY DEF Proper, Neat, RowOK
  <2> DEFINE r == Tombstone(w)
  <2>2. RowOK(r) /\ r # Absent /\ r.kind = "spill-failed"
    BY <2>1, RowsAreOK, RowFields
  <2> HIDE DEF r
  <2>3. Proper(Replaced(s, i, r)) /\ Handles(s, Replaced(s, i, r)) /\ Behind(Replaced(s, i, r), M)
    BY <2>2, ReplacedHandles
  <2> QED BY <1>2, <2>3 DEF r
<1>3. CASE ~Fails(s, i, v, failing) /\ t = Replaced(u, i, Stub(v, g))
  <2>1. g \in 1..Retries /\ p \in Files
    <3>1. FreeNames(s, i, v) # {} /\ FreeNames(s, i, v) \in SUBSET Nat
      BY <1>3, ResponseAssumption DEF Fails, FreeNames
    <3>2. g \in FreeNames(s, i, v)
      BY <3>1, MinIsIn DEF FreeName
    <3>3. g \in 1..Retries
      BY <3>2 DEF FreeNames
    <3> HIDE DEF g
    <3> QED BY <3>3 DEF File, Files
  <2> HIDE DEF g
  <2> DEFINE r == Stub(v, g)
  <2>2. RowOK(r) /\ r # Absent /\ r.kind = "spill" /\ r.v = v /\ r.g = g
    BY <2>1, RowsAreOK, RowFields
  <2>3. u = [row |-> s.row, order |-> s.order, queue |-> s.queue, files |-> s.files \cup {p}]
    <3>1. s = [row |-> s.row, order |-> s.order, queue |-> s.queue, files |-> s.files]
      BY DEF Proper
    <3> HIDE DEF p
    <3> QED BY <3>1
  <2> HIDE DEF u
  <2>4. u.row = s.row /\ u.order = s.order /\ u.queue = s.queue /\ u.files = s.files \cup {p}
    BY <2>3
  <2>5. Rows(u) = Rows(s)
    BY <2>4 DEF Rows
  <2>6. Proper(u)
    BY <2>1, <2>3, <2>4, <2>5 DEF Proper, Neat
  <2> HIDE DEF r
  <2>7. Proper(Replaced(u, i, r)) /\ Handles(s, Replaced(u, i, r)) /\ Behind(Replaced(u, i, r), M)
    BY <2>2, <2>4, <2>6, ReplacedHandles
  <2> QED BY <1>3, <2>7 DEF r
<1>4. CASE s.row[i].kind # "spill" /\ t = Placed(s, i, Resident(v, size))
  <2> DEFINE r == Resident(v, size)
  <2>1. RowOK(r) /\ r # Absent /\ r.kind = "resident" /\ r.v = v
    BY RowsAreOK, RowFields
  <2> HIDE DEF r
  <2>2. Proper(Replaced(s, i, r)) /\ Handles(s, Replaced(s, i, r)) /\ Behind(Replaced(s, i, r), M)
    BY <2>1, ReplacedHandles
  <2>3. t = Replaced(s, i, r)
    BY <1>4 DEF Replaced, r
  <2> QED BY <2>2, <2>3
<1> QED BY <1>1, <1>2, <1>3, <1>4

-----------------------------------------------------------------------------
(* The invariant of the store.                                             *)

\* The store that the variables are.
LEMMA StoreFacts ==
    /\ Store.row = row /\ Store.order = order /\ Store.queue = queue /\ Store.files = files
    /\ Rows(Store) = {i \in Ids : row[i].kind # "none"}
BY DEF Store, Rows

\* A picture is of some rows that may be saved, of all of them unless it is cut.
LEMMA PictureIs ==
    ASSUME Proper(Store)
    PROVE  LET E == {i \in Ids : Eligible(row[i])}
           IN  \E N \in SUBSET E :
                 /\ Picture.row = [i \in Ids |-> IF i \in N THEN row[i] ELSE Absent]
                 /\ Picture.cut \in BOOLEAN /\ (~Picture.cut => N = E)
                 /\ Picture = [row |-> Picture.row, order |-> Picture.order, cut |-> Picture.cut]
                 /\ Neat(Picture)
<1> DEFINE E == {i \in Ids : Eligible(row[i])}
           fit == Keep(order, E)
           n == Len(fit)
           Newest(k) == {fit[m] : m \in (n - k + 1)..n}
           S == {k \in 0..n : Bytes(row, Newest(k)) <= SnapshotMax}
           kept == Max(S)
           N == Newest(kept)
           R == [i \in Ids |-> IF i \in N THEN row[i] ELSE Absent]
           o == Keep(fit, N)
<1>1. Picture = [row |-> R, order |-> o, cut |-> kept < n]
  BY Zenon DEF Picture
<1>2. /\ order \in Seq(Ids) /\ IsInjective(order) /\ ToSet(order) = {i \in Ids : row[i].kind # "none"}
      /\ \A i \in Ids : RowOK(row[i])
  BY StoreFacts DEF Proper, Neat
<1>3. fit \in Seq(Ids) /\ IsInjective(fit) /\ ToSet(fit) = ToSet(order) \cap E
  BY <1>2, KeepFields
<1>4. ToSet(fit) = E
  BY <1>2, <1>3 DEF Eligible
<1> HIDE DEF E, fit
<1>5. n \in Nat
  BY <1>3
<1> HIDE DEF n
<1>6. S \in SUBSET (0..n) /\ S # {}
  <2>1. Newest(0) = {}
    BY <1>5
  <2> HIDE DEF Newest
  <2>2. Bytes(row, Newest(0)) = 0
    BY <2>1, BytesType, FS_EmptySet
  <2>3. 0 \in S
    BY <1>5, <2>2, ResponseAssumption
  <2> QED BY <2>3
<1>7. kept \in 0..n
  <2>1. kept \in S
    <3> HIDE DEF S
    <3> QED BY <1>5, <1>6, MaxIsIn
  <2> QED BY <2>1
<1> HIDE DEF kept
<1>8. N \in SUBSET E
  <2> SUFFICES ASSUME NEW m \in (n - kept + 1)..n PROVE fit[m] \in E
    OBVIOUS
  <2>1. m \in 1..Len(fit)
    BY <1>5, <1>7 DEF n
  <2> QED BY <1>3, <1>4, <2>1 DEF ToSet
<1>9. ASSUME ~(kept < n) PROVE N = E
  <2>1. kept = n /\ n - kept + 1 = 1
    BY <1>5, <1>7, <1>9
  <2>2. N = {fit[m] : m \in 1..n}
    BY <2>1
  <2>3. ToSet(fit) = {fit[m] : m \in 1..n}
    BY <1>3 DEF ToSet, n
  <2> QED BY <1>4, <2>2, <2>3
<1> HIDE DEF N
<1>10. o \in Seq(Ids) /\ IsInjective(o) /\ ToSet(o) = N
  <2>1. o \in Seq(Ids) /\ ToSet(o) = ToSet(fit) \cap N /\ (IsInjective(fit) => IsInjective(o))
    BY <1>3, KeepFields
  <2> QED BY <1>3, <1>4, <1>8, <2>1
<1> HIDE DEF o
<1>11. Picture.row = R /\ Picture.order = o /\ Picture.cut = (kept < n)
  BY <1>1
<1>12. Rows(Picture) = N
  <2>1. \A i \in Ids : Picture.row[i] = IF i \in N THEN row[i] ELSE Absent
    BY <1>11
  <2>2. \A i \in N : i \in Ids /\ row[i].kind # "none"
    BY <1>8 DEF E, Eligible
  <2> QED BY <2>1, <2>2, RowFields DEF Rows
<1>13. Neat(Picture)
  <2>1. \A i \in Ids : RowOK(R[i])
    BY <1>2, RowsAreOK
  <2>2. R = [i \in Ids |-> R[i]]
    OBVIOUS
  <2> HIDE DEF R
  <2> QED BY <1>10, <1>11, <1>12, <2>1, <2>2 DEF Neat
<1>14. Picture = [row |-> Picture.row, order |-> Picture.order, cut |-> Picture.cut]
  BY <1>1, <1>11
<1>15. Picture.cut \in BOOLEAN /\ (~Picture.cut => N = E)
  <2>1. CASE kept < n
    <3>1. Picture.cut = TRUE
      BY <1>11, <2>1
    <3> QED BY <3>1
  <2>2. CASE ~(kept < n)
    <3>1. Picture.cut = FALSE
      <4> DEFINE b == kept < n
      <4>1. ~b
        BY <2>2
      <4>2. Picture.cut = b
        BY <1>11
      <4>3. b \in BOOLEAN
        BY <1>5, <1>7
      <4> HIDE DEF b
      <4> QED BY <4>1, <4>2, <4>3
    <3> QED BY <1>9, <2>2, <3>1
  <2> QED BY <2>1, <2>2
<1>16. Picture.row = [i \in Ids |-> IF i \in N THEN row[i] ELSE Absent]
  BY <1>11
<1> QED BY <1>8, <1>13, <1>14, <1>15, <1>16, Zenon DEF E

\* What the variables besides the store can be.
WriterShapes == [stage : {"idle", "writing", "renamed", "unstable"},
                 kind : {"background", "flush", "again"}, attempt : 0..Attempts,
                 picture : Snapshots]

Shapes ==
    /\ snapshot \in Snapshots /\ writer \in WriterShapes
    /\ waiting \in Seq({"background", "flush", "again", "await"})
    /\ flush \in {"no", "called", "done"}
    /\ timer \in BOOLEAN /\ changed \in BOOLEAN /\ loaded \in BOOLEAN /\ missed \in BOOLEAN
    /\ last \in [Ids -> Versions] /\ horizon \in Versions

\* Before the first request nothing waits and nothing has failed.
StartInv == ~loaded => order = <<>> /\ queue = <<>> /\ flush = "no" /\ ~missed

\* Between the renaming of a snapshot and what follows it nothing runs; what has
\* not changed since it was read is what is written.
PictureInv ==
    /\ writer.stage \in {"renamed", "unstable"} => snapshot = writer.picture
    /\ writer.stage \in {"writing", "renamed"} /\ ~changed =>
         \A i \in Ids : writer.picture.row[i] \in {row[i], Absent}

\* What holds of the store, of the snapshot and of the picture of it.
FilesInv ==
    /\ Shapes /\ StartInv /\ PictureInv
    /\ Proper(Store) /\ Neat(snapshot) /\ Neat(writer.picture) /\ Behind(Store, last)

\* The invariant of the store, with that of the refinement.
StoreInv == CacheInv /\ FilesInv

\* What a step may not do to files.
FilesKept ==
    /\ loaded /\ loaded' => files' \ Owned' \subseteq files \ Owned
    /\ \A f \in Named(row', Ids) \ files' : f \in Named(row, Ids) \cup Named(snapshot.row, Ids) /\ f \notin files
    /\ \A f \in Named(snapshot'.row, Ids) : ~FileGoes(f)

\* Rows in order are a snapshot.
LEMMA NeatShape ==
    ASSUME NEW s, Neat(s), s = [row |-> s.row, order |-> s.order, cut |-> s.cut], s.cut \in BOOLEAN
    PROVE  s \in Snapshots
<1>1. s.row = [i \in Ids |-> s.row[i]]
  BY DEF Neat
<1>2. \A i \in Ids : s.row[i] \in [kind : Kinds, v : Versions, size : Sizes \cup {0, StubSize, TombSize},
                      g : 0..Retries]
  BY RowFacts DEF Neat, RowOK, Versions
<1>3. s.row \in RowsOfIds
  BY <1>1, <1>2 DEF RowsOfIds
<1> QED BY <1>3 DEF Snapshots, Neat

\* What a handler does to the store.
LEMMA HandlerKeeps ==
    ASSUME NEW t, Proper(Store), Proper(t), Handles(Store, t), Becomes(t), snapshot' = snapshot
    PROVE  FilesKept /\ Store' = t
<1>1. row' = t.row /\ order' = t.order /\ queue' = t.queue /\ files' = t.files
  BY DEF Becomes
<1>2. Store' = t
  <2>1. t = [row |-> t.row, order |-> t.order, queue |-> t.queue, files |-> t.files]
    BY DEF Proper
  <2> QED BY <1>1, <2>1 DEF Store
<1>3. Store.row = row /\ Store.order = order /\ Store.queue = queue /\ Store.files = files
  BY StoreFacts
<1>4. files' \ Owned' \subseteq files \ Owned
  BY <1>1, <1>3 DEF Handles, Tidy, OwnedBy, Owned
<1>5. ASSUME NEW f \in Named(row', Ids) \ files'
      PROVE  f \in Named(row, Ids) /\ f \notin files
  <2>1. PICK i \in Ids : t.row[i].kind = "spill" /\ f = File(i, t.row[i].v, t.row[i].g)
    BY <1>1, NamedIs
  <2>2. t.row[i] = row[i] /\ f \notin files
    BY <1>1, <1>3, <1>5, <2>1 DEF Handles, Backed
  <2> QED BY <2>1, <2>2, NamedIs
<1>6. ASSUME NEW f, FileGoes(f)
      PROVE  FALSE
  <2>1. f \in files \ t.files /\ t.row[f.id].kind # "none"
        /\ ~(Len(queue) = QueueMax /\ queue # t.queue /\ Len(t.queue) = QueueMax /\ Head(queue) = f)
    BY <1>1, <1>6 DEF FileGoes
  <2>2. t.row[f.id] # Absent
    BY <2>1, RowFields
  <2> QED BY <1>3, <2>1, <2>2 DEF Handles, Parts, Overflows
<1> QED BY <1>2, <1>4, <1>5, <1>6 DEF FilesKept

\* A step that touches no row and no file keeps them.
LEMMA QuietKeeps ==
    ASSUME UNCHANGED rows
    PROVE  FilesKept /\ Store' = Store
BY DEF rows, FilesKept, Owned, FileGoes, Store

\* The rows may change, the rest of what a handler leaves.
LEMMA HandlerInv ==
    ASSUME StoreInv, NEW t, Proper(t), Handles(Store, t), Behind(t, last'), Becomes(t),
           UNCHANGED <<snapshot, writer, waiting, flush, missed, loaded>>, loaded, Free,
           timer' \in BOOLEAN, last' \in [Ids -> Versions], horizon' \in Versions,
           \/ changed' = (changed \/ writer.stage # "idle")
           \/ changed' = changed /\ row' = row
    PROVE  FilesInv' /\ FilesKept
<1>1. Store' = t /\ FilesKept
  BY HandlerKeeps DEF StoreInv, FilesInv
<1>2. Shapes'
  BY DEF StoreInv, FilesInv, Shapes
<1>3. PictureInv'
  BY DEF StoreInv, FilesInv, Shapes, WriterShapes, PictureInv, Free
<1>4. StartInv'
  BY DEF StartInv
<1>5. Proper(Store') /\ Behind(Store', last')
  BY <1>1
<1> QED BY <1>1, <1>2, <1>3, <1>4, <1>5 DEF StoreInv, FilesInv

\* Nobody waits at first.
LEMMA NoneWait == <<>> \in Seq({"background", "flush", "again", "await"})
<1> DEFINE T == {"background", "flush", "again", "await"}
<1> HIDE DEF T
<1>1. <<>> \in Seq(T)
  OBVIOUS
<1> QED BY <1>1 DEF T

\* What a process starts with.
LEMMA StartFacts ==
    /\ ToSet(<<>>) = {}
    /\ Neat(NoSnapshot) /\ NoSnapshot \in Snapshots /\ NoWriter \in WriterShapes
    /\ NoWriter.stage = "idle" /\ NoWriter.picture = NoSnapshot /\ NoSnapshot.row = NoRows
    /\ NoSnapshot.order = <<>>
<1>1. ToSet(<<>>) = {} /\ IsInjective(<<>>)
  BY DEF ToSet, IsInjective
<1>2. NoSnapshot.row = NoRows /\ NoSnapshot.order = <<>> /\ NoSnapshot.cut = FALSE
      /\ NoSnapshot = [row |-> NoSnapshot.row, order |-> NoSnapshot.order, cut |-> NoSnapshot.cut]
  BY DEF NoSnapshot
<1>3. \A i \in Ids : NoSnapshot.row[i] = Absent
  BY <1>2 DEF NoRows
<1>4. NoSnapshot.row = [i \in Ids |-> NoSnapshot.row[i]]
  BY <1>2 DEF NoRows
<1>5. Rows(NoSnapshot) = {}
  BY <1>3, RowFields DEF Rows
<1>6. Neat(NoSnapshot)
  BY <1>1, <1>2, <1>3, <1>4, <1>5, RowsAreOK DEF Neat
<1>7. NoSnapshot \in Snapshots
  BY <1>2, <1>6, NeatShape
<1>8. NoWriter = [stage |-> "idle", kind |-> "background", attempt |-> 0, picture |-> NoSnapshot]
  BY DEF NoWriter
<1>9. 0 \in 0..Attempts
  BY ResponseAssumption
<1> QED BY <1>1, <1>2, <1>6, <1>7, <1>8, <1>9 DEF WriterShapes

\* The invariant holds at the start.
LEMMA InitFiles == Init => StoreInv
<1> SUFFICES ASSUME Init PROVE StoreInv
  OBVIOUS
<1>1. CacheInv
  BY InitCache
<1>2. /\ row = NoSnapshot.row /\ order = <<>> /\ queue = <<>> /\ files = {} /\ snapshot = NoSnapshot
      /\ writer = NoWriter /\ ~loaded /\ flush = "no" /\ missed = FALSE /\ loaded = FALSE
      /\ timer = FALSE /\ changed = FALSE /\ waiting = <<>>
      /\ last = [i \in Ids |-> 0] /\ horizon = 0
  BY StartFacts DEF Init
<1>3. Shapes
  <2>1. 0 \in Versions
    BY ResponseAssumption DEF Versions
  <2>2. last \in [Ids -> Versions] /\ horizon \in Versions
    BY <1>2, <2>1
  <2>3. snapshot \in Snapshots /\ writer \in WriterShapes
    BY <1>2, StartFacts
  <2>4. /\ waiting \in Seq({"background", "flush", "again", "await"}) /\ flush \in {"no", "called", "done"}
        /\ timer \in BOOLEAN /\ changed \in BOOLEAN /\ loaded \in BOOLEAN /\ missed \in BOOLEAN
    BY <1>2, NoneWait
  <2> QED BY <2>2, <2>3, <2>4 DEF Shapes
<1>4. Neat(Store)
  <2>1. Rows(Store) = Rows(NoSnapshot)
    BY <1>2, StoreFacts DEF Rows
  <2> QED BY <1>2, <2>1, StoreFacts, StartFacts DEF Neat
<1>5. Proper(Store)
  <2>1. Store.queue \in Seq(Files) /\ Len(Store.queue) = 0 /\ Store.files \subseteq Files
    BY <1>2, StoreFacts
  <2>2. QueueMax \in Nat
    BY ResponseAssumption
  <2>3. Store = [row |-> Store.row, order |-> Store.order, queue |-> Store.queue, files |-> Store.files]
    BY DEF Store
  <2> QED BY <1>4, <2>1, <2>2, <2>3 DEF Proper
<1>6. Behind(Store, last)
  BY <1>2, StoreFacts, StartFacts DEF Behind
<1>7. PictureInv /\ StartInv
  BY <1>2, StartFacts DEF PictureInv, StartInv
<1> QED BY <1>1, <1>2, <1>3, <1>4, <1>5, <1>6, <1>7, StartFacts DEF StoreInv, FilesInv

\* What the invariant says, part by part.
LEMMA InvFacts ==
    ASSUME StoreInv
    PROVE  /\ Proper(Store) /\ Neat(snapshot) /\ Neat(writer.picture) /\ Behind(Store, last) /\ Shapes
           /\ PictureInv /\ StartInv
           /\ last \in [Ids -> Nat] /\ Remembered(row, last)
           /\ ~loaded => row = NoRows /\ writer = NoWriter /\ waiting = <<>> /\ ~timer
BY DEF StoreInv, FilesInv, CacheInv, RowsInv, RestInv

\* ensureLoaded: what it removes no row of the snapshot names.
LEMMA LoadFiles ==
    ASSUME StoreInv, NEW failing, Load(failing)
    PROVE  FilesInv' /\ FilesKept
<1>1. PICK gone \in SUBSET Orphans :
        Becomes(Pruned([row |-> snapshot.row, order |-> snapshot.order, queue |-> queue,
                        files |-> files \ gone], failing))
  BY DEF Load
<1> DEFINE s == [row |-> snapshot.row, order |-> snapshot.order, queue |-> queue, files |-> files \ gone]
           t == Pruned(s, failing)
<1>2. /\ ~loaded /\ loaded' = TRUE
      /\ UNCHANGED <<snapshot, writer, waiting, flush, missed, timer, changed, last, horizon>>
      /\ writer = NoWriter /\ queue = <<>>
  BY InvFacts DEF Load, persist, written, StartInv
<1>3. s.row = snapshot.row /\ s.order = snapshot.order /\ s.queue = queue /\ s.files = files \ gone
      /\ s = [row |-> s.row, order |-> s.order, queue |-> s.queue, files |-> s.files]
  OBVIOUS
<1>4. Becomes(t)
  BY <1>1
<1> HIDE DEF s
<1>5. Proper(s)
  <2>1. Rows(s) = Rows(snapshot)
    BY <1>3 DEF Rows
  <2>2. Neat(s)
    BY <1>3, <2>1, InvFacts DEF Neat
  <2>3. s.queue \in Seq(Files) /\ Len(s.queue) <= QueueMax /\ s.files \subseteq Files
    BY <1>3, InvFacts, StoreFacts DEF Proper
  <2> QED BY <1>3, <2>2, <2>3 DEF Proper
<1>6. Proper(t) /\ Prunes(s, t)
  BY <1>5, PrunedPrunes
<1>7. Behind(t, last)
  <2>1. Behind(s, last)
    BY <1>2, <1>3, StartFacts DEF Behind
  <2> QED BY <1>5, <1>6, <2>1, PrunesBehind
<1> HIDE DEF t
<1>8. row' = t.row /\ order' = t.order /\ queue' = t.queue /\ files' = t.files
  BY <1>4 DEF Becomes
<1>9. Store' = t
  <2>1. t = [row |-> t.row, order |-> t.order, queue |-> t.queue, files |-> t.files]
    BY <1>6 DEF Proper
  <2> QED BY <1>8, <2>1 DEF Store
<1>10. Proper(Store') /\ Behind(Store', last')
  BY <1>2, <1>6, <1>7, <1>9
<1>11. Shapes'
  BY <1>2, InvFacts DEF Shapes
<1>12. PictureInv' /\ StartInv'
  BY <1>2, StartFacts DEF PictureInv, StartInv
<1>13. \A f \in Named(snapshot.row, Ids) : f \notin gone
  BY <1>1 DEF Orphans
<1>14. ASSUME NEW f \in Named(row', Ids) \ files'
       PROVE  f \in Named(snapshot.row, Ids) /\ f \notin files
  <2>1. PICK i \in Ids : t.row[i].kind = "spill" /\ f = File(i, t.row[i].v, t.row[i].g)
    BY <1>8, NamedIs
  <2>2. t.row[i] = snapshot.row[i] /\ f \notin files \ gone
    BY <1>3, <1>6, <1>8, <1>14, <2>1 DEF Prunes
  <2>3. f \in Named(snapshot.row, Ids)
    BY <2>1, <2>2, NamedIs
  <2> QED BY <1>13, <2>2, <2>3
<1>15. ASSUME NEW f \in Named(snapshot.row, Ids), FileGoes(f)
       PROVE  FALSE
  <2>1. f \in s.files \ t.files /\ t.row[f.id].kind # "none"
    BY <1>3, <1>8, <1>13, <1>15 DEF FileGoes
  <2> QED BY <1>6, <2>1, RowFields DEF Prunes
<1>16. FilesKept
  BY <1>2, <1>14, <1>15 DEF FilesKept
<1> QED BY <1>2, <1>10, <1>11, <1>12, <1>16, InvFacts DEF FilesInv

\* rememberResponseState keeps the invariant and the files,
LEMMA RememberFiles ==
    ASSUME StoreInv, NEW i \in Ids, NEW v \in NextVersions, NEW size \in Sizes, NEW failing,
           Remember(i, v, size, failing)
    PROVE  FilesInv' /\ FilesKept
<1> DEFINE s == Store
           u == Admitted(s, i, v, size, failing)
           t == Pruned(u, failing)
           M == [last EXCEPT ![i] = v]
<1>1. /\ loaded /\ Free /\ Becomes(t) /\ timer' = TRUE /\ last' = M
      /\ UNCHANGED <<snapshot, writer, waiting, flush, missed, loaded, horizon>>
      /\ changed' = (changed \/ writer.stage # "idle")
  BY DEF Remember, written, Touched
<1>2. v \in 1..MaxVersion /\ \A j \in Ids : last[j] < v
  BY DEF NextVersions
<1>3. Proper(s) /\ Behind(s, last) /\ last \in [Ids -> Nat] /\ Remembered(s.row, last) /\ Shapes
  BY InvFacts, StoreFacts
<1> HIDE DEF s
<1>4. Proper(u) /\ Handles(s, u) /\ Behind(u, M)
  BY <1>2, <1>3, AdmittedHandles
<1> HIDE DEF u
<1>5. Proper(t) /\ Prunes(u, t)
  BY <1>4, PrunedPrunes
<1> HIDE DEF t
<1>6. Handles(s, t)
  BY <1>3, <1>4, <1>5, HandlesThenPrunes
<1>7. Behind(t, M)
  BY <1>4, <1>5, PrunesBehind
<1>8. M \in [Ids -> Versions] /\ horizon' \in Versions
  BY <1>1, <1>2, <1>3, ResponseAssumption DEF Shapes, Versions
<1> HIDE DEF M
<1> QED BY <1>1, <1>5, <1>6, <1>7, <1>8, HandlerInv DEF s

\* expandPreviousResponseInput does,
LEMMA ExpandFiles ==
    ASSUME StoreInv, NEW i \in Ids, NEW failing, Expand(i, failing)
    PROVE  FilesInv' /\ FilesKept
<1> DEFINE o == Store
           s == Pruned(o, failing)
           lost == s.row[i].kind = "spill" /\ File(i, s.row[i].v, s.row[i].g) \notin s.files
           r == Tombstone(s.row[i].v)
           p == Placed(s, i, r)
<1>1. /\ loaded /\ Free /\ IF lost THEN Becomes(p) /\ timer' = TRUE ELSE Becomes(s) /\ timer' = timer
      /\ IF lost \/ ~Untouched(s) THEN changed' = (changed \/ writer.stage # "idle") ELSE changed' = changed
      /\ UNCHANGED <<snapshot, writer, waiting, flush, missed, loaded, last, horizon>>
  BY DEF Expand, written, past, Touched
<1>2. Proper(o) /\ Behind(o, last) /\ last \in [Ids -> Nat] /\ Shapes
  BY InvFacts
<1> HIDE DEF o
<1>3. Proper(s) /\ Prunes(o, s)
  BY <1>2, PrunedPrunes
<1>4. Handles(o, s) /\ Behind(s, last)
  BY <1>2, <1>3, PrunesHandles, PrunesBehind
<1> HIDE DEF s
<1>5. last' \in [Ids -> Versions] /\ horizon' \in Versions /\ timer \in BOOLEAN
  BY <1>1, <1>2 DEF Shapes
<1>6. CASE ~lost
  <2>1. Becomes(s) /\ timer' = timer
    BY <1>1, <1>6
  <2>2. \/ changed' = (changed \/ writer.stage # "idle")
        \/ changed' = changed /\ row' = row
    BY <1>1, <1>6, <2>1 DEF Untouched, Becomes
  <2> HIDE DEF lost
  <2> QED BY <1>1, <1>3, <1>4, <1>5, <2>1, <2>2, HandlerInv DEF o
<1>7. CASE lost
  <2>1. Becomes(p) /\ timer' = TRUE /\ changed' = (changed \/ writer.stage # "idle")
    BY <1>1, <1>7
  <2>2. RowOK(r) /\ r # Absent /\ r.kind = "spill-failed" /\ s.row[i].v \in 1..MaxVersion
    <3>1. s.row[i].v \in 1..MaxVersion
      BY <1>3, <1>7 DEF Proper, Neat, RowOK
    <3> QED BY <3>1, RowsAreOK, RowFields
  <2> HIDE DEF r
  <2>3. Proper(p) /\ p.row = [s.row EXCEPT ![i] = r] /\ p.files = s.files /\ p.queue = s.queue
    BY <1>3, <2>2, PlacedProper
  <2>4. p.row[i] = r /\ \A j \in Ids \ {i} : p.row[j] = s.row[j]
    BY <1>3, <2>3 DEF Proper, Neat
  <2> HIDE DEF p
  <2>5. Tidy(o, p)
    <3> SUFFICES ASSUME NEW f \in p.files
                 PROVE  f \in OwnedBy(p) \/ (f \in o.files /\ f \notin OwnedBy(o))
      BY DEF Tidy
    <3>1. f \in s.files
      BY <2>3
    <3>2. CASE f \in Named(s.row, Ids)
      <4>1. PICK j \in Ids : s.row[j].kind = "spill" /\ f = File(j, s.row[j].v, s.row[j].g)
        BY <3>2, NamedIs
      <4>2. j # i
        BY <1>7, <3>1, <4>1
      <4>3. f \in Named(p.row, Ids)
        BY <2>4, <4>1, <4>2, NamedIs
      <4> QED BY <4>3 DEF OwnedBy
    <3>3. CASE f \notin Named(s.row, Ids)
      BY <1>4, <2>3, <3>1, <3>3 DEF Handles, Tidy, OwnedBy
    <3> QED BY <3>2, <3>3
  <2>6. Backed(o, p)
    <3> SUFFICES ASSUME NEW j \in Ids, p.row[j].kind = "spill",
                        File(j, p.row[j].v, p.row[j].g) \notin p.files
                 PROVE  p.row[j] = o.row[j] /\ File(j, p.row[j].v, p.row[j].g) \notin o.files
      BY DEF Backed
    <3>1. j # i /\ p.row[j] = s.row[j]
      BY <2>2, <2>4
    <3> QED BY <1>4, <2>3, <3>1 DEF Handles, Backed
  <2>7. Parts(o, p)
    <3> SUFFICES ASSUME NEW f \in o.files \ p.files
                 PROVE  p.row[f.id] = Absent \/ Overflows(o, p, f)
      BY DEF Parts
    <3>1. f.id \in Ids
      BY <1>2, FileIs DEF Proper
    <3>2. s.row[f.id] = Absent
      BY <1>3, <2>3 DEF Prunes
    <3>3. f.id # i
      BY <1>7, <3>2, RowFields
    <3> QED BY <2>4, <3>1, <3>2, <3>3
  <2>8. Behind(p, last)
    <3> SUFFICES ASSUME NEW f \in ToSet(p.queue)
                 PROVE  /\ f.v <= last[f.id]
                        /\ p.row[f.id].kind \in {"resident", "spill"} => f.v < p.row[f.id].v
      BY DEF Behind
    <3>1. f \in ToSet(s.queue) /\ f.id \in Ids
      BY <1>3, <2>3, FileIs DEF Proper, ToSet
    <3> QED BY <1>4, <2>2, <2>4, <3>1 DEF Behind
  <2> HIDE DEF lost
  <2> QED BY <1>1, <1>5, <2>1, <2>3, <2>5, <2>6, <2>7, <2>8, HandlerInv DEF Handles, o
<1> QED BY <1>6, <1>7

\* the sweep does,
LEMMA SweepFiles ==
    ASSUME StoreInv, Sweep
    PROVE  FilesInv' /\ FilesKept
<1> DEFINE s == Store
           t == Deleted(s, Expired(s))
<1>1. /\ Free /\ Expired(s) # {} /\ Becomes(t) /\ timer' = TRUE
      /\ UNCHANGED <<snapshot, writer, waiting, flush, missed, loaded, last, horizon>>
      /\ changed' = (changed \/ writer.stage # "idle")
  BY DEF Sweep, written, past, Touched
<1>2. loaded
  BY <1>1, NothingThere, StoreFacts, RowKinds, InvFacts DEF Expired
<1>3. Proper(s) /\ Behind(s, last) /\ Shapes
  BY InvFacts
<1>4. Expired(s) \in SUBSET Ids
  BY DEF Expired
<1> HIDE DEF s
<1>5. Proper(t) /\ Prunes(s, t)
  BY <1>3, <1>4, DeletedPrunes
<1> HIDE DEF t
<1>6. Handles(s, t) /\ Behind(t, last)
  BY <1>3, <1>5, PrunesHandles, PrunesBehind
<1>7. last' \in [Ids -> Versions] /\ horizon' \in Versions
  BY <1>1, <1>3 DEF Shapes
<1> QED BY <1>1, <1>2, <1>5, <1>6, <1>7, HandlerInv DEF s

\* and the budget's eviction.
LEMMA BudgetEvictFiles ==
    ASSUME StoreInv, NEW failing, BudgetEvict(failing)
    PROVE  FilesInv' /\ FilesKept
<1> DEFINE s == Store
<1>1. PICK i \in Residents :
        /\ Free /\ Becomes(Demoted(s, {i}, failing)) /\ timer' = TRUE
        /\ changed' = (changed \/ writer.stage # "idle")
  BY DEF BudgetEvict, Touched
<1> DEFINE t == Demoted(s, {i}, failing)
<1>2. UNCHANGED <<snapshot, writer, waiting, flush, missed, loaded, last, horizon>>
  BY DEF BudgetEvict, written, past
<1>3. i \in Ids /\ s.row[i].kind = "resident"
  BY StoreFacts DEF Residents
<1>4. loaded
  BY <1>3, NothingThere, RowKinds, StoreFacts, InvFacts
<1>5. Proper(s) /\ Behind(s, last) /\ Shapes
  BY InvFacts
<1> HIDE DEF s
<1>6. Proper(t) /\ Prunes(s, t)
  BY <1>3, <1>5, DemotedPrunes
<1>7. Becomes(t)
  BY <1>1
<1> HIDE DEF t
<1>8. Handles(s, t) /\ Behind(t, last)
  BY <1>5, <1>6, PrunesHandles, PrunesBehind
<1>9. last' \in [Ids -> Versions] /\ horizon' \in Versions
  BY <1>2, <1>5 DEF Shapes
<1> QED BY <1>1, <1>2, <1>4, <1>6, <1>7, <1>8, <1>9, HandlerInv DEF s

\* Steps that leave the rows to a writer.
LEMMA QuietInv ==
    ASSUME StoreInv, UNCHANGED rows, Shapes', StartInv', PictureInv',
           last' = last, Neat(snapshot'), Neat(writer'.picture)
    PROVE  FilesInv' /\ FilesKept
<1>1. FilesKept /\ Store' = Store
  BY QuietKeeps
<1>2. Proper(Store') /\ Behind(Store', last')
  BY <1>1, InvFacts
<1> QED BY <1>1, <1>2 DEF FilesInv

\* The file that a snapshot names is not among those that wait in the queue.
LEMMA StableFiles ==
    ASSUME StoreInv, Stable
    PROVE  FilesInv' /\ FilesKept
<1>1. /\ writer.stage = "renamed" /\ ~changed /\ files' = files \ ToSet(queue) /\ queue' = <<>>
      /\ writer' = NoWriter /\ flush' \in {flush, "done"} /\ missed' = FALSE
      /\ UNCHANGED <<row, order, snapshot, timer, changed, waiting, loaded, last, horizon>>
  BY DEF Stable, Idle, Ended, past
<1>2. Proper(Store) /\ Shapes /\ Neat(snapshot) /\ Behind(Store, last) /\ loaded
  BY <1>1, InvFacts, StartFacts
<1>3. Shapes'
  BY <1>1, <1>2, StartFacts DEF Shapes
<1>4. PictureInv' /\ StartInv'
  BY <1>1, <1>2, StartFacts DEF PictureInv, StartInv
<1>5. Proper(Store')
  <2>1. Store'.row = row /\ Store'.order = order /\ Store'.queue = <<>> /\ Store'.files = files \ ToSet(queue)
        /\ Store' = [row |-> Store'.row, order |-> Store'.order, queue |-> Store'.queue, files |-> Store'.files]
    BY <1>1 DEF Store
  <2>2. Rows(Store') = Rows(Store)
    BY <2>1, StoreFacts DEF Rows
  <2>3. Neat(Store')
    BY <1>2, <2>1, <2>2, StoreFacts DEF Neat, Proper
  <2>4. Store'.queue \in Seq(Files) /\ Len(Store'.queue) = 0 /\ Store'.files \subseteq Files /\ QueueMax \in Nat
    BY <1>2, <2>1, StoreFacts, ResponseAssumption DEF Proper
  <2> QED BY <2>1, <2>3, <2>4 DEF Proper
<1>6. Behind(Store, last)'
  BY <1>1, StartFacts DEF Behind, Store
<1>7. \A f \in ToSet(queue) : f \notin Named(row, Ids)
  <2> SUFFICES ASSUME NEW f \in ToSet(queue), NEW i \in Ids, row[i].kind = "spill",
                      f = File(i, row[i].v, row[i].g)
               PROVE  FALSE
    BY NamedIs
  <2>1. f.id = i /\ f.v = row[i].v /\ row[i].v \in Nat
    BY <1>2, FileIs, RowFacts, StoreFacts DEF Proper, Neat
  <2> QED BY <1>2, <2>1, StoreFacts DEF Behind
<1>8. Named(snapshot.row, Ids) \subseteq Named(row, Ids)
  <2> SUFFICES ASSUME NEW i \in Ids, snapshot.row[i].kind = "spill"
               PROVE  row[i] = snapshot.row[i]
    BY NamedIs
  <2>1. snapshot.row[i] \in {row[i], Absent}
    BY <1>1, InvFacts DEF PictureInv
  <2> QED BY <2>1, RowFields
<1>9. files' \ Owned' \subseteq files \ Owned
  BY <1>1 DEF Owned
<1>10. \A f \in Named(row', Ids) \ files' : f \in Named(row, Ids) /\ f \notin files
  BY <1>1, <1>7
<1>11. \A f \in Named(snapshot'.row, Ids) : ~FileGoes(f)
  BY <1>1, <1>7, <1>8 DEF FileGoes
<1> QED BY <1>1, <1>2, <1>3, <1>4, <1>5, <1>6, <1>9, <1>10, <1>11, StartFacts DEF FilesInv, FilesKept

\* A crash leaves a payload at most that no row names.
LEMMA CrashFiles ==
    ASSUME StoreInv, NEW published, published = {} \/ \E f \in Published : published = {f},
           Crash(published)
    PROVE  FilesInv' /\ FilesKept
<1>1. /\ loaded /\ loaded' = FALSE
      /\ row' = NoRows /\ order' = <<>> /\ queue' = <<>>
      /\ files' = files \cup published
      /\ timer' = FALSE /\ writer' = NoWriter /\ changed' = FALSE /\ waiting' = <<>>
      /\ flush' = "no" /\ missed' = FALSE
      /\ UNCHANGED <<snapshot, last, horizon>>
  BY DEF Crash
<1>2. Proper(Store) /\ Shapes /\ Neat(snapshot)
  BY InvFacts
<1>3. published \subseteq Files
  <2> SUFFICES ASSUME NEW f \in Published PROVE f \in Files
    OBVIOUS
  <2>1. PICK p \in {<<i, row[i].v>> : i \in Residents} \cup Ids \X NextVersions :
          FreeNames(Store, p[1], p[2]) # {} /\ f = File(p[1], p[2], FreeName(Store, p[1], p[2]))
    BY DEF Published
  <2>2. p[1] \in Ids /\ p[2] \in 1..MaxVersion
    <3>1. CASE p \in {<<i, row[i].v>> : i \in Residents}
      <4>1. PICK i \in Residents : p = <<i, row[i].v>>
        BY <3>1
      <4>2. i \in Ids /\ row[i].kind = "resident" /\ RowOK(row[i])
        BY <1>2, StoreFacts DEF Residents, Proper, Neat
      <4> QED BY <4>1, <4>2 DEF RowOK
    <3>2. CASE p \in Ids \X NextVersions
      BY <3>2 DEF NextVersions
    <3> QED BY <3>1, <3>2
  <2>3. FreeName(Store, p[1], p[2]) \in 1..Retries
    <3>1. FreeNames(Store, p[1], p[2]) \in SUBSET Nat
      BY ResponseAssumption DEF FreeNames
    <3>2. FreeName(Store, p[1], p[2]) \in FreeNames(Store, p[1], p[2])
      BY <2>1, <3>1, MinIsIn DEF FreeName
    <3> QED BY <3>2 DEF FreeNames
  <2> QED BY <2>1, <2>2, <2>3 DEF File, Files
<1>4. Shapes'
  BY <1>1, <1>2, StartFacts, NoneWait DEF Shapes
<1>5. Proper(Store')
  <2>1. Store'.row = NoSnapshot.row /\ Store'.order = <<>> /\ Store'.queue = <<>>
        /\ Store'.files = files \cup published
        /\ Store' = [row |-> Store'.row, order |-> Store'.order, queue |-> Store'.queue, files |-> Store'.files]
    BY <1>1, StartFacts DEF Store
  <2>2. Rows(Store') = Rows(NoSnapshot)
    BY <2>1 DEF Rows
  <2>3. Neat(Store')
    BY <2>1, <2>2, StartFacts DEF Neat
  <2>4. Store'.queue \in Seq(Files) /\ Len(Store'.queue) = 0 /\ Store'.files \subseteq Files /\ QueueMax \in Nat
    BY <1>2, <1>3, <2>1, StoreFacts, ResponseAssumption DEF Proper
  <2> QED BY <2>1, <2>3, <2>4 DEF Proper
<1>6. Behind(Store, last)'
  BY <1>1, StartFacts DEF Behind, Store
<1>7. PictureInv' /\ StartInv'
  BY <1>1, StartFacts DEF PictureInv, StartInv
<1>8. Named(row', Ids) = {}
  BY <1>1, NothingThere, RowKinds DEF Named
<1> QED BY <1>1, <1>2, <1>4, <1>5, <1>6, <1>7, <1>8, StartFacts DEF FilesInv, FilesKept, FileGoes

\* The steps of the snapshot's writer.
LEMMA WritingFiles ==
    ASSUME StoreInv, Writing
    PROVE  FilesInv' /\ FilesKept
<1> USE InvFacts
<1>1. Picture \in Snapshots /\ Neat(Picture) /\ \A i \in Ids : Picture.row[i] \in {row[i], Absent}
  <2>1. Proper(Store)
    OBVIOUS
  <2>2. PICK N \in SUBSET Ids :
           /\ Picture.row = [i \in Ids |-> IF i \in N THEN row[i] ELSE Absent]
           /\ Picture.cut \in BOOLEAN
           /\ Picture = [row |-> Picture.row, order |-> Picture.order, cut |-> Picture.cut]
           /\ Neat(Picture)
    BY <2>1, PictureIs
  <2> QED BY <2>2, NeatShape
<1>2. writer \in WriterShapes
      /\ waiting \in Seq({"background", "flush", "again", "await"})
      /\ (writer.stage # "idle" \/ waiting # <<>> => loaded)
  BY StartFacts DEF Shapes
<1>3. CASE BeginWrite
  <2>1. /\ UNCHANGED <<rows, snapshot, timer, flush, missed, loaded, last, horizon>>
        /\ waiting # <<>> /\ Head(waiting) # "await" /\ waiting' = Tail(waiting) /\ changed' = FALSE
        /\ writer' = [stage |-> "writing", kind |-> Head(waiting), attempt |-> 1, picture |-> Picture]
    BY <1>3 DEF BeginWrite, past, Awaiting
  <2>2. Head(waiting) \in {"background", "flush", "again"} /\ Tail(waiting) \in Seq({"background", "flush", "again", "await"})
    BY <1>2, <2>1
  <2>3. 1 \in 0..Attempts
    BY ResponseAssumption
  <2>4. writer' \in WriterShapes /\ writer'.stage = "writing" /\ writer'.picture = Picture
    BY <1>1, <2>1, <2>2, <2>3 DEF WriterShapes
  <2>5. Shapes'
    BY <2>1, <2>2, <2>4 DEF Shapes
  <2>6. StartInv' /\ PictureInv'
    BY <1>1, <1>2, <2>1, <2>4 DEF StartInv, PictureInv, rows
  <2> QED BY <1>1, <2>1, <2>4, <2>5, <2>6, QuietInv
<1>4. CASE Awaited
  <2>1. /\ UNCHANGED <<rows, snapshot, writer, changed, missed, loaded, last, horizon>>
        /\ waiting # <<>> /\ timer' = FALSE /\ flush' \in {flush, "done"}
        /\ waiting' \in {Append(Tail(waiting), "flush"), Tail(waiting)}
    BY <1>4 DEF Awaited, Awaiting, past
  <2>2. waiting' \in Seq({"background", "flush", "again", "await"})
    BY <1>2, <2>1
  <2>3. Shapes'
    BY <2>1, <2>2 DEF Shapes
  <2>4. StartInv' /\ PictureInv'
    BY <1>2, <2>1 DEF StartInv, PictureInv, rows
  <2> QED BY <2>1, <2>3, <2>4, QuietInv
<1>5. CASE Rename
  <2>1. /\ UNCHANGED <<rows, timer, changed, waiting, flush, missed, loaded, last, horizon>>
        /\ writer.stage = "writing" /\ snapshot' = writer.picture
        /\ writer' = [writer EXCEPT !.stage = "renamed"]
    BY <1>5 DEF Rename, past
  <2>2. writer' \in WriterShapes /\ writer'.stage = "renamed" /\ writer'.picture = writer.picture
        /\ snapshot' \in Snapshots
    BY <1>2, <2>1 DEF WriterShapes
  <2>3. Shapes'
    BY <2>1, <2>2 DEF Shapes
  <2>4. StartInv' /\ PictureInv'
    BY <1>2, <2>1, <2>2 DEF StartInv, PictureInv, rows
  <2> QED BY <2>1, <2>2, <2>3, <2>4, QuietInv
<1>6. CASE Stable
  BY <1>6, StableFiles
<1>7. CASE Again
  <2>1. /\ UNCHANGED <<rows, snapshot, timer, waiting, flush, missed, loaded, last, horizon>>
        /\ writer.stage = "renamed" /\ writer.attempt < Attempts /\ changed' = FALSE
        /\ writer' = [writer EXCEPT !.stage = "writing", !.attempt = @ + 1, !.picture = Picture]
    BY <1>7 DEF Again, past
  <2>2. writer.attempt + 1 \in 0..Attempts
    BY <1>2, <2>1, ResponseAssumption DEF WriterShapes
  <2>3. writer' = [stage |-> "writing", kind |-> writer.kind, attempt |-> writer.attempt + 1, picture |-> Picture]
    BY <1>2, <2>1 DEF WriterShapes
  <2>4. writer' \in WriterShapes /\ writer'.stage = "writing" /\ writer'.picture = Picture
    BY <1>1, <1>2, <2>2, <2>3 DEF WriterShapes
  <2>5. Shapes'
    BY <2>1, <2>4 DEF Shapes
  <2>6. StartInv' /\ PictureInv'
    BY <1>1, <1>2, <2>1, <2>4 DEF StartInv, PictureInv, rows
  <2> QED BY <1>1, <2>1, <2>4, <2>5, <2>6, QuietInv
<1>8. CASE Unstable
  <2>1. /\ UNCHANGED <<rows, snapshot, timer, waiting, flush, missed, loaded, last, horizon>>
        /\ writer.stage = "renamed" /\ changed' = FALSE
        /\ writer' = [writer EXCEPT !.stage = "unstable"]
    BY <1>8 DEF Unstable, past
  <2>2. writer' \in WriterShapes /\ writer'.stage = "unstable" /\ writer'.picture = writer.picture
    BY <1>2, <2>1 DEF WriterShapes
  <2>3. Shapes'
    BY <2>1, <2>2 DEF Shapes
  <2>4. StartInv' /\ PictureInv'
    BY <1>2, <2>1, <2>2 DEF StartInv, PictureInv, rows
  <2> QED BY <2>1, <2>2, <2>3, <2>4, QuietInv
<1>9. CASE FollowUp
  <2>1. /\ UNCHANGED <<rows, snapshot, changed, loaded, last, horizon>>
        /\ writer.stage = "unstable" /\ writer' = NoWriter
        /\ timer' \in {timer, TRUE, FALSE} /\ flush' \in {flush, "done"} /\ missed' \in {missed, TRUE}
        /\ waiting' \in {waiting, Append(waiting, "again")}
    BY <1>9 DEF FollowUp, Idle, past
  <2>2. waiting' \in Seq({"background", "flush", "again", "await"})
    BY <1>2, <2>1
  <2>3. Shapes'
    BY <2>1, <2>2, StartFacts DEF Shapes
  <2>4. StartInv' /\ PictureInv'
    BY <1>2, <2>1, StartFacts DEF StartInv, PictureInv
  <2> QED BY <2>1, <2>3, <2>4, StartFacts, QuietInv
<1> QED BY <1>3, <1>4, <1>5, <1>6, <1>7, <1>8, <1>9 DEF Writing

\* Every step keeps the invariant and the files.
LEMMA NextFiles ==
    ASSUME StoreInv, [Next]_vars
    PROVE  StoreInv' /\ FilesKept
<1>1. CASE Requests
  <2>1. PICK failing \in SUBSET Ids :
          \/ Load(failing) \/ BudgetEvict(failing)
          \/ \E i \in Ids : Expand(i, failing)
          \/ \E i \in Ids, v \in NextVersions, size \in Sizes : Remember(i, v, size, failing)
    BY <1>1 DEF Requests
  <2> QED
    BY <2>1, LoadFiles, BudgetEvictFiles, ExpandFiles, RememberFiles, NextCache DEF StoreInv
<1>2. CASE Sweep
  BY <1>2, SweepFiles, NextCache DEF StoreInv
<1>3. CASE Age
  <2>1. /\ UNCHANGED <<rows, snapshot, writer, waiting, flush, missed, timer, changed, loaded, last>>
        /\ horizon' = horizon + 1 /\ \E i \in Ids : horizon < last[i]
    BY <1>3 DEF Age, persist, written
  <2>2. horizon' \in Versions
    BY <2>1, InvFacts, ResponseAssumption DEF Shapes, Versions
  <2>3. Shapes' /\ StartInv' /\ PictureInv'
    BY <2>1, <2>2, InvFacts DEF Shapes, StartInv, PictureInv, rows
  <2>4. FilesInv' /\ FilesKept
    BY <2>1, <2>3, InvFacts, QuietInv
  <2> QED BY <2>4, NextCache DEF StoreInv
<1>4. CASE TimerFires
  <2>1. /\ UNCHANGED <<rows, snapshot, writer, changed, flush, missed, loaded, last, horizon>>
        /\ timer /\ timer' = FALSE /\ waiting' = Append(waiting, "background")
    BY <1>4 DEF TimerFires, past
  <2>2. Shapes' /\ StartInv' /\ PictureInv'
    <3>1. waiting \in Seq({"background", "flush", "again", "await"}) /\ (~loaded => ~timer)
      BY InvFacts DEF Shapes
    <3>2. waiting' \in Seq({"background", "flush", "again", "await"})
      BY <2>1, <3>1
    <3>3. Shapes'
      BY <2>1, <3>2, InvFacts DEF Shapes
    <3>4. StartInv' /\ PictureInv'
      BY <2>1, <3>1, InvFacts DEF StartInv, PictureInv, rows
    <3> QED BY <3>3, <3>4
  <2>3. FilesInv' /\ FilesKept
    BY <2>1, <2>2, InvFacts, QuietInv
  <2> QED BY <2>3, NextCache DEF StoreInv
<1>5. CASE Flush
  <2>1. /\ UNCHANGED <<rows, snapshot, writer, changed, missed, loaded, last, horizon>>
        /\ loaded /\ flush' = "called" /\ timer' = FALSE
        /\ waiting' \in {Append(waiting, "flush"), Append(waiting, "await")}
    BY <1>5 DEF Flush, past
  <2>2. Shapes' /\ StartInv' /\ PictureInv'
    <3>1. waiting \in Seq({"background", "flush", "again", "await"}) /\ (~loaded => ~timer)
      BY InvFacts DEF Shapes
    <3>2. waiting' \in Seq({"background", "flush", "again", "await"})
      BY <2>1, <3>1
    <3>3. Shapes'
      BY <2>1, <3>2, InvFacts DEF Shapes
    <3>4. StartInv' /\ PictureInv'
      BY <2>1, <3>1, InvFacts DEF StartInv, PictureInv, rows
    <3> QED BY <3>3, <3>4
  <2>3. FilesInv' /\ FilesKept
    BY <2>1, <2>2, InvFacts, QuietInv
  <2> QED BY <2>3, NextCache DEF StoreInv
<1>6. CASE Writing
  BY <1>6, WritingFiles, NextCache DEF StoreInv
<1>7. CASE WriteFails
  <2>1. /\ UNCHANGED <<rows, snapshot, timer, waiting, loaded, last, horizon>>
        /\ writer.stage = "writing" /\ writer' = NoWriter /\ changed' = FALSE
        /\ flush' \in {flush, "done"} /\ missed' = TRUE
    BY <1>7 DEF WriteFails, Idle, Ended, past
  <2>2. loaded
    BY <2>1, InvFacts, StartFacts
  <2>3. Shapes' /\ StartInv' /\ PictureInv'
    BY <2>1, <2>2, InvFacts, StartFacts DEF Shapes, StartInv, PictureInv
  <2>4. FilesInv' /\ FilesKept
    BY <2>1, <2>3, InvFacts, StartFacts, QuietInv
  <2> QED BY <2>4, NextCache DEF StoreInv
<1>8. CASE \E published \in {{}} \cup {{f} : f \in Published} : Crash(published)
  BY <1>8, CrashFiles, NextCache DEF StoreInv
<1>9. CASE UNCHANGED vars
  <2>1. UNCHANGED <<rows, snapshot, writer, waiting, flush, missed, timer, changed, loaded, last, horizon>>
    BY <1>9 DEF vars, persist, written, past
  <2>2. Shapes' /\ StartInv' /\ PictureInv'
    <3>1. waiting \in Seq({"background", "flush", "again", "await"}) /\ (~loaded => ~timer)
      BY InvFacts DEF Shapes
    <3>2. waiting' \in Seq({"background", "flush", "again", "await"})
      BY <2>1, <3>1
    <3>3. Shapes'
      BY <2>1, <3>2, InvFacts DEF Shapes
    <3>4. StartInv' /\ PictureInv'
      BY <2>1, <3>1, InvFacts DEF StartInv, PictureInv, rows
    <3> QED BY <3>3, <3>4
  <2>3. FilesInv' /\ FilesKept
    BY <2>1, <2>2, InvFacts, QuietInv
  <2> QED BY <2>3, NextCache DEF StoreInv
<1> QED
  BY <1>1, <1>2, <1>3, <1>4, <1>5, <1>6, <1>7, <1>8, <1>9 DEF Next

\* The variables of the store (state.ts, spill-store.ts) keep their types, and the
\* order of the map is that of its rows: no row is twice in it, and none without
\* a place, whatever is deleted, demoted, replaced and set.
THEOREM StoreTypeCorrect == Spec => []TypeOK
<1>1. Init => StoreInv
  BY InitFiles
<1>2. StoreInv /\ [Next]_vars => StoreInv'
  BY NextFiles
<1>3. StoreInv => TypeOK
  <2> SUFFICES ASSUME StoreInv PROVE TypeOK
    OBVIOUS
  <2>1. Proper(Store) /\ Shapes
    BY InvFacts
  <2>2. row \in RowsOfIds
    <3>1. row = [i \in Ids |-> row[i]] /\ \A i \in Ids : RowOK(row[i])
      BY <2>1, StoreFacts DEF Proper, Neat
    <3>2. \A i \in Ids : row[i] \in [kind : Kinds, v : Versions,
              size : Sizes \cup {0, StubSize, TombSize}, g : 0..Retries]
      BY <3>1, RowFacts DEF RowOK, Versions
    <3> QED BY <3>1, <3>2 DEF RowsOfIds
  <2>3. order \in Seq(Ids) /\ IsInjective(order) /\ ToSet(order) = {i \in Ids : row[i] # Absent}
        /\ queue \in Seq(Files) /\ files \subseteq Files
    <3>1. Rows(Store) = {i \in Ids : Store.row[i] # Absent}
      BY <2>1, NeatFacts DEF Proper
    <3> QED BY <2>1, <3>1, StoreFacts DEF Proper, Neat
  <2> QED BY <2>1, <2>2, <2>3 DEF TypeOK, Shapes, WriterShapes
<1> QED BY <1>1, <1>2, <1>3, PTL DEF Spec

\* A snapshot on disk names files that exist: what a handler removes is the file
\* of a row it gives up, or the one that a full queue of deferred unlinks gives up
\* (state.ts:88-97); so a crash at any moment finds its rows' payloads.
THEOREM SnapshotsKeepTheirFiles == Spec => SnapshotKeepsItsFiles
<1>1. Init => StoreInv
  BY InitFiles
<1>2. StoreInv /\ [Next]_vars => StoreInv'
  BY NextFiles
<1>3. StoreInv /\ [Next]_vars => [\A f \in Named(snapshot'.row, Ids) : ~FileGoes(f)]_vars
  BY NextFiles DEF FilesKept
<1> QED BY <1>1, <1>2, <1>3, PTL DEF Spec, SnapshotKeepsItsFiles

\* A row that names a file has it: the file is written before its row
\* (spill-store.ts) and removed after it; only a snapshot that had lost a file
\* already brings a row without one.
THEOREM StubsKeepTheirFiles == Spec => StubsHaveFiles
<1>1. Init => StoreInv
  BY InitFiles
<1>2. StoreInv /\ [Next]_vars => StoreInv'
  BY NextFiles
<1>3. StoreInv /\ [Next]_vars =>
        [\A f \in Named(row', Ids) \ files' : f \in Named(row, Ids) \cup Named(snapshot.row, Ids) /\ f \notin files]_vars
  BY NextFiles DEF FilesKept
<1> QED BY <1>1, <1>2, <1>3, PTL DEF Spec, StubsHaveFiles

\* A running process leaves no file on disk that no row names and that does not
\* wait to be removed (state.ts:95-97).
THEOREM FilesAreRemembered == Spec => NoFileForgotten
<1>1. Init => StoreInv
  BY InitFiles
<1>2. StoreInv /\ [Next]_vars => StoreInv'
  BY NextFiles
<1>3. StoreInv /\ [Next]_vars => [loaded /\ loaded' => files' \ Owned' \subseteq files \ Owned]_vars
  BY NextFiles DEF FilesKept
<1> QED BY <1>1, <1>2, <1>3, PTL DEF Spec, NoFileForgotten

-----------------------------------------------------------------------------
(* The caps.                                                               *)

\* Where row i is in the map.
Place(s, i) == CHOOSE n \in DOMAIN s.order : s.order[n] = i

\* Every row has one place, and comes before those with later places.
LEMMA PlaceIs ==
    ASSUME NEW s, Neat(s)
    PROVE  /\ \A i \in Rows(s) : Place(s, i) \in Nat /\ Place(s, i) \in DOMAIN s.order
                                 /\ s.order[Place(s, i)] = i
           /\ \A i, j \in Rows(s) : Ahead(s, i, j) <=> Place(s, i) < Place(s, j)
           /\ \A i, j : Ahead(s, i, j) => i \in Rows(s) /\ j \in Rows(s)
<1>1. s.order \in Seq(Ids) /\ IsInjective(s.order) /\ ToSet(s.order) = Rows(s)
  BY DEF Neat
<1>2. DOMAIN s.order = 1..Len(s.order) /\ Len(s.order) \in Nat
  BY <1>1
<1>3. ASSUME NEW i \in Rows(s)
      PROVE  Place(s, i) \in Nat /\ Place(s, i) \in DOMAIN s.order /\ s.order[Place(s, i)] = i
  <2>1. \E n \in DOMAIN s.order : s.order[n] = i
    BY <1>1 DEF ToSet
  <2>2. Place(s, i) \in DOMAIN s.order /\ s.order[Place(s, i)] = i
    BY <2>1 DEF Place
  <2> QED BY <1>2, <2>2
<1>4. ASSUME NEW i \in Rows(s), NEW j \in Rows(s)
      PROVE  Ahead(s, i, j) <=> Place(s, i) < Place(s, j)
  <2>1. ASSUME Ahead(s, i, j) PROVE Place(s, i) < Place(s, j)
    <3>1. PICK m \in DOMAIN s.order, n \in DOMAIN s.order : m < n /\ s.order[m] = i /\ s.order[n] = j
      BY <2>1 DEF Ahead
    <3>2. m = Place(s, i) /\ n = Place(s, j)
      BY <1>1, <1>3, <3>1 DEF IsInjective
    <3> QED BY <3>1, <3>2
  <2>2. ASSUME Place(s, i) < Place(s, j) PROVE Ahead(s, i, j)
    BY <1>3, <2>2 DEF Ahead
  <2> QED BY <2>1, <2>2
<1>5. ASSUME NEW i, NEW j, Ahead(s, i, j)
      PROVE  i \in Rows(s) /\ j \in Rows(s)
  <2>1. PICK m \in DOMAIN s.order, n \in DOMAIN s.order : m < n /\ s.order[m] = i /\ s.order[n] = j
    BY <1>5 DEF Ahead
  <2> QED BY <1>1, <2>1 DEF ToSet
<1> QED BY <1>3, <1>4, <1>5

\* No two rows share a place.
LEMMA PlacesDiffer ==
    ASSUME NEW s, Neat(s), NEW i \in Rows(s), NEW j \in Rows(s), i # j
    PROVE  Place(s, i) # Place(s, j)
BY PlaceIs

\* Some row of S is the first of them.
LEMMA FirstOf ==
    ASSUME NEW s, Neat(s), NEW S \in SUBSET Rows(s), S # {}
    PROVE  \E i \in S : /\ \A j \in S : i = j \/ Ahead(s, i, j)
                        /\ \A j \in S : ~Ahead(s, j, i)
<1> DEFINE P == {Place(s, i) : i \in S}
<1>1. P \in SUBSET Nat /\ P # {}
  BY PlaceIs
<1>2. Min(P) \in P /\ \A y \in P : Min(P) <= y
  <2> HIDE DEF P
  <2> QED BY <1>1, MinIsIn
<1>3. PICK i \in S : Min(P) = Place(s, i)
  BY <1>2
<1>4. ASSUME NEW j \in S
      PROVE  (i = j \/ Ahead(s, i, j)) /\ ~Ahead(s, j, i)
  <2>1. Place(s, j) \in P
    OBVIOUS
  <2>2. Place(s, i) <= Place(s, j) /\ Place(s, i) \in Nat /\ Place(s, j) \in Nat
    BY <1>2, <1>3, <2>1, PlaceIs
  <2>3. ~Ahead(s, j, i)
    BY <2>2, PlaceIs
  <2>4. ASSUME i # j PROVE Ahead(s, i, j)
    <3>1. Place(s, i) # Place(s, j)
      BY <2>4, PlacesDiffer
    <3> QED BY <2>2, <3>1, PlaceIs
  <2> QED BY <2>3, <2>4
<1> QED BY <1>4

\* The caps on bytes and on rows.
Bounded(s) == Bytes(s.row, Ids) <= ByteCap /\ Cardinality(Rows(s)) <= MaxEntries

\* The order is as long as there are rows.
LEMMA LengthIs ==
    ASSUME NEW s, Neat(s)
    PROVE  Len(s.order) = Cardinality(Rows(s))
<1> DEFINE n == Len(s.order)
<1>1. s.order \in Seq(Ids) /\ IsInjective(s.order) /\ ToSet(s.order) = Rows(s) /\ n \in Nat
      /\ DOMAIN s.order = 1..n
  BY DEF Neat
<1>2. s.order \in Bijection(1..n, Rows(s))
  <2>1. s.order \in [1..n -> Rows(s)]
    BY <1>1 DEF ToSet
  <2>2. \A a, b \in 1..n : s.order[a] = s.order[b] => a = b
    BY <1>1 DEF IsInjective
  <2>3. \A i \in Rows(s) : \E a \in 1..n : s.order[a] = i
    BY <1>1 DEF ToSet
  <2> QED BY <1>1, <2>1, <2>2, <2>3 DEF Bijection, Injection, Surjection
<1>3. ExistsBijection(1..n, Rows(s))
  BY <1>2 DEF ExistsBijection
<1>4. Cardinality(Rows(s)) = n
  BY <1>1, <1>3, FS_CountingElements
<1> QED BY <1>4

\* Fewer rows, and smaller.
Below(s, t) ==
    \A i \in Ids : t.row[i].size <= s.row[i].size /\ (t.row[i].kind # "none" => s.row[i].kind # "none")

\* Fewer and smaller rows stay within the caps.
LEMMA BelowBounded ==
    ASSUME NEW s, NEW t, Neat(s), Neat(t), Below(s, t)
    PROVE  /\ Bytes(t.row, Ids) <= Bytes(s.row, Ids) /\ Bytes(t.row, Ids) \in Nat /\ Bytes(s.row, Ids) \in Nat
           /\ Cardinality(Rows(t)) <= Cardinality(Rows(s))
           /\ Cardinality(Rows(t)) \in Nat /\ Cardinality(Rows(s)) \in Nat
           /\ Fits(s) => Fits(t)
           /\ Bounded(s) => Bounded(t)
<1>1. \A i \in Ids : s.row[i].size \in Nat /\ t.row[i].size \in Nat
  BY RowFacts DEF Neat
<1>2. Bytes(t.row, Ids) <= Bytes(s.row, Ids)
  BY <1>1, ResponseAssumption, BytesShrink DEF Below
<1>3. Bytes(t.row, Ids) \in Nat /\ Bytes(s.row, Ids) \in Nat
  BY <1>1, ResponseAssumption, BytesType
<1>4. Rows(t) \subseteq Rows(s) /\ IsFiniteSet(Rows(s)) /\ IsFiniteSet(Rows(t))
  BY NeatFacts DEF Below, Rows
<1>5. Cardinality(Rows(t)) <= Cardinality(Rows(s)) /\ Cardinality(Rows(t)) \in Nat /\ Cardinality(Rows(s)) \in Nat
  BY <1>4, FS_Subset, FS_CardinalityType
<1>6. ByteCap \in Nat /\ MaxEntries \in Nat
  BY ResponseAssumption
<1> QED BY <1>2, <1>3, <1>5, <1>6 DEF Bounded, Fits

\* The rows after some were deleted
LEMMA DeletedRow ==
    ASSUME NEW s, Proper(s), NEW S \in SUBSET Ids
    PROVE  /\ Proper(Deleted(s, S))
           /\ \A i \in Ids : Deleted(s, S).row[i] = IF i \in S THEN Absent ELSE s.row[i]
           /\ Rows(Deleted(s, S)) = Rows(s) \ S
<1>1. Proper(Deleted(s, S))
  BY DeletedPrunes
<1>2. Deleted(s, S).row = [i \in Ids |-> IF i \in S THEN Absent ELSE s.row[i]]
  BY ProperFacts, DeletedFields
<1> DEFINE t == Deleted(s, S)
<1>3. \A i \in Ids : t.row[i] = IF i \in S THEN Absent ELSE s.row[i]
  BY <1>2
<1> HIDE DEF t
<1>4. Rows(t) = Rows(s) \ S
  BY <1>3, RowFields DEF Rows
<1> QED BY <1>1, <1>3, <1>4 DEF t

\* are fewer.
LEMMA DeletedBelow ==
    ASSUME NEW s, Proper(s), NEW S \in SUBSET Ids
    PROVE  Below(s, Deleted(s, S))
<1> DEFINE t == Deleted(s, S)
<1>1. \A i \in Ids : t.row[i] = IF i \in S THEN Absent ELSE s.row[i]
  BY DeletedRow
<1> HIDE DEF t
<1>2. \A i \in Ids : s.row[i].size \in Nat
  BY RowFacts DEF Proper, Neat
<1>3. Absent.size = 0 /\ Absent.kind = "none"
  BY RowFields
<1> QED BY <1>1, <1>2, <1>3 DEF Below, t

\* No more rows are left than there may be.
LEMMA CountedBounded ==
    ASSUME NEW s, Proper(s)
    PROVE  Cardinality(Rows(Deleted(s, Oldest(s)))) <= MaxEntries
<1> DEFINE c == Deleted(s, Oldest(s))
           Behinds(i) == {j \in Rows(s) : Ahead(s, i, j)}
           S == Rows(s) \ Oldest(s)
<1>1. Oldest(s) \in SUBSET Ids
  BY DEF Oldest, Rows
<1>2. Rows(c) = S
  BY <1>1, DeletedRow
<1>3. IsFiniteSet(Rows(s)) /\ Neat(s) /\ MaxEntries \in Nat
  BY NeatFacts, ResponseAssumption DEF Proper
<1>4. CASE S = {}
  BY <1>2, <1>3, <1>4, FS_EmptySet
<1>5. CASE S # {}
  <2>1. PICK i \in S : \A j \in S : i = j \/ Ahead(s, i, j)
    BY <1>3, <1>5, FirstOf
  <2>2. ~(Cardinality(Behinds(i)) >= MaxEntries)
    BY <2>1 DEF Oldest
  <2>3. IsFiniteSet(Behinds(i)) /\ Cardinality(Behinds(i)) \in Nat
    <3>1. Behinds(i) \subseteq Rows(s)
      OBVIOUS
    <3> QED BY <1>3, <3>1, FS_Subset, FS_CardinalityType
  <2>4. S \subseteq Behinds(i) \cup {i}
    BY <2>1
  <2> HIDE DEF Behinds, S
  <2>5. IsFiniteSet(Behinds(i) \cup {i}) /\ Cardinality(Behinds(i) \cup {i}) <= Cardinality(Behinds(i)) + 1
    <3> DEFINE B == Behinds(i)
    <3>1. IsFiniteSet(B) /\ Cardinality(B) \in Nat
      BY <2>3
    <3> HIDE DEF B
    <3>2. IsFiniteSet(B \cup {i})
          /\ Cardinality(B \cup {i}) = IF i \in B THEN Cardinality(B) ELSE Cardinality(B) + 1
      BY <3>1, FS_AddElement
    <3>3. Cardinality(B \cup {i}) <= Cardinality(B) + 1
      BY <3>1, <3>2
    <3> QED BY <3>2, <3>3 DEF B
  <2>6. Cardinality(S) <= Cardinality(Behinds(i) \cup {i}) /\ Cardinality(S) \in Nat
        /\ Cardinality(Behinds(i) \cup {i}) \in Nat
    BY <2>4, <2>5, FS_Subset, FS_CardinalityType
  <2>7. Cardinality(S) <= MaxEntries
    BY <1>3, <2>2, <2>3, <2>5, <2>6
  <2> QED BY <1>2, <2>7
<1> QED BY <1>4, <1>5

\* What leaves is enough.
LEMMA LeavingFits ==
    ASSUME NEW s, Proper(s)
    PROVE  Fits(Deleted(s, Leaving(s)))
<1> DEFINE L == Leaving(s)
           t == Deleted(s, L)
           S == Rows(s) \ L
<1>1. Neat(s) /\ Rows(s) \in SUBSET Ids
  BY NeatFacts DEF Proper
<1>2. L \in SUBSET Rows(s) /\ L \in SUBSET Ids
  BY <1>1 DEF Leaving
<1>3. Proper(t) /\ Rows(t) = S /\ \A i \in Ids : t.row[i] = IF i \in L THEN Absent ELSE s.row[i]
  BY <1>2, DeletedRow
<1>4. CASE S = {}
  <2> HIDE DEF t
  <2>1. \A i \in Ids : t.row[i].size = 0
    <3>1. \A i \in Ids : t.row[i].kind = "none" /\ RowOK(t.row[i])
      BY <1>3, <1>4 DEF Rows, Proper, Neat
    <3> QED BY <3>1, RowFacts
  <2>2. Bytes(t.row, Ids) = 0
    BY <2>1, BytesType, ResponseAssumption
  <2> QED BY <2>2, ResponseAssumption DEF Fits, t
<1>5. CASE S # {}
  <2>1. PICK i \in S : \A j \in S : i = j \/ Ahead(s, i, j)
    BY <1>1, <1>5, FirstOf
  <2>2. i \in Rows(s) /\ i \notin L
    BY <2>1
  <2>3. PICK p \in UpTo(s, i, Rows(s)) : Fits(Deleted(s, UpTo(s, p, Rows(s)) \ {p}))
    BY <2>2 DEF Leaving
  <2>4. p \in Rows(s) /\ (p = i \/ Ahead(s, p, i))
    BY <2>2, <2>3 DEF UpTo
  <2> DEFINE A == UpTo(s, p, Rows(s)) \ {p}
  <2>5. ASSUME NEW j \in A PROVE j \in L
    <3>1. j \in Rows(s) /\ Ahead(s, j, p)
      BY DEF UpTo
    <3>2. Place(s, j) < Place(s, p) /\ Place(s, p) <= Place(s, i)
          /\ Place(s, j) \in Nat /\ Place(s, p) \in Nat /\ Place(s, i) \in Nat
      BY <1>1, <2>2, <2>4, <3>1, PlaceIs
    <3>3. j # i /\ ~Ahead(s, i, j)
      BY <1>1, <2>2, <3>1, <3>2, PlaceIs
    <3> QED BY <2>1, <3>1, <3>3
  <2>6. A \in SUBSET Ids
    BY <1>1 DEF UpTo
  <2> HIDE DEF A, L
  <2> DEFINE u == Deleted(s, A)
  <2>7. Proper(u) /\ \A j \in Ids : u.row[j] = IF j \in A THEN Absent ELSE s.row[j]
    BY <2>6, DeletedRow
  <2>8. Fits(u)
    BY <2>3 DEF A
  <2> HIDE DEF u, t
  <2>9. Below(u, t)
    <3>1. \A j \in Ids : u.row[j].size \in Nat
      BY <2>7, RowFacts DEF Proper, Neat
    <3>2. Absent.size = 0 /\ Absent.kind = "none"
      BY RowFields
    <3>3. \A j \in Ids : t.row[j] = u.row[j] \/ t.row[j] = Absent
      BY <1>3, <2>5, <2>7
    <3> QED BY <3>1, <3>2, <3>3 DEF Below
  <2> QED BY <1>3, <2>7, <2>8, <2>9, BelowBounded DEF Proper, t, L
<1> QED BY <1>4, <1>5

\* Freeing memory adds no row.
LEMMA PrunesRows ==
    ASSUME NEW s, NEW t, Proper(s), Proper(t), Prunes(s, t)
    PROVE  Cardinality(Rows(t)) <= Cardinality(Rows(s))
           /\ Cardinality(Rows(t)) \in Nat /\ Cardinality(Rows(s)) \in Nat
<1>1. Rows(t) \subseteq Rows(s)
  <2> SUFFICES ASSUME NEW i \in Ids, t.row[i].kind # "none"
               PROVE  s.row[i].kind # "none"
    BY DEF Rows
  <2>1. Slimmer(t.row[i], s.row[i])
    BY DEF Prunes
  <2> QED BY <2>1, RowFields DEF Slimmer
<1>2. IsFiniteSet(Rows(s)) /\ IsFiniteSet(Rows(t))
  BY NeatFacts DEF Proper
<1> QED BY <1>1, <1>2, FS_Subset, FS_CardinalityType

\* Whatever there was: not too many rows and not too many bytes.
LEMMA PrunedBounded ==
    ASSUME NEW s, Proper(s), NEW failing
    PROVE  Bounded(Pruned(s, failing))
<1> DEFINE u == Unexpired(s)
           c == Counted(s)
           t == Squeezed(c, failing)
           p == Pruned(s, failing)
<1>1. Proper(u) /\ Proper(c) /\ Proper(t) /\ Prunes(c, t) /\ Proper(p) /\ Prunes(t, p)
  BY PrunedPrunes
<1>2. c = Deleted(u, Oldest(u))
  BY DEF Counted
<1>3. p = Deleted(t, Leaving(t))
  BY PrunedIs
<1> HIDE DEF u, c, t, p
<1>4. Cardinality(Rows(c)) <= MaxEntries
  BY <1>1, <1>2, CountedBounded
<1>5. Cardinality(Rows(t)) <= Cardinality(Rows(c)) /\ Cardinality(Rows(p)) <= Cardinality(Rows(t))
      /\ Cardinality(Rows(c)) \in Nat /\ Cardinality(Rows(t)) \in Nat /\ Cardinality(Rows(p)) \in Nat
  BY <1>1, PrunesRows
<1>6. Fits(p)
  BY <1>1, <1>3, LeavingFits
<1>7. Cardinality(Rows(p)) <= MaxEntries
  BY <1>4, <1>5, ResponseAssumption
<1> QED BY <1>6, <1>7 DEF Bounded, Fits, p

\* The rows after residents went to files.
LEMMA DemotedRow ==
    ASSUME NEW s, Proper(s), NEW D \in SUBSET Ids, NEW failing
    PROVE  \A i \in Ids : Demoted(s, D, failing).row[i] =
                IF i \in D THEN Spilled(s, i, s.row[i].v, failing) ELSE s.row[i]
<1>1. Demoted(s, D, failing).row =
        [i \in Ids |-> IF i \in D THEN Spilled(s, i, s.row[i].v, failing) ELSE s.row[i]]
  BY ProperFacts, DemotedFields
<1> QED BY <1>1

\* Rows that are within the bounds stay, but for what has expired.
LEMMA PruneRests ==
    ASSUME NEW s, Proper(s), Bounded(s), NEW failing
    PROVE  \A i \in Ids : Pruned(s, failing).row[i] = IF i \in Expired(s) THEN Absent ELSE s.row[i]
<1> DEFINE u == Unexpired(s)
           c == Counted(s)
           t == Squeezed(c, failing)
           p == Pruned(s, failing)
<1>1. Proper(u) /\ Proper(c) /\ Proper(t) /\ Proper(p)
  BY PrunedPrunes
<1>2. u = Deleted(s, Expired(s)) /\ c = Deleted(u, Oldest(u)) /\ t = Demoted(c, Going(c, failing), failing)
  BY DEF Unexpired, Counted, Squeezed
<1>3. p = Deleted(t, Leaving(t))
  BY PrunedIs
<1> HIDE DEF u, c, t, p
<1>4. Expired(s) \in SUBSET Ids
  BY DEF Expired
<1>5. \A i \in Ids : u.row[i] = IF i \in Expired(s) THEN Absent ELSE s.row[i]
  BY <1>2, <1>4, DeletedRow
<1>6. Bounded(u)
  BY <1>1, <1>2, <1>4, DeletedBelow, BelowBounded DEF Proper
<1>7. Oldest(u) = {}
  <2> SUFFICES ASSUME NEW i \in Rows(u),
                      Cardinality({j \in Rows(u) : Ahead(u, i, j)}) >= MaxEntries
               PROVE  FALSE
    BY DEF Oldest
  <2> DEFINE S == {j \in Rows(u) : Ahead(u, i, j)}
  <2>1. ~Ahead(u, i, i)
    <3>1. Place(u, i) \in Nat
      BY <1>1, PlaceIs DEF Proper
    <3>2. ~(Place(u, i) < Place(u, i))
      BY <3>1
    <3> QED BY <1>1, <3>2, PlaceIs DEF Proper
  <2>2. S \subseteq Rows(u) \ {i}
    BY <2>1
  <2>3. IsFiniteSet(Rows(u))
    BY <1>1, NeatFacts DEF Proper
  <2> DEFINE T == Rows(u) \ {i}
  <2>4. IsFiniteSet(T) /\ Cardinality(T) = Cardinality(Rows(u)) - 1
    BY <2>3, FS_RemoveElement
  <2>5. Cardinality(S) <= Cardinality(T) /\ Cardinality(S) \in Nat /\ Cardinality(T) \in Nat
        /\ Cardinality(Rows(u)) \in Nat
    <3> HIDE DEF S, T
    <3> QED BY <2>2, <2>3, <2>4, FS_Subset, FS_CardinalityType DEF T
  <2>6. Cardinality(Rows(u)) <= MaxEntries /\ MaxEntries \in Nat
    BY <1>6, ResponseAssumption DEF Bounded
  <2> HIDE DEF S, T
  <2>7. Cardinality(S) >= MaxEntries
    BY DEF S
  <2> QED BY <2>4, <2>5, <2>6, <2>7
<1>8. \A i \in Ids : c.row[i] = u.row[i]
  <2>1. c = Deleted(u, {})
    BY <1>2, <1>7
  <2> QED BY <1>1, <2>1, DeletedRow
<1>9. Below(u, c)
  <2>1. \A i \in Ids : u.row[i].size \in Nat
    BY <1>1, RowFacts DEF Proper, Neat
  <2> QED BY <1>8, <2>1 DEF Below
<1>10. Fits(c)
  <2>1. Fits(u)
    BY <1>6 DEF Bounded, Fits
  <2> QED BY <1>1, <1>9, <2>1, BelowBounded DEF Proper
\* The first resident need not go, so none does.
<1>11. Going(c, failing) = {}
  <2> DEFINE S == {i \in Ids : c.row[i].kind = "resident"}
  <2> SUFFICES ASSUME NEW i \in S, \A q \in UpTo(c, i, S) :
                        ~Fits(Demoted(c, UpTo(c, q, S) \ {q}, failing))
               PROVE  FALSE
    BY DEF Going
  <2>1. S \in SUBSET Rows(c) /\ S # {}
    BY DEF Rows
  <2> HIDE DEF S
  <2>2. PICK f \in S : (\A j \in S : f = j \/ Ahead(c, f, j)) /\ \A j \in S : ~Ahead(c, j, f)
    BY <1>1, <2>1, FirstOf DEF Proper
  <2>3. f \in UpTo(c, i, S) /\ UpTo(c, f, S) \ {f} = {}
    BY <2>2 DEF UpTo
  <2>4. ~Fits(Demoted(c, {}, failing))
    BY <2>3
  <2> DEFINE d == Demoted(c, {}, failing)
  <2>5. \A j \in Ids : d.row[j] = c.row[j]
    BY <1>1, DemotedRow
  <2>6. Proper(d)
    BY <1>1, DemotedPrunes
  <2> HIDE DEF d
  <2>7. Below(c, d)
    <3>1. \A j \in Ids : c.row[j].size \in Nat
      BY <1>1, RowFacts DEF Proper, Neat
    <3> QED BY <2>5, <3>1 DEF Below
  <2>8. Fits(d)
    BY <1>1, <1>10, <2>6, <2>7, BelowBounded DEF Proper
  <2> QED BY <2>4, <2>8 DEF d
<1>12. \A i \in Ids : t.row[i] = c.row[i]
  <2>1. t = Demoted(c, {}, failing)
    BY <1>2, <1>11
  <2> QED BY <1>1, <2>1, DemotedRow
<1>13. Fits(t)
  <2>1. \A j \in Ids : c.row[j].size \in Nat
    BY <1>1, RowFacts DEF Proper, Neat
  <2>2. Below(c, t)
    BY <1>12, <2>1 DEF Below
  <2> QED BY <1>1, <1>10, <2>2, BelowBounded DEF Proper
\* Nor does the first row.
<1>14. Leaving(t) = {}
  <2> DEFINE S == Rows(t)
  <2> SUFFICES ASSUME NEW i \in S, \A q \in UpTo(t, i, S) :
                        ~Fits(Deleted(t, UpTo(t, q, S) \ {q}))
               PROVE  FALSE
    BY DEF Leaving
  <2>1. S \in SUBSET Rows(t) /\ S # {}
    OBVIOUS
  <2> HIDE DEF S
  <2>2. PICK f \in S : (\A j \in S : f = j \/ Ahead(t, f, j)) /\ \A j \in S : ~Ahead(t, j, f)
    BY <1>1, <2>1, FirstOf DEF Proper
  <2>3. f \in UpTo(t, i, S) /\ UpTo(t, f, S) \ {f} = {}
    BY <2>2 DEF UpTo
  <2>4. ~Fits(Deleted(t, {}))
    BY <2>3
  <2>5. {} \in SUBSET Ids
    OBVIOUS
  <2> DEFINE d == Deleted(t, {})
  <2>6. Below(t, d) /\ Proper(d)
    BY <1>1, <2>5, DeletedBelow, DeletedRow
  <2> HIDE DEF d
  <2>7. Fits(d)
    BY <1>1, <1>13, <2>6, BelowBounded DEF Proper
  <2> QED BY <2>4, <2>7 DEF d
<1>15. \A i \in Ids : p.row[i] = t.row[i]
  <2>1. p = Deleted(t, {})
    BY <1>3, <1>14
  <2> QED BY <1>1, <2>1, DeletedRow
<1> QED BY <1>5, <1>8, <1>12, <1>15 DEF p

\* A row that gives its payload to a file does not grow.
LEMMA DemotedBounded ==
    ASSUME StubsAreSmall, NEW s, Proper(s), Bounded(s), NEW i \in Ids, s.row[i].kind = "resident",
           NEW failing
    PROVE  Bounded(Demoted(s, {i}, failing))
<1> DEFINE t == Demoted(s, {i}, failing)
<1>1. Proper(t) /\ Prunes(s, t)
  BY DemotedPrunes
<1>2. \A j \in Ids : t.row[j] = IF j \in {i} THEN Spilled(s, j, s.row[j].v, failing) ELSE s.row[j]
  BY DemotedRow
<1> HIDE DEF t
<1>3. \A j \in Ids : s.row[j].size \in Nat
  BY RowFacts DEF Proper, Neat
<1>4. t.row[i].size \in {StubSize, TombSize}
  BY <1>2, RowFields DEF Spilled
<1>5. s.row[i].size \in Sizes
  BY DEF Proper, Neat, RowOK
<1>6. StubSize <= s.row[i].size /\ TombSize <= s.row[i].size
  BY <1>3, <1>5, ResponseAssumption DEF StubsAreSmall
<1>7. \A j \in Ids : j # i => t.row[j] = s.row[j]
  BY <1>2
<1>8. Below(s, t)
  BY <1>3, <1>4, <1>6, <1>7 DEF Below
<1> QED BY <1>1, <1>8, BelowBounded DEF Proper, t

\* Whatever becomes the rows is within the caps: the rows, the snapshot that a
\* process starts from, and the picture that becomes the snapshot.
CapInv == Bounded(Store) /\ Bounded(snapshot) /\ Bounded(writer.picture)

\* The store after a step is the one that the handler made.
LEMMA BecomesIs ==
    ASSUME NEW t, Proper(t), Becomes(t)
    PROVE  Store' = t
<1>1. row' = t.row /\ order' = t.order /\ queue' = t.queue /\ files' = t.files
  BY DEF Becomes
<1>2. t = [row |-> t.row, order |-> t.order, queue |-> t.queue, files |-> t.files]
  BY DEF Proper
<1> QED BY <1>1, <1>2 DEF Store

\* No rows are within the caps.
LEMMA NothingBounded == Bounded(NoSnapshot)
<1>1. \A i \in Ids : NoSnapshot.row[i] = Absent
  BY StartFacts DEF NoRows
<1>2. Bytes(NoSnapshot.row, Ids) = 0
  BY <1>1, RowFields, BytesType, ResponseAssumption
<1>3. Rows(NoSnapshot) = {}
  BY <1>1, RowFields DEF Rows
<1> QED BY <1>2, <1>3, FS_EmptySet, ResponseAssumption DEF Bounded

\* The caps are about rows.
LEMMA SameRowsBounded ==
    ASSUME NEW s, NEW t, t.row = s.row, Bounded(s)
    PROVE  Bounded(t)
BY DEF Bounded, Rows

\* A picture has no more than the rows.
LEMMA PictureBounded ==
    ASSUME Proper(Store), Bounded(Store)
    PROVE  Bounded(Picture)
<1> DEFINE s == Store
           t == Picture
<1>1. PICK N \in SUBSET Ids :
         t.row = [i \in Ids |-> IF i \in N THEN row[i] ELSE Absent] /\ Neat(t)
  BY PictureIs
<1>2. \A i \in Ids : t.row[i] = row[i] \/ t.row[i] = Absent
  BY <1>1
<1>3. \A i \in Ids : row[i].size \in Nat
  BY StoreFacts, RowFacts DEF Proper, Neat
<1> HIDE DEF t
<1>4. Below(s, t)
  BY <1>2, <1>3, StoreFacts, RowFields DEF Below
<1> QED BY <1>1, <1>4, BelowBounded DEF Proper, t

\* The caps hold at the start.
LEMMA CapInit == Init => CapInv
<1> SUFFICES ASSUME Init PROVE CapInv
  OBVIOUS
<1>1. row = NoSnapshot.row /\ snapshot = NoSnapshot /\ writer = NoWriter
  BY StartFacts DEF Init
<1>2. Store.row = NoSnapshot.row
  BY <1>1, StoreFacts
<1> QED BY <1>1, <1>2, StartFacts, NothingBounded, SameRowsBounded DEF CapInv

\* Every step keeps within the caps: those that add a row prune, and those that do
\* not prune make no row larger.
LEMMA CapNext ==
    ASSUME StoreInv, CapInv, StubsAreSmall, [Next]_vars
    PROVE  CapInv'
<1>0. Proper(Store) /\ Bounded(Store) /\ Bounded(snapshot) /\ Bounded(writer.picture)
      /\ Bounded(Picture)
  BY InvFacts, PictureBounded DEF CapInv
<1>a. row' = row => Bounded(Store')
  <2>1. Store'.row = row'
    BY DEF Store
  <2> QED BY <1>0, <2>1, StoreFacts, SameRowsBounded
<1>1. CASE Requests
  <2>1. PICK failing \in SUBSET Ids :
          \/ Load(failing) \/ BudgetEvict(failing)
          \/ \E i \in Ids : Expand(i, failing)
          \/ \E i \in Ids, v \in NextVersions, size \in Sizes : Remember(i, v, size, failing)
    BY <1>1 DEF Requests
  <2>2. UNCHANGED <<snapshot, writer>>
    BY <2>1 DEF Load, BudgetEvict, Expand, Remember, persist, written
  <2>3. CASE Load(failing)
    <3>1. PICK gone \in SUBSET Orphans :
            Becomes(Pruned([row |-> snapshot.row, order |-> snapshot.order, queue |-> queue,
                            files |-> files \ gone], failing))
      BY <2>3 DEF Load
    <3> DEFINE s == [row |-> snapshot.row, order |-> snapshot.order, queue |-> queue, files |-> files \ gone]
               t == Pruned(s, failing)
    <3>2. s.row = snapshot.row /\ s.order = snapshot.order /\ s.queue = queue /\ s.files = files \ gone
          /\ s = [row |-> s.row, order |-> s.order, queue |-> s.queue, files |-> s.files]
      OBVIOUS
    <3>3. Becomes(t)
      BY <3>1
    <3> HIDE DEF s
    <3>4. Proper(s)
      <4>1. Rows(s) = Rows(snapshot)
        BY <3>2 DEF Rows
      <4>2. Neat(s)
        BY <3>2, <4>1, InvFacts DEF Neat
      <4> QED BY <1>0, <3>2, <4>2, StoreFacts DEF Proper
    <3>5. Proper(t) /\ Bounded(t)
      BY <3>4, PrunedPrunes, PrunedBounded
    <3> HIDE DEF t
    <3>6. Store' = t
      BY <3>3, <3>5, BecomesIs
    <3> QED BY <1>0, <2>2, <3>5, <3>6 DEF CapInv
  <2>4. CASE BudgetEvict(failing)
    <3> DEFINE s == Store
    <3>1. PICK i \in Residents : Becomes(Demoted(s, {i}, failing))
      BY <2>4 DEF BudgetEvict
    <3> DEFINE t == Demoted(s, {i}, failing)
    <3>2. i \in Ids /\ s.row[i].kind = "resident" /\ Proper(s) /\ Bounded(s)
      BY <1>0, StoreFacts DEF Residents
    <3> HIDE DEF s
    <3>3. Proper(t) /\ Bounded(t)
      BY <3>2, DemotedPrunes, DemotedBounded
    <3>4. Becomes(t)
      BY <3>1
    <3> HIDE DEF t
    <3>5. Store' = t
      BY <3>3, <3>4, BecomesIs
    <3> QED BY <1>0, <2>2, <3>3, <3>5 DEF CapInv
  <2>5. CASE \E i \in Ids : Expand(i, failing)
    <3>1. PICK i \in Ids : Expand(i, failing)
      BY <2>5
    <3> DEFINE o == Store
               s == Pruned(o, failing)
               r == Tombstone(s.row[i].v)
               p == Placed(s, i, r)
    <3>2. Becomes(s) \/ (s.row[i].kind = "spill" /\ Becomes(p))
      BY <3>1 DEF Expand
    <3> HIDE DEF o
    <3>3. Proper(s) /\ Bounded(s)
      BY <1>0, PrunedPrunes, PrunedBounded DEF o
    <3> HIDE DEF s
    <3>4. CASE Becomes(s)
      <4>1. Store' = s
        BY <3>3, <3>4, BecomesIs
      <4> QED BY <1>0, <2>2, <3>3, <4>1 DEF CapInv
    <3>5. CASE s.row[i].kind = "spill" /\ Becomes(p)
      <4>1. s.row[i].v \in 1..MaxVersion /\ s.row[i].size = StubSize
        BY <3>3, <3>5, RowFacts DEF Proper, Neat, RowOK
      <4>2. RowOK(r) /\ r # Absent /\ r.kind = "spill-failed" /\ r.size = TombSize
        BY <4>1, RowsAreOK, RowFields
      <4> HIDE DEF r
      <4>3. Proper(p) /\ p.row = [s.row EXCEPT ![i] = r]
        BY <3>3, <4>2, PlacedProper
      <4>4. p.row[i] = r /\ \A j \in Ids \ {i} : p.row[j] = s.row[j]
        BY <3>3, <4>3 DEF Proper, Neat
      <4>5. \A j \in Ids : s.row[j].size \in Nat
        BY <3>3, RowFacts DEF Proper, Neat
      <4> HIDE DEF p
      <4>6. Below(s, p)
        BY <3>5, <4>1, <4>2, <4>4, <4>5, ResponseAssumption DEF Below, StubsAreSmall
      <4>7. Bounded(p)
        BY <3>3, <4>3, <4>6, BelowBounded DEF Proper
      <4>8. Store' = p
        BY <3>5, <4>3, BecomesIs
      <4> QED BY <1>0, <2>2, <4>7, <4>8 DEF CapInv
    <3> QED BY <3>2, <3>4, <3>5
  <2>6. CASE \E i \in Ids, v \in NextVersions, size \in Sizes : Remember(i, v, size, failing)
    <3>1. PICK i \in Ids, v \in NextVersions, size \in Sizes : Remember(i, v, size, failing)
      BY <2>6
    <3> DEFINE s == Store
               u == Admitted(s, i, v, size, failing)
               t == Pruned(u, failing)
    <3>2. Becomes(t)
      BY <3>1 DEF Remember
    <3>3. v \in 1..MaxVersion /\ \A j \in Ids : last[j] < v
      BY DEF NextVersions
    <3>4. Proper(s) /\ Behind(s, last) /\ last \in [Ids -> Nat] /\ Remembered(s.row, last)
      BY InvFacts, StoreFacts
    <3> HIDE DEF s
    <3>5. Proper(u)
      BY <3>3, <3>4, AdmittedHandles
    <3> HIDE DEF u
    <3>6. Proper(t) /\ Bounded(t)
      BY <3>5, PrunedPrunes, PrunedBounded
    <3> HIDE DEF t
    <3>7. Store' = t
      BY <3>2, <3>6, BecomesIs
    <3> QED BY <1>0, <2>2, <3>6, <3>7 DEF CapInv
  <2> QED BY <2>1, <2>3, <2>4, <2>5, <2>6
<1>2. CASE Sweep
  <2> DEFINE s == Store
             t == Deleted(s, Expired(s))
  <2>1. UNCHANGED <<snapshot, writer>> /\ Becomes(t)
    BY <1>2 DEF Sweep, written
  <2>2. Proper(s) /\ Bounded(s) /\ Expired(s) \in SUBSET Ids
    BY <1>0 DEF Expired
  <2> HIDE DEF s
  <2>3. Proper(t) /\ Below(s, t)
    BY <2>2, DeletedPrunes, DeletedBelow
  <2> HIDE DEF t
  <2>4. Bounded(t)
    BY <2>2, <2>3, BelowBounded DEF Proper
  <2>5. Store' = t
    BY <2>1, <2>3, BecomesIs
  <2> QED BY <1>0, <2>1, <2>4, <2>5 DEF CapInv
<1>3. CASE Age \/ TimerFires \/ Flush \/ UNCHANGED vars
  <2>1. UNCHANGED <<row, snapshot, writer>>
    BY <1>3 DEF Age, TimerFires, Flush, vars, rows, persist, written
  <2> QED BY <1>0, <1>a, <2>1 DEF CapInv
<1>4. CASE Writing \/ WriteFails
  <2>0. writer \in WriterShapes
    BY InvFacts DEF Shapes
  <2>1. row' = row /\ snapshot' \in {snapshot, writer.picture}
        /\ (writer'.picture = Picture \/ writer'.picture = writer.picture \/ writer' = NoWriter)
    <3>1. CASE BeginWrite
      BY <3>1 DEF BeginWrite, rows
    <3>2. CASE Awaited
      BY <3>2 DEF Awaited, rows
    <3>3. CASE Rename
      BY <2>0, <3>3 DEF Rename, rows, WriterShapes
    <3>4. CASE Stable
      BY <3>4 DEF Stable, Idle
    <3>5. CASE Again
      BY <2>0, <3>5 DEF Again, rows, WriterShapes
    <3>6. CASE Unstable
      BY <2>0, <3>6 DEF Unstable, rows, WriterShapes
    <3>7. CASE FollowUp
      BY <3>7 DEF FollowUp, Idle, rows
    <3>8. CASE WriteFails
      BY <3>8 DEF WriteFails, Idle, rows
    <3> QED BY <1>4, <3>1, <3>2, <3>3, <3>4, <3>5, <3>6, <3>7, <3>8 DEF Writing
  <2>2. Bounded(snapshot')
    BY <1>0, <2>1
  <2>3. Bounded(writer'.picture)
    BY <1>0, <2>1, NothingBounded, StartFacts
  <2> QED BY <1>a, <2>1, <2>2, <2>3 DEF CapInv
<1>5. CASE \E published \in {{}} \cup {{f} : f \in Published} : Crash(published)
  <2>1. row' = NoSnapshot.row /\ snapshot' = snapshot /\ writer' = NoWriter
    BY <1>5, StartFacts DEF Crash
  <2>2. Store'.row = NoSnapshot.row
    BY <2>1 DEF Store
  <2> QED BY <1>0, <2>1, <2>2, StartFacts, NothingBounded, SameRowsBounded DEF CapInv
<1> QED BY <1>1, <1>2, <1>3, <1>4, <1>5 DEF Next

\* The rows stay within the caps on bytes and on their number on every mutation
\* path (state.ts:284-286), provided that a stub is no larger than the payload it
\* stands for: the budget's eviction does not prune.
THEOREM StoreStaysWithinCap == StubsAreSmall => (Spec => []WithinCap)
<1> SUFFICES ASSUME StubsAreSmall PROVE Spec => []WithinCap
  OBVIOUS
<1>1. Init => StoreInv /\ CapInv
  BY InitFiles, CapInit
<1>2. StoreInv /\ CapInv /\ [Next]_vars => StoreInv' /\ CapInv'
  BY NextFiles, CapNext
<1>3. StoreInv /\ CapInv => WithinCap
  BY InvFacts, LengthIs, StoreFacts DEF CapInv, Bounded, WithinCap, Proper
<1> QED BY <1>1, <1>2, <1>3, PTL DEF Spec

-----------------------------------------------------------------------------
(* What is saved.                                                          *)

\* A row that is still there when the clock stands at h.
Fresh(r, h) == r.kind # "none" /\ r.v > h

\* Saved, of any snapshot, rows and clock: p has what rows R have.
Matches(p, R, h) ==
    \A i \in Ids :
        /\ Fresh(p.row[i], h) => p.row[i] = R[i]
        /\ Fresh(R[i], h) /\ Eligible(R[i]) /\ ~p.cut => p.row[i] = R[i]

\* It is what AtRestMemoryIsSaved means by saved.
LEMMA SavedIs == Saved <=> Matches(snapshot, row, horizon)
BY Zenon DEF Saved, Live, Matches, Fresh

\* Rows that only lose what has expired still match, and the clock may go on.
LEMMA MatchesStays ==
    ASSUME NEW p, NEW R, NEW Q, NEW h \in Nat, NEW k \in Nat, h <= k,
           \A i \in Ids : p.row[i].kind # "none" => p.row[i].v \in Nat,
           \A i \in Ids : R[i].kind # "none" => R[i].v \in Nat,
           Matches(p, R, h),
           \A i \in Ids : Q[i] = R[i] \/ (Q[i] = Absent /\ R[i].kind # "none" /\ R[i].v <= h)
    PROVE  Matches(p, Q, k)
<1> SUFFICES ASSUME NEW i \in Ids
             PROVE  /\ Fresh(p.row[i], k) => p.row[i] = Q[i]
                    /\ Fresh(Q[i], k) /\ Eligible(Q[i]) /\ ~p.cut => p.row[i] = Q[i]
  BY DEF Matches
<1>1. /\ Fresh(p.row[i], h) => p.row[i] = R[i]
      /\ Fresh(R[i], h) /\ Eligible(R[i]) /\ ~p.cut => p.row[i] = R[i]
  BY DEF Matches
<1>2. ASSUME Fresh(p.row[i], k)
      PROVE  p.row[i] = Q[i]
  <2>1. Fresh(p.row[i], h) /\ p.row[i] = R[i] /\ R[i].v > h /\ R[i].v \in Nat
    BY <1>1, <1>2 DEF Fresh
  <2>2. ~(R[i].v <= h)
    BY <2>1
  <2> QED BY <2>1, <2>2
<1>3. ASSUME Fresh(Q[i], k), Eligible(Q[i]), ~p.cut
      PROVE  p.row[i] = Q[i]
  <2>1. Q[i] # Absent
    BY <1>3, RowFields DEF Fresh
  <2>2. Q[i] = R[i]
    BY <2>1
  <2>3. R[i].kind # "none" /\ R[i].v \in Nat /\ R[i].v > k
    BY <1>3, <2>2 DEF Fresh
  <2>4. Fresh(R[i], h)
    BY <2>3 DEF Fresh
  <2> QED BY <1>1, <1>3, <2>2, <2>4
<1> QED BY <1>2, <1>3

\* The picture that a writer has just taken matches.
LEMMA PictureMatches ==
    ASSUME Proper(Store)
    PROVE  Matches(Picture, row, horizon)
<1> DEFINE p == Picture
           E == {i \in Ids : Eligible(row[i])}
<1>1. PICK N \in SUBSET E :
        /\ p.row = [i \in Ids |-> IF i \in N THEN row[i] ELSE Absent]
        /\ ~p.cut => N = E
  BY PictureIs
<1>2. \A i \in Ids : p.row[i] = IF i \in N THEN row[i] ELSE Absent
  BY <1>1
<1> HIDE DEF p
<1>3. \A i \in Ids : Fresh(p.row[i], horizon) => p.row[i] = row[i]
  BY <1>2, RowFields DEF Fresh
<1>4. ASSUME NEW i \in Ids, Eligible(row[i]), ~p.cut
      PROVE  p.row[i] = row[i]
  BY <1>1, <1>2, <1>4
<1> QED BY <1>3, <1>4 DEF Matches, p

\* A write that has not read the rows yet is on its way.
Due == timer \/ \E n \in DOMAIN waiting : waiting[n] # "await"

\* What a writer has read and nobody is going to write again is what there is:
\* while it is being written, unless the rows have changed and it is going to read
\* them again; after it gave up, unless another write is due; and once it is
\* written.
MatchInv ==
    /\ loaded /\ writer.stage # "idle" /\ ~Due => Matches(writer.picture, row, horizon)
    /\ writer.stage \in {"writing", "renamed"} /\ ~changed => Matches(writer.picture, row, horizon)
    /\ loaded /\ writer.stage = "idle" /\ ~Due /\ ~missed => Matches(snapshot, row, horizon)

\* Nothing is loaded at the start.
LEMMA MatchInit == Init => MatchInv
<1>1. Init => ~loaded /\ writer.stage = "idle"
  BY StartFacts DEF Init
<1> QED BY <1>1 DEF MatchInv

\* A write that joins the line is due.
LEMMA DueLater ==
    ASSUME NEW x, waiting \in Seq({"background", "flush", "again", "await"}),
           x \in {"background", "flush", "again"}
    PROVE  \E n \in DOMAIN Append(waiting, x) : Append(waiting, x)[n] # "await"
<1> DEFINE q == Append(waiting, x)
           n == Len(waiting) + 1
<1>1. n \in DOMAIN q /\ q[n] = x
  OBVIOUS
<1> QED BY <1>1

\* The rows may lose what has expired, and the clock may go on.
LEMMA MatchKept ==
    ASSUME StoreInv, MatchInv, UNCHANGED <<snapshot, writer, waiting, missed, loaded>>,
           horizon' \in Nat, horizon <= horizon',
           (changed' = changed \/ changed'),
           (timer' = timer \/ timer'),
           \A i \in Ids : row'[i] = row[i] \/ (row'[i] = Absent /\ row[i].kind # "none" /\ row[i].v <= horizon)
    PROVE  MatchInv'
<1>1. horizon \in Nat
  BY InvFacts, ResponseAssumption DEF Shapes, Versions
<1>2. /\ \A i \in Ids : row[i].v \in Nat
      /\ \A i \in Ids : snapshot.row[i].v \in Nat
      /\ \A i \in Ids : writer.picture.row[i].v \in Nat
  BY InvFacts, StoreFacts, RowFacts DEF Proper, Neat
<1> DEFINE R == row  Q == row'  h == horizon  k == horizon'
           p == writer.picture  s == snapshot
<1>3. ASSUME Matches(p, R, h) PROVE Matches(p, Q, k)
  BY <1>1, <1>2, <1>3, MatchesStays
<1>4. ASSUME Matches(s, R, h) PROVE Matches(s, Q, k)
  BY <1>1, <1>2, <1>4, MatchesStays
<1>5. Due' \/ (~Due' <=> ~Due)
  BY DEF Due
<1>6. changed' \/ changed' = changed
  OBVIOUS
<1> QED BY <1>3, <1>4, <1>5, <1>6 DEF MatchInv, Due

\* Whoever changes the rows and cannot tell that they still match sets the timer,
\* and tells the writer.
LEMMA MatchDisturbed ==
    ASSUME MatchInv, UNCHANGED <<snapshot, writer, waiting, missed, loaded>>, timer' = TRUE,
           changed' = (changed \/ writer.stage # "idle")
    PROVE  MatchInv'
BY DEF MatchInv, Due

\* The requests: the first finds what the snapshot has, but for what has expired.
LEMMA MatchRequests ==
    ASSUME StoreInv, CapInv, MatchInv, Requests
    PROVE  MatchInv'
<1>0. Proper(Store) /\ Bounded(Store) /\ Bounded(snapshot) /\ horizon \in Nat
  BY InvFacts, ResponseAssumption DEF CapInv, Shapes, Versions
<1>1. PICK failing \in SUBSET Ids :
        \/ Load(failing) \/ BudgetEvict(failing)
        \/ \E i \in Ids : Expand(i, failing)
        \/ \E i \in Ids, v \in NextVersions, size \in Sizes : Remember(i, v, size, failing)
  BY DEF Requests
<1>2. CASE Load(failing)
  <2>1. PICK gone \in SUBSET Orphans :
          Becomes(Pruned([row |-> snapshot.row, order |-> snapshot.order, queue |-> queue,
                          files |-> files \ gone], failing))
    BY <1>2 DEF Load
  <2> DEFINE s == [row |-> snapshot.row, order |-> snapshot.order, queue |-> queue, files |-> files \ gone]
             t == Pruned(s, failing)
  <2>2. s.row = snapshot.row /\ s.order = snapshot.order /\ s.queue = queue /\ s.files = files \ gone
        /\ s = [row |-> s.row, order |-> s.order, queue |-> s.queue, files |-> s.files]
    OBVIOUS
  <2>3. row' = t.row
    BY <2>1 DEF Becomes
  <2>4. /\ UNCHANGED <<snapshot, writer, waiting, missed, timer, changed, horizon>> /\ loaded' = TRUE
        /\ writer.stage = "idle"
    BY <1>2, InvFacts, StartFacts DEF Load, persist, written
  <2> HIDE DEF s
  <2>5. Proper(s)
    <3>1. Rows(s) = Rows(snapshot)
      BY <2>2 DEF Rows
    <3>2. Neat(s)
      BY <2>2, <3>1, InvFacts DEF Neat
    <3> QED BY <1>0, <2>2, <3>2, StoreFacts DEF Proper
  <2>6. Bounded(s)
    BY <1>0, <2>2, SameRowsBounded
  <2>7. \A i \in Ids : t.row[i] = IF i \in Expired(s) THEN Absent ELSE s.row[i]
    BY <2>5, <2>6, PruneRests
  <2>8. \A i \in Ids : t.row[i] = snapshot.row[i]
                       \/ (t.row[i] = Absent /\ snapshot.row[i].kind # "none" /\ snapshot.row[i].v <= horizon)
    BY <2>2, <2>7 DEF Expired
  <2>9. \A i \in Ids : snapshot.row[i].v \in Nat
    BY InvFacts, RowFacts DEF Neat
  <2> HIDE DEF t
  <2>10. Matches(snapshot, snapshot.row, horizon)
    BY DEF Matches
  <2> DEFINE p == snapshot  R == snapshot.row  Q == t.row  h == horizon
  <2>11. \A i \in Ids : (p.row[i].kind # "none" => p.row[i].v \in Nat) /\ (R[i].kind # "none" => R[i].v \in Nat)
    BY <2>9
  <2>12. h \in Nat /\ h <= h /\ Matches(p, R, h)
         /\ \A i \in Ids : Q[i] = R[i] \/ (Q[i] = Absent /\ R[i].kind # "none" /\ R[i].v <= h)
    BY <1>0, <2>8, <2>10
  <2> HIDE DEF p, R, Q, h
  <2>13. Matches(p, Q, h)
    BY <2>11, <2>12, MatchesStays
  <2>14. Matches(snapshot, row', horizon)
    BY <2>3, <2>13 DEF p, Q, h
  <2> QED BY <2>4, <2>14 DEF MatchInv
<1>3. CASE BudgetEvict(failing)
  <2>1. UNCHANGED <<snapshot, writer, waiting, missed, loaded>> /\ timer' = TRUE
        /\ changed' = (changed \/ writer.stage # "idle")
    BY <1>3 DEF BudgetEvict, written, past, Touched
  <2> QED BY <2>1, MatchDisturbed
<1>4. CASE \E i \in Ids, v \in NextVersions, size \in Sizes : Remember(i, v, size, failing)
  <2>1. UNCHANGED <<snapshot, writer, waiting, missed, loaded>> /\ timer' = TRUE
        /\ changed' = (changed \/ writer.stage # "idle")
    BY <1>4 DEF Remember, written, Touched
  <2> QED BY <2>1, MatchDisturbed
<1>5. CASE \E i \in Ids : Expand(i, failing)
  <2>1. PICK i \in Ids : Expand(i, failing)
    BY <1>5
  <2> DEFINE o == Store
             s == Pruned(o, failing)
             lost == s.row[i].kind = "spill" /\ File(i, s.row[i].v, s.row[i].g) \notin s.files
  <2>2. UNCHANGED <<snapshot, writer, waiting, missed, loaded, horizon>>
    BY <2>1 DEF Expand, written, past
  <2>3. CASE lost
    <3>1. timer' = TRUE /\ changed' = (changed \/ writer.stage # "idle")
      BY <2>1, <2>3 DEF Expand, Touched
    <3> QED BY <2>2, <3>1, MatchDisturbed
  <2>4. CASE ~lost
    <3>1. row' = s.row /\ timer' = timer
          /\ (changed' = (changed \/ writer.stage # "idle") \/ changed' = changed)
      BY <2>1, <2>4 DEF Expand, Touched, Becomes
    <3>2. changed' = changed \/ changed'
      BY <3>1, InvFacts DEF Shapes
    <3> HIDE DEF o
    <3>3. \A j \in Ids : s.row[j] = IF j \in Expired(o) THEN Absent ELSE o.row[j]
      BY <1>0, PruneRests DEF o
    <3>4. \A j \in Ids : s.row[j] = row[j]
                         \/ (s.row[j] = Absent /\ row[j].kind # "none" /\ row[j].v <= horizon)
      BY <3>3, StoreFacts DEF Expired, o
    <3> HIDE DEF s
    <3>5. horizon' \in Nat /\ horizon <= horizon'
      BY <1>0, <2>2
    <3> QED BY <2>2, <3>1, <3>2, <3>4, <3>5, MatchKept
  <2> QED BY <2>3, <2>4
<1> QED BY <1>1, <1>2, <1>3, <1>4, <1>5

\* The writer: it ends with the rows as they are, or with another write due, or
\* with one that failed.
LEMMA MatchWriting ==
    ASSUME StoreInv, MatchInv, Writing \/ WriteFails
    PROVE  MatchInv'
<1> USE InvFacts
<1>1. Matches(Picture, row, horizon)
  BY PictureMatches
<1>2. writer \in WriterShapes /\ waiting \in Seq({"background", "flush", "again", "await"})
      /\ timer \in BOOLEAN
  BY DEF Shapes
<1>3. CASE BeginWrite
  <2>1. UNCHANGED <<row, horizon>> /\ writer'.stage = "writing" /\ writer'.picture = Picture
    BY <1>3 DEF BeginWrite, rows, past
  <2> QED BY <1>1, <2>1 DEF MatchInv
<1>4. CASE Awaited
  <2>1. /\ UNCHANGED <<row, snapshot, writer, changed, missed, loaded, horizon>>
        /\ waiting # <<>> /\ Head(waiting) = "await"
        /\ IF timer THEN waiting' = Append(Tail(waiting), "flush") ELSE waiting' = Tail(waiting)
    BY <1>4 DEF Awaited, Awaiting, rows, past
  <2>2. Due => Due'
    <3>1. CASE timer
      <4> DEFINE q == Append(Tail(waiting), "flush")
                 n == Len(Tail(waiting)) + 1
      <4>1. Tail(waiting) \in Seq({"background", "flush", "again", "await"})
        BY <1>2, <2>1
      <4>2. n \in DOMAIN q /\ q[n] = "flush"
        BY <4>1
      <4>3. waiting' = q
        BY <2>1, <3>1
      <4> QED BY <4>2, <4>3 DEF Due
    <3>2. CASE ~timer
      <4>1. SUFFICES ASSUME NEW n \in DOMAIN waiting, waiting[n] # "await" PROVE Due'
        BY <3>2 DEF Due
      <4>2. n \in 1..Len(waiting) /\ n # 1 /\ Len(waiting) \in Nat
        BY <1>2, <2>1, <4>1
      <4>3. n - 1 \in DOMAIN Tail(waiting) /\ Tail(waiting)[n - 1] = waiting[n]
        BY <1>2, <2>1, <4>2
      <4> QED BY <2>1, <3>2, <4>1, <4>3 DEF Due
    <3> QED BY <3>1, <3>2
  <2> QED BY <2>1, <2>2 DEF MatchInv
<1>5. CASE Rename
  <2>1. UNCHANGED <<row, timer, changed, waiting, loaded, horizon>> /\ writer.stage = "writing"
        /\ writer'.stage = "renamed" /\ writer'.picture = writer.picture
    BY <1>2, <1>5 DEF Rename, rows, past, WriterShapes
  <2> QED BY <2>1 DEF MatchInv, Due
<1>6. CASE Stable
  <2>1. UNCHANGED <<row, snapshot, horizon>> /\ writer.stage = "renamed" /\ ~changed
        /\ writer'.stage = "idle"
    BY <1>6, StartFacts DEF Stable, Idle, past
  <2>2. snapshot = writer.picture
    BY <2>1 DEF PictureInv
  <2> QED BY <2>1, <2>2 DEF MatchInv
<1>7. CASE Again
  <2>1. UNCHANGED <<row, horizon>> /\ writer'.stage = "writing" /\ writer'.picture = Picture
    BY <1>2, <1>7 DEF Again, rows, past, WriterShapes
  <2> QED BY <1>1, <2>1 DEF MatchInv
<1>8. CASE Unstable
  <2>1. UNCHANGED <<row, timer, waiting, loaded, horizon>> /\ writer.stage = "renamed"
        /\ writer'.stage = "unstable" /\ writer'.picture = writer.picture
    BY <1>2, <1>8 DEF Unstable, rows, past, WriterShapes
  <2> QED BY <2>1 DEF MatchInv, Due
<1>9. CASE FollowUp
  <2>1. writer'.stage = "idle" /\ (Due' \/ missed')
    <3>1. writer' = NoWriter
          /\ (timer' = TRUE \/ waiting' = Append(waiting, "again") \/ missed' = TRUE)
      BY <1>9 DEF FollowUp, Idle
    <3>2. CASE waiting' = Append(waiting, "again")
      BY <1>2, <3>1, <3>2, DueLater, StartFacts DEF Due
    <3> QED BY <3>1, <3>2, StartFacts DEF Due
  <2> QED BY <2>1 DEF MatchInv
<1>10. CASE WriteFails
  <2>1. writer'.stage = "idle" /\ missed'
    BY <1>10, StartFacts DEF WriteFails, Idle
  <2> QED BY <2>1 DEF MatchInv
<1> QED BY <1>3, <1>4, <1>5, <1>6, <1>7, <1>8, <1>9, <1>10 DEF Writing

\* Every step keeps the match.
LEMMA MatchNext ==
    ASSUME StoreInv, CapInv, MatchInv, [Next]_vars
    PROVE  MatchInv'
<1>0. horizon \in Nat /\ (\A i \in Ids : last[i] \in Nat)
      /\ timer \in BOOLEAN /\ waiting \in Seq({"background", "flush", "again", "await"})
  BY InvFacts, ResponseAssumption DEF Shapes, Versions
<1>1. CASE Requests
  BY <1>1, MatchRequests
<1>2. CASE Sweep
  <2>1. UNCHANGED <<snapshot, writer, waiting, missed, loaded>> /\ timer' = TRUE
        /\ changed' = (changed \/ writer.stage # "idle")
    BY <1>2 DEF Sweep, written, past, Touched
  <2> QED BY <2>1, MatchDisturbed
<1>3. CASE Age
  <2>1. /\ UNCHANGED <<row, snapshot, writer, waiting, missed, timer, changed, loaded>>
        /\ horizon' = horizon + 1
    BY <1>3 DEF Age, rows, persist, written
  <2>2. horizon' \in Nat /\ horizon <= horizon'
    BY <1>0, <2>1
  <2> QED BY <2>1, <2>2, MatchKept
<1>4. CASE TimerFires
  <2>1. UNCHANGED <<row, snapshot, writer, changed, missed, loaded, horizon>>
        /\ waiting' = Append(waiting, "background")
    BY <1>4 DEF TimerFires, rows, past
  <2>2. Due'
    BY <1>0, <2>1, DueLater DEF Due
  <2> QED BY <2>1, <2>2 DEF MatchInv
<1>5. CASE Flush
  <2>1. UNCHANGED <<row, snapshot, writer, changed, missed, loaded, horizon>>
        /\ waiting' = Append(waiting, IF timer THEN "flush" ELSE "await")
    BY <1>5 DEF Flush, rows, past
  <2>2. Due => Due'
    <3>1. CASE timer
      BY <1>0, <2>1, <3>1, DueLater DEF Due
    <3>2. CASE ~timer
      <4>1. SUFFICES ASSUME NEW n \in DOMAIN waiting, waiting[n] # "await" PROVE Due'
        BY <3>2 DEF Due
      <4>2. n \in DOMAIN waiting' /\ waiting'[n] = waiting[n]
        BY <1>0, <2>1, <3>2, <4>1
      <4> QED BY <4>1, <4>2 DEF Due
    <3> QED BY <3>1, <3>2
  <2> QED BY <2>1, <2>2 DEF MatchInv
<1>6. CASE Writing \/ WriteFails
  BY <1>6, MatchWriting
<1>7. CASE \E published \in {{}} \cup {{f} : f \in Published} : Crash(published)
  <2>1. ~loaded' /\ writer'.stage = "idle"
    BY <1>7, StartFacts DEF Crash
  <2> QED BY <2>1 DEF MatchInv
<1>8. CASE UNCHANGED vars
  BY <1>8 DEF MatchInv, Due, vars, rows, persist, written, past
<1> QED BY <1>1, <1>2, <1>3, <1>4, <1>5, <1>6, <1>7, <1>8 DEF Next

\* A flush that ends does it as the writer does, or after awaiting it.
LEMMA FlushSaves ==
    ASSUME StoreInv, MatchInv, [Next]_vars, StoreInv', MatchInv', FlushEnds
    PROVE  Saved' \/ missed' \/ waiting' # <<>>
<1> SUFFICES ASSUME ~missed', waiting' = <<>>
             PROVE  Saved'
  OBVIOUS
<1>0. flush # "done" /\ flush' = "done" /\ writer \in WriterShapes
  BY InvFacts DEF FlushEnds, Shapes
<1>a. Saved' <=> Matches(snapshot, row, horizon)'
  BY Zenon DEF Saved, Live, Matches, Fresh
<1>1. Awaited \/ Stable
  <2>1. CASE FollowUp
    BY <1>0, <2>1 DEF FollowUp
  <2>2. CASE WriteFails
    BY <1>0, <2>2 DEF WriteFails
  <2>3. CASE Requests
    BY <1>0, <2>3 DEF Requests, Load, BudgetEvict, Expand, Remember, persist, written
  <2>4. CASE Sweep \/ Age
    BY <1>0, <2>4 DEF Sweep, Age, persist, written
  <2>5. CASE TimerFires \/ Flush
    BY <1>0, <2>5 DEF TimerFires, Flush
  <2>6. CASE BeginWrite \/ Rename \/ Again \/ Unstable
    BY <1>0, <2>6 DEF BeginWrite, Rename, Again, Unstable
  <2>7. CASE \E published \in {{}} \cup {{f} : f \in Published} : Crash(published)
    BY <1>0, <2>7 DEF Crash
  <2>8. CASE UNCHANGED vars
    BY <1>0, <2>8 DEF vars, persist, written
  <2> QED BY <2>1, <2>2, <2>3, <2>4, <2>5, <2>6, <2>7, <2>8 DEF Next, Writing
<1>2. CASE Awaited
  <2>1. /\ UNCHANGED <<row, snapshot, writer, loaded, horizon>> /\ timer' = FALSE
        /\ waiting # <<>> /\ writer.stage \in {"idle", "unstable"}
    BY <1>2 DEF Awaited, Awaiting, rows, past
  <2>2. loaded'
    BY <2>1, InvFacts
  <2>3. ~Due'
    BY <2>1 DEF Due
  <2>4. CASE writer.stage = "idle"
    <3>1. Matches(snapshot, row, horizon)'
      BY <2>1, <2>2, <2>3, <2>4 DEF MatchInv
    <3> QED BY <1>a, <3>1
  <2>5. CASE writer.stage = "unstable"
    <3>1. writer'.stage = "unstable" /\ snapshot' = writer'.picture
      BY <2>1, <2>5, InvFacts DEF PictureInv
    <3>2. Matches(writer.picture, row, horizon)'
      BY <2>1, <2>2, <2>3, <3>1 DEF MatchInv
    <3>3. Matches(snapshot, row, horizon)'
      BY <3>1, <3>2
    <3> QED BY <1>a, <3>3
  <2> QED BY <2>1, <2>4, <2>5
<1>3. CASE Stable
  <2>1. UNCHANGED <<row, snapshot, horizon>> /\ writer.stage = "renamed" /\ ~changed
    BY <1>3 DEF Stable, past
  <2>2. Matches(snapshot, row, horizon)
    BY <2>1, InvFacts DEF PictureInv, MatchInv
  <2>3. Matches(snapshot, row, horizon)'
    BY <2>1, <2>2
  <2> QED BY <1>a, <2>3
<1> QED BY <1>1, <1>2, <1>3

\* When no timer is set, nobody waits, no snapshot is being written and the last
\* write succeeded, the snapshot on disk holds what a request would find in memory:
\* no order of changes, timers, rewrites and follow-ups (state.ts:612-706) leaves a
\* change behind, provided that stubs are small, so that a lookup demotes nothing.
THEOREM RestingMemoryIsSaved == StubsAreSmall => (Spec => []AtRestMemoryIsSaved)
<1> SUFFICES ASSUME StubsAreSmall PROVE Spec => []AtRestMemoryIsSaved
  OBVIOUS
<1>1. Init => StoreInv /\ CapInv /\ MatchInv
  BY InitFiles, CapInit, MatchInit
<1>2. StoreInv /\ CapInv /\ MatchInv /\ [Next]_vars => StoreInv' /\ CapInv' /\ MatchInv'
  BY NextFiles, CapNext, MatchNext
<1>3. StoreInv /\ MatchInv => AtRestMemoryIsSaved
  BY InvFacts, SavedIs DEF MatchInv, AtRestMemoryIsSaved, Due
<1> QED BY <1>1, <1>2, <1>3, PTL DEF Spec

\* A flush at shutdown (flushResponseState, state.ts:696-706) that ends has saved
\* what was remembered while it waited, or its write failed, or a writer is still
\* in line.
THEOREM FlushLeavesNothing == StubsAreSmall => (Spec => FlushSavesOrLeavesAWriter)
<1> SUFFICES ASSUME StubsAreSmall PROVE Spec => FlushSavesOrLeavesAWriter
  OBVIOUS
<1>1. Init => StoreInv /\ CapInv /\ MatchInv
  BY InitFiles, CapInit, MatchInit
<1>2. StoreInv /\ CapInv /\ MatchInv /\ [Next]_vars => StoreInv' /\ CapInv' /\ MatchInv'
  BY NextFiles, CapNext, MatchNext
<1>3. StoreInv /\ CapInv /\ MatchInv /\ [Next]_vars => [FlushEnds => Saved' \/ missed' \/ waiting' # <<>>]_vars
  BY <1>2, FlushSaves
<1> QED BY <1>1, <1>2, <1>3, PTL DEF Spec, FlushSavesOrLeavesAWriter
=============================================================================
